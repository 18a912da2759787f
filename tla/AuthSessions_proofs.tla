------------------------ MODULE AuthSessions_proofs ------------------------
(***************************************************************************)
(* Proofs about AuthSessions, for any connections, requests, handles,      *)
(* invites and bounds.                                                     *)
(*                                                                         *)
(* What the checked invariants need on top of themselves is what a         *)
(* suspended request may rely on when it goes on: that its connection is   *)
(* open unless it was forgotten, that the invite it redeems is in the      *)
(* table, and that no invite is there before the first admin.              *)
(***************************************************************************)
EXTENDS AuthSessions, FiniteSetTheorems, TLAPS

Requests   == [op : {"redeem", "bootstrap", "signin"}, conn : Conns \cup {None},
               handle : Handles, invite : Invites \cup {None}]

Types ==
    /\ now \in 0..MaxTime /\ up \in BOOLEAN /\ boot \in BOOLEAN
    /\ role \in [Handles -> {"none", "user", "admin"}]
    /\ via \in [Handles -> Invites \cup {None}]
    /\ invite \in [Invites -> InviteRow \cup {None}]
    /\ session \in [SessionIds -> SessionRow \cup {None}]
    /\ connUser \in [Conns -> Handles \cup {None, "closed"}]
    /\ connSess \in [Conns -> SessionIds \cup {None}]
    /\ req \in [Reqs -> Requests \cup {Idle}]

\* A suspended request has an open connection or none, and the invite it
\* redeems or the account it signs in to is there.
RequestsSound ==
    \A q \in Reqs : req[q] # Idle =>
        /\ req[q].conn # None => Open(req[q].conn)
        /\ req[q].op = "redeem" => req[q].invite \in Invites /\ invite[req[q].invite] # None
        /\ req[q].op = "signin" => role[req[q].handle] # "none"

\* Where an account came from is in the tables.
OriginsKnown ==
    \A h \in Handles :
        /\ role[h] = "none" => via[h] = None
        /\ via[h] # None => invite[via[h]] # None

\* An invite is made by an admin.
InvitesNeedAdmin == \A i \in Invites : invite[i] # None => Admins # {}

IInv ==
    /\ Types /\ RequestsSound /\ OriginsKnown /\ InvitesNeedAdmin
    /\ InviteAccounting /\ NeverLockedOut /\ IdentityMatchesSession

-----------------------------------------------------------------------------
\* The operation of a suspended request.
LEMMA RequestFields ==
    ASSUME Types, NEW q \in Reqs, NEW op \in {"redeem", "bootstrap", "signin"}, req[q].op = op
    PROVE  /\ req[q] # Idle /\ req[q] \in Requests
           /\ req[q].handle \in Handles /\ req[q].conn \in Conns \cup {None}
<1>1. Idle.op = "idle"
  BY DEF Idle
<1>2. req[q] # Idle
  BY <1>1
<1>3. req[q] \in Requests
  BY <1>2 DEF Types
<1> QED  BY <1>2, <1>3 DEF Requests

\* A request that goes on: its slot is free, the others are as they were.
LEMMA ResumeEffect ==
    ASSUME Types, RequestsSound, NEW q \in Reqs, Resume(q),
           \A p \in Reqs : req[p] # Idle /\ req[p].conn # None =>
               connUser'[req[p].conn] # "closed",
           \A i \in Invites : invite[i] # None => invite'[i] # None,
           \A h \in Handles : role[h] # "none" => role'[h] # "none"
    PROVE  req' \in [Reqs -> Requests \cup {Idle}] /\ RequestsSound'
<1>1. req' = [req EXCEPT ![q] = Idle]
  BY DEF Resume
<1>2. req' \in [Reqs -> Requests \cup {Idle}]
  BY <1>1 DEF Types
<1>3. \A p \in Reqs : req'[p] = IF p = q THEN Idle ELSE req[p]
  BY <1>1 DEF Types
<1>4. \A p \in Reqs : req[p] # Idle => req[p].handle \in Handles
  BY DEF Types, Requests
<1>5. RequestsSound'
  BY <1>3, <1>4 DEF RequestsSound, Open
<1> QED  BY <1>2, <1>5

\* createSession and setConnectionUser: one new row, and the connection that is
\* signed in, if there is one, holds it.
LEMMA SignInEffect ==
    ASSUME IInv, NEW q \in Reqs, NEW op \in {"redeem", "bootstrap", "signin"}, req[q].op = op,
           \E s \in SessionIds : SignIn(q, s)
    PROVE  /\ session' \in [SessionIds -> SessionRow \cup {None}]
           /\ connUser' \in [Conns -> Handles \cup {None, "closed"}]
           /\ connSess' \in [Conns -> SessionIds \cup {None}]
           /\ IdentityMatchesSession'
           /\ \A c \in Conns : connUser[c] # "closed" => connUser'[c] # "closed"
           /\ \E s \in SessionIds :
                 /\ session'[s] # None /\ session'[s].user = req[q].handle
                 /\ \A t \in SessionIds \ {s} : session'[t] = session[t]
                 /\ session[s] = None
<1> DEFINE c == req[q].conn
           h == req[q].handle
<1>1. PICK s \in SessionIds : SignIn(q, s)
  OBVIOUS
<1>2. h \in Handles /\ c \in Conns \cup {None} /\ Types /\ req[q] # Idle
  BY RequestFields DEF IInv
<1> DEFINE row == [user |-> h, expires |-> now + SessionTtl]
<1>3. /\ session[s] = None
      /\ session' = [session EXCEPT ![s] = row]
      /\ IF c = None
         THEN connUser' = connUser /\ connSess' = connSess
         ELSE /\ connUser' = [connUser EXCEPT ![c] = h]
              /\ connSess' = [connSess EXCEPT ![c] = s]
  BY <1>1 DEF SignIn, FreshSession, connVars
<1>4. row \in SessionRow /\ row # None /\ row.user = h
  <2>1. row \in SessionRow
    BY <1>2, AuthAssumption DEF Types, SessionRow
  <2>2. row # None
    BY <2>1, AuthAssumption
  <2> QED  BY <2>1, <2>2
<1> HIDE DEF row, h, c
<1>5. /\ session' \in [SessionIds -> SessionRow \cup {None}]
      /\ session'[s] = row /\ \A t \in SessionIds \ {s} : session'[t] = session[t]
  BY <1>2, <1>3, <1>4 DEF Types
<1>6. /\ connUser' \in [Conns -> Handles \cup {None, "closed"}]
      /\ connSess' \in [Conns -> SessionIds \cup {None}]
      /\ \A d \in Conns : d # c => connUser'[d] = connUser[d] /\ connSess'[d] = connSess[d]
      /\ c # None => connUser'[c] = h /\ connSess'[c] = s
  BY <1>2, <1>3, AuthAssumption DEF Types
<1>7. IdentityMatchesSession'
  <2> SUFFICES ASSUME NEW d \in Conns
               PROVE  /\ connSess'[d] = None <=> connUser'[d] \in {None, "closed"}
                      /\ connSess'[d] # None =>
                            /\ session'[connSess'[d]] # None
                            /\ connUser'[d] = session'[connSess'[d]].user
    BY DEF IdentityMatchesSession
  <2>1. CASE d = c
    BY <1>2, <1>4, <1>5, <1>6, <2>1, AuthAssumption
  <2>2. CASE d # c
    <3>1. connUser'[d] = connUser[d] /\ connSess'[d] = connSess[d]
      BY <1>6, <2>2
    <3>2. connSess[d] # None => connSess[d] \in SessionIds \ {s}
      BY <1>2, <1>3 DEF Types, IInv, IdentityMatchesSession
    <3> QED  BY <1>5, <3>1, <3>2 DEF IInv, IdentityMatchesSession
  <2> QED  BY <2>1, <2>2
<1>8. \A d \in Conns : connUser[d] # "closed" => connUser'[d] # "closed"
  BY <1>2, <1>6, AuthAssumption
<1>9. session'[s].user = req[q].handle /\ session'[s] # None
  BY <1>4, <1>5 DEF h
<1> QED  BY <1>3, <1>5, <1>6, <1>7, <1>8, <1>9
-----------------------------------------------------------------------------
LEMMA InitSafe == Init => IInv
<1> SUFFICES ASSUME Init PROVE IInv
  OBVIOUS
<1>1. Types
  BY AuthAssumption DEF Init, Types
<1>2. Accounts = {} /\ Admins = {}
  BY DEF Init, Accounts, Admins
<1>3. RequestsSound /\ OriginsKnown /\ InvitesNeedAdmin
  BY DEF Init, RequestsSound, OriginsKnown, InvitesNeedAdmin
<1>4. InviteAccounting
  BY <1>2 DEF Init, InviteAccounting
<1>5. NeverLockedOut
  BY <1>2 DEF Init, NeverLockedOut
<1>6. IdentityMatchesSession
  BY DEF Init, IdentityMatchesSession
<1> QED  BY <1>1, <1>3, <1>4, <1>5, <1>6 DEF IInv

\* Invites, accounts and sessions as they are: what is said of them stays.
LEMMA TablesUnchanged ==
    ASSUME IInv, UNCHANGED dbVars
    PROVE  /\ OriginsKnown' /\ InvitesNeedAdmin' /\ InviteAccounting'
           /\ Accounts' = Accounts /\ Admins' = Admins
<1>1. role' = role /\ via' = via /\ invite' = invite /\ session' = session
  BY DEF dbVars
<1>2. Accounts' = Accounts /\ Admins' = Admins
  BY <1>1 DEF Accounts, Admins
<1>3. OriginsKnown' /\ InvitesNeedAdmin'
  BY <1>1, <1>2 DEF IInv, OriginsKnown, InvitesNeedAdmin
<1>4. InviteAccounting'
  BY <1>1, <1>2 DEF IInv, InviteAccounting
<1> QED  BY <1>2, <1>3, <1>4

\* Begin: a request that holds an open connection is suspended.
LEMMA BeginSafe ==
    ASSUME IInv, NEW q \in Reqs, NEW r \in Requests, Suspend(q, r), r.conn # None, Open(r.conn),
           r.op = "redeem" => r.invite \in Invites /\ invite[r.invite] # None,
           r.op = "signin" => role[r.handle] # "none",
           UNCHANGED <<now, up, boot, dbVars, connVars>>
    PROVE  IInv'
<1>1. /\ req' = [req EXCEPT ![q] = r] /\ now' = now /\ up' = up /\ boot' = boot
      /\ role' = role /\ via' = via /\ invite' = invite /\ session' = session
      /\ connUser' = connUser /\ connSess' = connSess /\ UNCHANGED dbVars
  BY DEF Suspend, dbVars, connVars
<1>2. Types'
  BY <1>1 DEF IInv, Types
<1>3. \A p \in Reqs : req'[p] = IF p = q THEN r ELSE req[p]
  BY <1>1 DEF IInv, Types
<1>4. RequestsSound'
  BY <1>1, <1>3 DEF IInv, RequestsSound, Open
<1>5. NeverLockedOut' /\ IdentityMatchesSession'
  BY <1>1, TablesUnchanged DEF IInv, NeverLockedOut, IdentityMatchesSession
<1> QED  BY <1>1, <1>2, <1>4, <1>5, TablesUnchanged DEF IInv

LEMMA BeginRedeemSafe ==
    ASSUME IInv, NEW q \in Reqs, NEW c \in Conns, NEW i \in Invites, NEW h \in Handles,
           BeginRedeem(q, c, i, h)
    PROVE  IInv'
<1> DEFINE r == Request("redeem", c, h, i)
<1>1. r \in Requests /\ r.conn = c /\ r.invite = i /\ r.op # "signin"
  BY DEF Request, Requests
<1>2. /\ Suspend(q, r) /\ Open(c) /\ invite[i] # None
      /\ UNCHANGED <<now, up, boot, dbVars, connVars>>
  BY DEF BeginRedeem, Redeemable
<1> HIDE DEF r
<1> QED  BY <1>1, <1>2, BeginSafe, AuthAssumption

LEMMA BeginBootstrapSafe ==
    ASSUME IInv, NEW q \in Reqs, NEW c \in Conns, NEW h \in Handles, BeginBootstrap(q, c, h)
    PROVE  IInv'
<1> DEFINE r == Request("bootstrap", c, h, None)
<1>1. r \in Requests /\ r.conn = c /\ r.op # "redeem" /\ r.op # "signin"
  BY DEF Request, Requests
<1>2. Suspend(q, r) /\ Open(c) /\ UNCHANGED <<now, up, boot, dbVars, connVars>>
  BY DEF BeginBootstrap
<1> HIDE DEF r
<1> QED  BY <1>1, <1>2, BeginSafe, AuthAssumption

LEMMA BeginSignInSafe ==
    ASSUME IInv, NEW q \in Reqs, NEW c \in Conns, NEW h \in Handles, BeginSignIn(q, c, h)
    PROVE  IInv'
<1> DEFINE r == Request("signin", c, h, None)
<1>1. r \in Requests /\ r.conn = c /\ r.op # "redeem" /\ r.handle = h
  BY DEF Request, Requests
<1>2. Suspend(q, r) /\ Open(c) /\ role[h] # "none" /\ UNCHANGED <<now, up, boot, dbVars, connVars>>
  BY DEF BeginSignIn
<1> HIDE DEF r
<1> QED  BY <1>1, <1>2, BeginSafe, AuthAssumption

-----------------------------------------------------------------------------
(***************************************************************************)
(* Finish.                                                                 *)
(***************************************************************************)
\* A request that ends without a trace.
LEMMA FinishQuietly ==
    ASSUME IInv, NEW q \in Reqs, Resume(q), UNCHANGED <<now, up, boot, dbVars, connVars>>
    PROVE  IInv'
<1>1. /\ now' = now /\ up' = up /\ boot' = boot /\ UNCHANGED dbVars
      /\ role' = role /\ via' = via /\ invite' = invite /\ session' = session
      /\ connUser' = connUser /\ connSess' = connSess
  BY DEF dbVars, connVars
<1>2. Types /\ RequestsSound
  BY DEF IInv
<1>3. req' \in [Reqs -> Requests \cup {Idle}] /\ RequestsSound'
  <2>1. \A p \in Reqs : req[p] # Idle /\ req[p].conn # None => connUser'[req[p].conn] # "closed"
    BY <1>1, <1>2 DEF RequestsSound, Open
  <2>2. \A i \in Invites : invite[i] # None => invite'[i] # None
    BY <1>1
  <2>3. \A h \in Handles : role[h] # "none" => role'[h] # "none"
    BY <1>1
  <2> QED  BY <1>2, <2>1, <2>2, <2>3, ResumeEffect
<1>4. Types'
  BY <1>1, <1>2, <1>3 DEF Types
<1>5. NeverLockedOut' /\ IdentityMatchesSession'
  BY <1>1, TablesUnchanged DEF IInv, NeverLockedOut, IdentityMatchesSession
<1> QED  BY <1>1, <1>3, <1>4, <1>5, TablesUnchanged DEF IInv

\* The new session belongs to the account that signed in.
LEMMA SessionsAccounted ==
    ASSUME IInv, NEW h \in Handles, Accounts' = Accounts \cup {h},
           \E s \in SessionIds :
              /\ session'[s] # None /\ session'[s].user = h
              /\ \A t \in SessionIds \ {s} : session'[t] = session[t]
              /\ session[s] = None
    PROVE  /\ \A g \in Accounts' : \E s \in SessionIds : session'[s] # None /\ session'[s].user = g
           /\ \A s \in SessionIds : session'[s] # None => session'[s].user \in Accounts'
<1>1. PICK s \in SessionIds :
         /\ session'[s] # None /\ session'[s].user = h
         /\ \A t \in SessionIds \ {s} : session'[t] = session[t]
         /\ session[s] = None
  OBVIOUS
<1>2. ASSUME NEW g \in Accounts'
      PROVE  \E t \in SessionIds : session'[t] # None /\ session'[t].user = g
  <2>1. CASE g = h
    BY <1>1, <2>1
  <2>2. CASE g # h
    <3>1. PICK t \in SessionIds : session[t] # None /\ session[t].user = g
      BY <1>2, <2>2 DEF IInv, InviteAccounting
    <3>2. t # s
      BY <1>1, <3>1
    <3> QED  BY <1>1, <3>1, <3>2
  <2> QED  BY <2>1, <2>2
<1>3. ASSUME NEW t \in SessionIds, session'[t] # None
      PROVE  session'[t].user \in Accounts'
  <2>1. CASE t = s
    BY <1>1, <2>1
  <2>2. CASE t # s
    <3>1. session'[t] = session[t]
      BY <1>1, <2>2
    <3> QED  BY <1>3, <3>1 DEF IInv, InviteAccounting
  <2> QED  BY <2>1, <2>2
<1> QED  BY <1>2, <1>3

\* A request whose account exists signs in and changes nothing else.
LEMMA FinishSignInSafe ==
    ASSUME IInv, NEW q \in Reqs, FinishSignIn(q)
    PROVE  IInv'
<1>1. /\ now' = now /\ up' = up /\ boot' = boot
      /\ role' = role /\ via' = via /\ invite' = invite
      /\ req[q].op = "signin" /\ Resume(q)
  BY DEF FinishSignIn
<1>2. CASE UNCHANGED <<session, connVars>>
  <2>1. UNCHANGED <<now, up, boot, dbVars, connVars>>
    BY <1>1, <1>2 DEF dbVars
  <2> QED  BY <1>1, <2>1, FinishQuietly
<1>3. CASE \E s \in SessionIds : SignIn(q, s)
  <2> DEFINE h == req[q].handle
  <2>1. h \in Handles /\ req[q] # Idle /\ Types /\ RequestsSound
    BY <1>1, RequestFields DEF IInv
  <2>2. /\ session' \in [SessionIds -> SessionRow \cup {None}]
        /\ connUser' \in [Conns -> Handles \cup {None, "closed"}]
        /\ connSess' \in [Conns -> SessionIds \cup {None}]
        /\ IdentityMatchesSession'
        /\ \A c \in Conns : connUser[c] # "closed" => connUser'[c] # "closed"
        /\ \E s \in SessionIds :
              /\ session'[s] # None /\ session'[s].user = h
              /\ \A t \in SessionIds \ {s} : session'[t] = session[t]
              /\ session[s] = None
    BY <1>1, <1>3, SignInEffect
  <2>3. Accounts' = Accounts /\ Admins' = Admins /\ h \in Accounts
    BY <1>1, <2>1 DEF Accounts, Admins, RequestsSound
  <2>4. Accounts' = Accounts \cup {h}
    BY <2>3
  <2>5. /\ \A g \in Accounts' : \E s \in SessionIds : session'[s] # None /\ session'[s].user = g
        /\ \A s \in SessionIds : session'[s] # None => session'[s].user \in Accounts'
    <3> HIDE DEF h
    <3> QED  BY <2>1, <2>2, <2>4, SessionsAccounted
  <2>6. InviteAccounting'
    BY <1>1, <2>5 DEF IInv, InviteAccounting
  <2>7. req' \in [Reqs -> Requests \cup {Idle}] /\ RequestsSound'
    <3>1. \A p \in Reqs : req[p] # Idle /\ req[p].conn # None => connUser'[req[p].conn] # "closed"
      BY <2>1, <2>2 DEF RequestsSound, Open, Types, Requests
    <3>2. \A i \in Invites : invite[i] # None => invite'[i] # None
      BY <1>1
    <3>3. \A g \in Handles : role[g] # "none" => role'[g] # "none"
      BY <1>1
    <3> QED  BY <1>1, <2>1, <3>1, <3>2, <3>3, ResumeEffect
  <2>8. Types'
    BY <1>1, <2>1, <2>2, <2>7 DEF Types
  <2>9. OriginsKnown' /\ InvitesNeedAdmin' /\ NeverLockedOut'
    BY <1>1, <2>3 DEF IInv, OriginsKnown, InvitesNeedAdmin, NeverLockedOut
  <2> QED  BY <2>2, <2>6, <2>7, <2>8, <2>9 DEF IInv
<1> QED  BY <1>2, <1>3 DEF FinishSignIn

\* redeemInvite's transaction.
LEMMA FinishRedeemSafe ==
    ASSUME IInv, NEW q \in Reqs, FinishRedeem(q)
    PROVE  IInv'
<1> DEFINE h == req[q].handle
           i == req[q].invite
<1>1. now' = now /\ up' = up /\ boot' = boot /\ req[q].op = "redeem" /\ Resume(q)
  BY DEF FinishRedeem
<1>2. h \in Handles /\ req[q] # Idle /\ Types /\ RequestsSound
  BY <1>1, RequestFields DEF IInv
<1>3. CASE role[h] # "none"
  <2>1. UNCHANGED <<now, up, boot, dbVars, connVars>>
    BY <1>1, <1>3 DEF FinishRedeem
  <2> QED  BY <1>1, <2>1, FinishQuietly
<1>4. CASE role[h] = "none"
  <2>1. /\ \E s \in SessionIds : SignIn(q, s)
        /\ role' = [role EXCEPT ![h] = "user"]
        /\ via' = [via EXCEPT ![h] = i]
        /\ invite' = [invite EXCEPT ![i].uses = @ + 1]
    BY <1>4 DEF FinishRedeem
  <2>2. i \in Invites /\ invite[i] # None /\ invite[i] \in InviteRow /\ i # None
    BY <1>1, <1>2, AuthAssumption DEF RequestsSound, Types
  <2>3. /\ session' \in [SessionIds -> SessionRow \cup {None}]
        /\ connUser' \in [Conns -> Handles \cup {None, "closed"}]
        /\ connSess' \in [Conns -> SessionIds \cup {None}]
        /\ IdentityMatchesSession'
        /\ \A c \in Conns : connUser[c] # "closed" => connUser'[c] # "closed"
        /\ \E s \in SessionIds :
              /\ session'[s] # None /\ session'[s].user = h
              /\ \A t \in SessionIds \ {s} : session'[t] = session[t]
              /\ session[s] = None
    BY <1>1, <2>1, SignInEffect
  <2> HIDE DEF h, i
  <2>4. /\ role' \in [Handles -> {"none", "user", "admin"}] /\ role'[h] = "user"
        /\ \A g \in Handles \ {h} : role'[g] = role[g]
    <3>1. "user" \in {"none", "user", "admin"}
      OBVIOUS
    <3> QED  BY <1>2, <2>1, <3>1 DEF Types
  <2>5. /\ via' \in [Handles -> Invites \cup {None}] /\ via'[h] = i
        /\ \A g \in Handles \ {h} : via'[g] = via[g]
    BY <1>2, <2>1, <2>2 DEF Types
  <2>6. /\ invite' \in [Invites -> InviteRow \cup {None}]
        /\ invite'[i] \in InviteRow /\ invite'[i].uses = invite[i].uses + 1
        /\ \A j \in Invites \ {i} : invite'[j] = invite[j]
    <3> DEFINE row == [invite[i] EXCEPT !.uses = @ + 1]
    <3>1. row \in InviteRow /\ row.uses = invite[i].uses + 1
      BY <2>2 DEF InviteRow
    <3>2. invite' = [invite EXCEPT ![i] = row]
      BY <2>1
    <3> HIDE DEF row
    <3> QED  BY <1>2, <2>2, <3>1, <3>2 DEF Types
  <2>7. invite'[i] # None
    BY <2>6, AuthAssumption
  <2>8. Accounts' = Accounts \cup {h} /\ Admins' = Admins
    BY <1>2, <1>4, <2>4 DEF Accounts, Admins
  <2>9. via[h] = None
    BY <1>2, <1>4 DEF IInv, OriginsKnown
  <2>10. \A j \in Invites : invite'[j] # None =>
             invite'[j].uses = Cardinality({g \in Handles : via'[g] = j})
    <3> SUFFICES ASSUME NEW j \in Invites, invite'[j] # None
                 PROVE  invite'[j].uses = Cardinality({g \in Handles : via'[g] = j})
      OBVIOUS
    <3> DEFINE before == {g \in Handles : via[g] = j}
               after  == {g \in Handles : via'[g] = j}
    <3>1. j # None
      BY AuthAssumption
    <3>2. CASE j = i
      <4>1. after = before \cup {h} /\ h \notin before
        BY <1>2, <2>5, <2>9, <3>1, <3>2
      <4>2. before \subseteq Handles
        OBVIOUS
      <4>3. invite[i].uses = Cardinality(before)
        BY <2>2, <3>2 DEF IInv, InviteAccounting
      <4> HIDE DEF before, after
      <4>4. IsFiniteSet(before)
        BY <4>2, FS_Subset, AuthAssumption
      <4>5. Cardinality(after) = Cardinality(before) + 1
        BY <4>1, <4>4, FS_AddElement
      <4>6. invite'[j].uses = Cardinality(after)
        BY <2>6, <3>2, <4>3, <4>5
      <4> QED  BY <4>6 DEF after
    <3>3. CASE j # i
      <4>1. after = before
        BY <1>2, <2>5, <2>9, <3>1, <3>3
      <4>2. invite'[j] = invite[j]
        BY <2>6, <3>3
      <4> QED  BY <4>1, <4>2 DEF IInv, InviteAccounting
    <3> QED  BY <3>2, <3>3
  <2>11. InviteAccounting'
    <3>1. /\ \A g \in Accounts' : \E s \in SessionIds : session'[s] # None /\ session'[s].user = g
          /\ \A s \in SessionIds : session'[s] # None => session'[s].user \in Accounts'
      BY <1>2, <2>3, <2>8, SessionsAccounted
    <3> QED  BY <2>10, <3>1 DEF InviteAccounting
  <2>12. req' \in [Reqs -> Requests \cup {Idle}] /\ RequestsSound'
    <3>1. \A p \in Reqs : req[p] # Idle /\ req[p].conn # None => connUser'[req[p].conn] # "closed"
      BY <1>2, <2>3 DEF RequestsSound, Open, Types, Requests
    <3>2. \A j \in Invites : invite[j] # None => invite'[j] # None
      BY <2>6, <2>7
    <3>3. \A g \in Handles : role[g] # "none" => role'[g] # "none"
      BY <2>4
    <3> QED  BY <1>1, <1>2, <3>1, <3>2, <3>3, ResumeEffect
  <2>13. Types'
    BY <1>1, <1>2, <2>3, <2>4, <2>5, <2>6, <2>12 DEF Types
  <2>14. OriginsKnown'
    <3> SUFFICES ASSUME NEW g \in Handles
                 PROVE  /\ role'[g] = "none" => via'[g] = None
                        /\ via'[g] # None => invite'[via'[g]] # None
      BY DEF OriginsKnown
    <3>1. CASE g = h
      BY <2>4, <2>5, <2>7, <3>1
    <3>2. CASE g # h
      <4>1. role'[g] = role[g] /\ via'[g] = via[g]
        BY <2>4, <2>5, <3>2
      <4>2. \A j \in Invites : invite[j] # None => invite'[j] # None
        BY <2>6, <2>7
      <4>3. via[g] \in Invites \cup {None}
        BY <1>2 DEF Types
      <4> QED  BY <4>1, <4>2, <4>3 DEF IInv, OriginsKnown
    <3> QED  BY <3>1, <3>2
  <2>15. InvitesNeedAdmin' /\ NeverLockedOut'
    <3>1. Admins # {}
      BY <2>2 DEF IInv, InvitesNeedAdmin
    <3> QED  BY <2>8, <3>1 DEF InvitesNeedAdmin, NeverLockedOut
  <2> QED  BY <2>3, <2>11, <2>12, <2>13, <2>14, <2>15 DEF IInv
<1> QED  BY <1>3, <1>4

\* tryBootstrap's transaction.
LEMMA FinishBootstrapSafe ==
    ASSUME IInv, NEW q \in Reqs, FinishBootstrap(q)
    PROVE  IInv'
<1> DEFINE h == req[q].handle
<1>1. now' = now /\ up' = up /\ req[q].op = "bootstrap" /\ Resume(q)
  BY DEF FinishBootstrap
<1>2. h \in Handles /\ req[q] # Idle /\ Types /\ RequestsSound
  BY <1>1, RequestFields DEF IInv
<1>3. CASE role[h] # "none"
  <2>1. UNCHANGED <<now, up, boot, dbVars, connVars>>
    BY <1>1, <1>3 DEF FinishBootstrap
  <2> QED  BY <1>1, <2>1, FinishQuietly
<1>4. CASE role[h] = "none"
  <2>1. /\ \E s \in SessionIds : SignIn(q, s)
        /\ role' = [role EXCEPT ![h] = "admin"]
        /\ boot' = FALSE /\ via' = via /\ invite' = invite
    BY <1>4 DEF FinishBootstrap
  <2>2. /\ session' \in [SessionIds -> SessionRow \cup {None}]
        /\ connUser' \in [Conns -> Handles \cup {None, "closed"}]
        /\ connSess' \in [Conns -> SessionIds \cup {None}]
        /\ IdentityMatchesSession'
        /\ \A c \in Conns : connUser[c] # "closed" => connUser'[c] # "closed"
        /\ \E s \in SessionIds :
              /\ session'[s] # None /\ session'[s].user = h
              /\ \A t \in SessionIds \ {s} : session'[t] = session[t]
              /\ session[s] = None
    BY <1>1, <2>1, SignInEffect
  <2> HIDE DEF h
  <2>3. /\ role' \in [Handles -> {"none", "user", "admin"}] /\ role'[h] = "admin"
        /\ \A g \in Handles \ {h} : role'[g] = role[g]
    <3>1. "admin" \in {"none", "user", "admin"}
      OBVIOUS
    <3> QED  BY <1>2, <2>1, <3>1 DEF Types
  <2>4. Accounts' = Accounts \cup {h} /\ Admins' = Admins \cup {h}
    BY <1>2, <1>4, <2>3 DEF Accounts, Admins
  <2>5. InviteAccounting'
    <3>1. /\ \A g \in Accounts' : \E s \in SessionIds : session'[s] # None /\ session'[s].user = g
          /\ \A s \in SessionIds : session'[s] # None => session'[s].user \in Accounts'
      BY <1>2, <2>2, <2>4, SessionsAccounted
    <3> QED  BY <2>1, <3>1 DEF IInv, InviteAccounting
  <2>6. req' \in [Reqs -> Requests \cup {Idle}] /\ RequestsSound'
    <3>1. \A p \in Reqs : req[p] # Idle /\ req[p].conn # None => connUser'[req[p].conn] # "closed"
      BY <1>2, <2>2 DEF RequestsSound, Open, Types, Requests
    <3>2. \A j \in Invites : invite[j] # None => invite'[j] # None
      BY <2>1
    <3>3. \A g \in Handles : role[g] # "none" => role'[g] # "none"
      BY <2>3
    <3> QED  BY <1>1, <1>2, <3>1, <3>2, <3>3, ResumeEffect
  <2>7. Types'
    BY <1>1, <1>2, <2>1, <2>2, <2>3, <2>6 DEF Types
  <2>8. OriginsKnown'
    BY <2>1, <2>3 DEF IInv, OriginsKnown
  <2>9. InvitesNeedAdmin' /\ NeverLockedOut'
    BY <2>4 DEF InvitesNeedAdmin, NeverLockedOut
  <2> QED  BY <2>2, <2>5, <2>6, <2>7, <2>8, <2>9 DEF IInv
<1> QED  BY <1>3, <1>4

-----------------------------------------------------------------------------
(***************************************************************************)
(* Connections, hello, invites, the clock and the process.                 *)
(***************************************************************************)
LEMMA ConnectSafe ==
    ASSUME IInv, NEW c \in Conns, Connect(c)
    PROVE  IInv'
<1>1. /\ now' = now /\ up' = up /\ boot' = boot /\ UNCHANGED dbVars
      /\ role' = role /\ via' = via /\ invite' = invite /\ session' = session
      /\ connSess' = connSess /\ req' = req
      /\ connUser' = [connUser EXCEPT ![c] = None] /\ connUser[c] = "closed"
  BY DEF Connect, dbVars, Open
<1>2. Types /\ RequestsSound
  BY DEF IInv
<1>3. /\ connUser' \in [Conns -> Handles \cup {None, "closed"}]
      /\ \A d \in Conns : connUser'[d] = IF d = c THEN None ELSE connUser[d]
  BY <1>1, <1>2 DEF Types
<1>4. Types'
  BY <1>1, <1>2, <1>3 DEF Types
<1>5. RequestsSound'
  BY <1>1, <1>2, <1>3, AuthAssumption DEF RequestsSound, Open, Types, Requests
<1>6. IdentityMatchesSession'
  BY <1>1, <1>3, AuthAssumption DEF IInv, IdentityMatchesSession
<1>7. NeverLockedOut'
  BY <1>1, TablesUnchanged DEF IInv, NeverLockedOut
<1> QED  BY <1>1, <1>4, <1>5, <1>6, <1>7, TablesUnchanged DEF IInv

LEMMA CloseSafe ==
    ASSUME IInv, NEW c \in Conns, Close(c)
    PROVE  IInv'
<1>1. /\ now' = now /\ up' = up /\ boot' = boot /\ UNCHANGED dbVars
      /\ role' = role /\ via' = via /\ invite' = invite /\ session' = session
      /\ connUser' = [connUser EXCEPT ![c] = "closed"]
      /\ connSess' = [connSess EXCEPT ![c] = None]
      /\ req' = [q \in Reqs |-> IF req[q].op # "idle" /\ req[q].conn = c
                                THEN [req[q] EXCEPT !.conn = None] ELSE req[q]]
  BY DEF Close, dbVars
<1>2. Types /\ RequestsSound
  BY DEF IInv
<1>3. /\ connUser' \in [Conns -> Handles \cup {None, "closed"}]
      /\ connSess' \in [Conns -> SessionIds \cup {None}]
      /\ \A d \in Conns : connUser'[d] = IF d = c THEN "closed" ELSE connUser[d]
      /\ \A d \in Conns : connSess'[d] = IF d = c THEN None ELSE connSess[d]
  BY <1>1, <1>2 DEF Types
<1>4. ASSUME NEW q \in Reqs
      PROVE  /\ req'[q] \in Requests \cup {Idle}
             /\ req'[q] # Idle =>
                   /\ req[q] # Idle /\ req'[q].op = req[q].op
                   /\ req'[q].handle = req[q].handle /\ req'[q].invite = req[q].invite
                   /\ req'[q].conn # None => req'[q].conn = req[q].conn /\ req[q].conn # c
  <2>1. CASE req[q] = Idle
    <3>1. req'[q] = Idle
      BY <1>1, <2>1 DEF Idle
    <3> QED  BY <3>1
  <2>2. CASE req[q] \in Requests
    <3>1. req[q].op # "idle" /\ req[q] # Idle
      BY <2>2 DEF Requests, Idle
    <3>2. CASE req[q].conn = c
      <4>1. req'[q] = [req[q] EXCEPT !.conn = None]
        BY <1>1, <3>1, <3>2
      <4> QED  BY <2>2, <3>1, <4>1 DEF Requests
    <3>3. CASE req[q].conn # c
      <4>1. req'[q] = req[q]
        BY <1>1, <3>3
      <4> QED  BY <2>2, <3>1, <3>3, <4>1
    <3> QED  BY <3>2, <3>3
  <2> QED  BY <1>2, <2>1, <2>2 DEF Types
<1>5. Types'
  <2>1. req' \in [Reqs -> Requests \cup {Idle}]
    BY <1>1, <1>4
  <2> QED  BY <1>1, <1>2, <1>3, <2>1 DEF Types
<1>6. RequestsSound'
  <2> SUFFICES ASSUME NEW q \in Reqs, req'[q] # Idle
               PROVE  /\ req'[q].conn # None => connUser'[req'[q].conn] # "closed"
                      /\ req'[q].op = "redeem" =>
                            req'[q].invite \in Invites /\ invite'[req'[q].invite] # None
                      /\ req'[q].op = "signin" => role'[req'[q].handle] # "none"
    BY DEF RequestsSound, Open
  <2>1. req[q] # Idle /\ req[q].conn \in Conns \cup {None}
    BY <1>2, <1>4 DEF Types, Requests
  <2> QED  BY <1>1, <1>2, <1>3, <1>4, <2>1 DEF RequestsSound, Open
<1>7. IdentityMatchesSession'
  BY <1>1, <1>3 DEF IInv, IdentityMatchesSession
<1>8. NeverLockedOut'
  BY <1>1, TablesUnchanged DEF IInv, NeverLockedOut
<1> QED  BY <1>1, <1>5, <1>6, <1>7, <1>8, TablesUnchanged DEF IInv

LEMMA HelloSafe ==
    ASSUME IInv, NEW c \in Conns, NEW s \in SessionIds, Hello(c, s)
    PROVE  IInv'
<1>1. /\ now' = now /\ up' = up /\ boot' = boot /\ UNCHANGED dbVars /\ req' = req
      /\ role' = role /\ via' = via /\ invite' = invite /\ session' = session
      /\ connUser[c] # "closed" /\ session[s] # None
  BY DEF Hello, dbVars, Open
<1>2. Types /\ RequestsSound
  BY DEF IInv
<1>3. session[s].user \in Handles
  BY <1>1, <1>2 DEF Types, SessionRow
<1>4. \/ connUser' = connUser /\ connSess' = connSess
      \/ /\ connUser' = [connUser EXCEPT ![c] = session[s].user]
         /\ connSess' = [connSess EXCEPT ![c] = s]
  BY DEF Hello, connVars
<1>5. /\ connUser' \in [Conns -> Handles \cup {None, "closed"}]
      /\ connSess' \in [Conns -> SessionIds \cup {None}]
      /\ \A d \in Conns :
            \/ connUser'[d] = connUser[d] /\ connSess'[d] = connSess[d]
            \/ connUser'[d] = session[s].user /\ connSess'[d] = s
  BY <1>2, <1>3, <1>4 DEF Types
<1>6. Types'
  BY <1>1, <1>2, <1>5 DEF Types
<1>7. RequestsSound'
  <2>1. \A d \in Conns : connUser[d] # "closed" => connUser'[d] # "closed"
    BY <1>3, <1>5, AuthAssumption
  <2> QED  BY <1>1, <1>2, <2>1 DEF RequestsSound, Open, Types, Requests
<1>8. IdentityMatchesSession'
  BY <1>1, <1>3, <1>5, AuthAssumption DEF IInv, IdentityMatchesSession
<1>9. NeverLockedOut'
  BY <1>1, TablesUnchanged DEF IInv, NeverLockedOut
<1> QED  BY <1>1, <1>6, <1>7, <1>8, <1>9, TablesUnchanged DEF IInv

LEMMA CreateInviteSafe ==
    ASSUME IInv, NEW c \in Conns, NEW i \in Invites, NEW ttl \in Ttls, NEW limit \in UseLimits,
           CreateInvite(c, i, ttl, limit)
    PROVE  IInv'
<1> DEFINE row == [expires |-> now + ttl, max |-> limit, uses |-> 0]
<1>1. /\ now' = now /\ up' = up /\ boot' = boot /\ req' = req
      /\ role' = role /\ via' = via /\ session' = session
      /\ connUser' = connUser /\ connSess' = connSess
      /\ invite' = [invite EXCEPT ![i] = row]
      /\ invite[i] = None /\ connUser[c] \in Admins
  BY DEF CreateInvite, connVars
<1>2. Types /\ RequestsSound /\ OriginsKnown
  BY DEF IInv
<1>3. row \in InviteRow /\ row # None /\ row.uses = 0
  <2>1. row \in InviteRow
    BY <1>2, AuthAssumption DEF Types, InviteRow
  <2> QED  BY <2>1, AuthAssumption
<1> HIDE DEF row
<1>4. /\ invite' \in [Invites -> InviteRow \cup {None}]
      /\ \A j \in Invites : invite'[j] = IF j = i THEN row ELSE invite[j]
  BY <1>1, <1>2, <1>3 DEF Types
<1>5. Types'
  BY <1>1, <1>2, <1>4 DEF Types
<1>6. RequestsSound'
  BY <1>1, <1>2, <1>3, <1>4 DEF RequestsSound, Open
<1>7. Accounts' = Accounts /\ Admins' = Admins /\ Admins # {}
  BY <1>1 DEF Accounts, Admins
<1>8. OriginsKnown' /\ InvitesNeedAdmin' /\ NeverLockedOut'
  <2>1. OriginsKnown'
    BY <1>1, <1>2, <1>3, <1>4 DEF OriginsKnown, Types
  <2> QED  BY <1>7, <2>1 DEF InvitesNeedAdmin, NeverLockedOut
<1>9. InviteAccounting'
  <2>1. \A j \in Invites : invite'[j] # None =>
            invite'[j].uses = Cardinality({h \in Handles : via'[h] = j})
    <3> SUFFICES ASSUME NEW j \in Invites, invite'[j] # None
                 PROVE  invite'[j].uses = Cardinality({h \in Handles : via[h] = j})
      BY <1>1
    <3>1. CASE j = i
      \* Nobody came from an invite that was not there.
      <4>1. {h \in Handles : via[h] = j} = {}
        BY <1>1, <1>2, <3>1, AuthAssumption DEF OriginsKnown
      <4> QED  BY <1>3, <1>4, <3>1, <4>1, FS_EmptySet
    <3>2. CASE j # i
      BY <1>4, <3>2 DEF IInv, InviteAccounting
    <3> QED  BY <3>1, <3>2
  <2> QED  BY <1>1, <1>7, <2>1 DEF IInv, InviteAccounting
<1>10. IdentityMatchesSession'
  BY <1>1 DEF IInv, IdentityMatchesSession
<1> QED  BY <1>5, <1>6, <1>8, <1>9, <1>10 DEF IInv

LEMMA TickSafe ==
    ASSUME IInv, Tick
    PROVE  IInv'
<1>1. /\ now' = now + 1 /\ now < MaxTime /\ up' = up /\ boot' = boot /\ req' = req
      /\ role' = role /\ via' = via /\ invite' = invite /\ session' = session
      /\ connUser' = connUser /\ connSess' = connSess /\ UNCHANGED dbVars
  BY DEF Tick, dbVars, connVars
<1>2. now' \in 0..MaxTime
  BY <1>1, AuthAssumption DEF IInv, Types
<1>3. Types' /\ RequestsSound'
  BY <1>1, <1>2 DEF IInv, Types, RequestsSound, Open
<1>4. NeverLockedOut' /\ IdentityMatchesSession'
  BY <1>1, TablesUnchanged DEF IInv, NeverLockedOut, IdentityMatchesSession
<1> QED  BY <1>1, <1>3, <1>4, TablesUnchanged DEF IInv

LEMMA CrashSafe ==
    ASSUME IInv, Crash
    PROVE  IInv'
<1>1. /\ now' = now /\ up' = FALSE /\ boot' = FALSE /\ UNCHANGED dbVars
      /\ role' = role /\ via' = via /\ invite' = invite /\ session' = session
      /\ connUser' = [c \in Conns |-> "closed"] /\ connSess' = [c \in Conns |-> None]
      /\ req' = [q \in Reqs |-> Idle]
  BY DEF Crash, dbVars
<1>2. Types'
  BY <1>1 DEF IInv, Types
<1>3. RequestsSound' /\ IdentityMatchesSession'
  BY <1>1 DEF RequestsSound, IdentityMatchesSession
<1>4. NeverLockedOut'
  BY <1>1, TablesUnchanged DEF IInv, NeverLockedOut
<1> QED  BY <1>1, <1>2, <1>3, <1>4, TablesUnchanged DEF IInv

LEMMA RestartSafe ==
    ASSUME IInv, Restart
    PROVE  IInv'
<1>1. /\ now' = now /\ up' = TRUE /\ boot' = (Accounts = {}) /\ UNCHANGED dbVars
      /\ role' = role /\ via' = via /\ invite' = invite /\ session' = session
      /\ connUser' = connUser /\ connSess' = connSess /\ req' = req
  BY DEF Restart, dbVars, connVars
<1>2. Types' /\ RequestsSound' /\ IdentityMatchesSession'
  BY <1>1 DEF IInv, Types, RequestsSound, Open, IdentityMatchesSession
<1>3. NeverLockedOut'
  BY <1>1, TablesUnchanged DEF IInv, NeverLockedOut
<1> QED  BY <1>1, <1>2, <1>3, TablesUnchanged DEF IInv

LEMMA StepSafe == IInv /\ [Next]_vars => IInv'
<1> SUFFICES ASSUME IInv, [Next]_vars PROVE IInv'
  OBVIOUS
<1> USE ConnectSafe, CloseSafe, HelloSafe, CreateInviteSafe, BeginBootstrapSafe, BeginSignInSafe,
        BeginRedeemSafe, FinishRedeemSafe, FinishBootstrapSafe, FinishSignInSafe,
        TickSafe, CrashSafe, RestartSafe
<1>1. CASE Next
  BY <1>1 DEF Next
<1>2. CASE UNCHANGED vars
  <2>1. /\ now' = now /\ up' = up /\ boot' = boot /\ req' = req /\ UNCHANGED dbVars
        /\ role' = role /\ via' = via /\ invite' = invite /\ session' = session
        /\ connUser' = connUser /\ connSess' = connSess
    BY <1>2 DEF vars, dbVars, connVars
  <2>2. Types' /\ RequestsSound' /\ IdentityMatchesSession'
    BY <2>1 DEF IInv, Types, RequestsSound, Open, IdentityMatchesSession
  <2>3. NeverLockedOut'
    BY <2>1, TablesUnchanged DEF IInv, NeverLockedOut
  <2> QED  BY <2>1, <2>2, <2>3, TablesUnchanged DEF IInv
<1> QED  BY <1>1, <1>2

LEMMA Inductive == Spec => []IInv
<1> QED  BY InitSafe, StepSafe, PTL DEF Spec

-----------------------------------------------------------------------------
\* TypeOK: what the tables, the connections and the requests hold.
THEOREM AuthTypeCorrect == Spec => []TypeOK
<1>1. IInv => TypeOK
  BY DEF IInv, Types, TypeOK
<1> QED  BY Inductive, <1>1, PTL

\* InviteAccounting: whatever comes between redeemInvite's checks and its
\* transaction, an invite's uses are the accounts it made, and accounts and
\* sessions belong together.
THEOREM InvitesAddUp == Spec => []InviteAccounting
<1>1. IInv => InviteAccounting
  BY DEF IInv
<1> QED  BY Inductive, <1>1, PTL

\* NeverLockedOut: through crashes and restarts, an installation without an
\* admin has a bootstrap token and no account.
THEOREM NobodyLockedOut == Spec => []NeverLockedOut
<1>1. IInv => NeverLockedOut
  BY DEF IInv
<1> QED  BY Inductive, <1>1, PTL

\* IdentityMatchesSession: setConnectionUser never leaves a connection with one
\* user and the session of another.
THEOREM ConnectionsActAsSessionOwner == Spec => []IdentityMatchesSession
<1>1. IInv => IdentityMatchesSession
  BY DEF IInv
<1> QED  BY Inductive, <1>1, PTL

\* There is an account, and no bootstrap request is in its await.
Quiet == Accounts # {} /\ Pending("bootstrap") = {}

\* From there no step makes an admin or starts a bootstrap request.
LEMMA StepSettled ==
    ASSUME IInv, Next, Quiet
    PROVE  /\ Admins' = Admins
           /\ \A q \in Reqs : req'[q].op # "bootstrap"
<1>1. \A q \in Reqs : req[q].op # "bootstrap"
  BY DEF Quiet, Pending
<1>2. Idle.op # "bootstrap"
  BY DEF Idle
<1>3. Types
  BY DEF IInv
<1>4. ASSUME req' = req, role' = role
      PROVE  Admins' = Admins /\ \A q \in Reqs : req'[q].op # "bootstrap"
  BY <1>1, <1>4 DEF Admins
<1>5. ASSUME NEW q \in Reqs, Resume(q), role' = role
      PROVE  Admins' = Admins /\ \A p \in Reqs : req'[p].op # "bootstrap"
  <2>1. \A p \in Reqs : req'[p] = IF p = q THEN Idle ELSE req[p]
    BY <1>3, <1>5 DEF Resume, Types
  <2> QED  BY <1>1, <1>2, <1>5, <2>1 DEF Admins
<1>6. ASSUME NEW q \in Reqs, NEW r, Suspend(q, r), r.op # "bootstrap", role' = role
      PROVE  Admins' = Admins /\ \A p \in Reqs : req'[p].op # "bootstrap"
  <2>1. \A p \in Reqs : req'[p] = IF p = q THEN r ELSE req[p]
    BY <1>3, <1>6 DEF Suspend, Types
  <2> QED  BY <1>1, <1>6, <2>1 DEF Admins
<1>7. ASSUME NEW c \in Conns, Connect(c) \/ \E s \in SessionIds : Hello(c, s)
      PROVE  Admins' = Admins /\ \A q \in Reqs : req'[q].op # "bootstrap"
  BY <1>4, <1>7 DEF Connect, Hello, dbVars
<1>8. ASSUME NEW c \in Conns, Close(c)
      PROVE  Admins' = Admins /\ \A q \in Reqs : req'[q].op # "bootstrap"
  <2>1. role' = role
    BY <1>8 DEF Close, dbVars
  <2>2. ASSUME NEW q \in Reqs PROVE req'[q].op # "bootstrap"
    <3>1. CASE req'[q] = req[q]
      BY <1>1, <3>1
    <3>2. CASE req[q].op # "idle" /\ req'[q] = [req[q] EXCEPT !.conn = None]
      <4>1. req[q] \in Requests
        BY <1>3, <3>2 DEF Types, Idle
      <4>2. req'[q].op = req[q].op
        BY <3>2, <4>1 DEF Requests
      <4> QED  BY <1>1, <4>2
    <3> QED  BY <1>8, <3>1, <3>2 DEF Close
  <2> QED  BY <2>1, <2>2 DEF Admins
<1>9. ASSUME NEW c \in Conns, NEW i \in Invites, NEW ttl \in Ttls, NEW limit \in UseLimits,
             CreateInvite(c, i, ttl, limit)
      PROVE  Admins' = Admins /\ \A q \in Reqs : req'[q].op # "bootstrap"
  BY <1>4, <1>9 DEF CreateInvite
<1>10. ASSUME NEW q \in Reqs, NEW c \in Conns, NEW h \in Handles, BeginBootstrap(q, c, h)
       PROVE  FALSE
  BY <1>10 DEF BeginBootstrap, BootstrapOpen, Quiet
<1>11. ASSUME NEW q \in Reqs, NEW c \in Conns, NEW h \in Handles, BeginSignIn(q, c, h)
       PROVE  Admins' = Admins /\ \A p \in Reqs : req'[p].op # "bootstrap"
  <2> DEFINE r == Request("signin", c, h, None)
  <2>1. r.op # "bootstrap"
    BY DEF Request
  <2>2. Suspend(q, r) /\ role' = role
    BY <1>11 DEF BeginSignIn, dbVars
  <2> HIDE DEF r
  <2> QED  BY <1>6, <2>1, <2>2
<1>12. ASSUME NEW q \in Reqs, NEW c \in Conns, NEW h \in Handles, NEW i \in Invites,
              BeginRedeem(q, c, i, h)
       PROVE  Admins' = Admins /\ \A p \in Reqs : req'[p].op # "bootstrap"
  <2> DEFINE r == Request("redeem", c, h, i)
  <2>1. r.op # "bootstrap"
    BY DEF Request
  <2>2. Suspend(q, r) /\ role' = role
    BY <1>12 DEF BeginRedeem, dbVars
  <2> HIDE DEF r
  <2> QED  BY <1>6, <2>1, <2>2
<1>13. ASSUME NEW q \in Reqs, FinishRedeem(q)
       PROVE  Admins' = Admins /\ \A p \in Reqs : req'[p].op # "bootstrap"
  <2>1. CASE role[req[q].handle] # "none"
    BY <1>5, <1>13, <2>1 DEF FinishRedeem, dbVars
  <2>2. CASE role[req[q].handle] = "none"
    <3>1. role' = [role EXCEPT ![req[q].handle] = "user"] /\ Resume(q)
      BY <1>13, <2>2 DEF FinishRedeem
    <3>2. Admins' = Admins
      BY <1>3, <2>2, <3>1 DEF Admins, Types
    <3>3. \A p \in Reqs : req'[p] = IF p = q THEN Idle ELSE req[p]
      BY <1>3, <3>1 DEF Resume, Types
    <3> QED  BY <1>1, <1>2, <3>2, <3>3
  <2> QED  BY <2>1, <2>2
<1>14. ASSUME NEW q \in Reqs, FinishBootstrap(q)
       PROVE  FALSE
  BY <1>1, <1>14 DEF FinishBootstrap
<1>15. ASSUME NEW q \in Reqs, FinishSignIn(q)
       PROVE  Admins' = Admins /\ \A p \in Reqs : req'[p].op # "bootstrap"
  BY <1>5, <1>15 DEF FinishSignIn
<1>16. ASSUME Crash
       PROVE  Admins' = Admins /\ \A q \in Reqs : req'[q].op # "bootstrap"
  BY <1>2, <1>16 DEF Crash, dbVars, Admins
<1>17. ASSUME Tick \/ Restart
       PROVE  Admins' = Admins /\ \A q \in Reqs : req'[q].op # "bootstrap"
  BY <1>4, <1>17 DEF Tick, Restart, dbVars
<1> QED  BY <1>7, <1>8, <1>9, <1>10, <1>11, <1>12, <1>13, <1>14, <1>15, <1>16, <1>17 DEF Next

\* AdminsSettle: once there is an account and no bootstrap request is left in
\* its await, no step makes an admin or starts such a request.
THEOREM AdminsAreSettled == Spec => AdminsSettle
<1>1. IInv /\ [Next]_vars =>
        [ Accounts # {} /\ Pending("bootstrap") = {} =>
            /\ {h \in Handles : role'[h] = "admin"} = Admins
            /\ {q \in Reqs : req'[q].op = "bootstrap"} = {} ]_vars
  <2> SUFFICES ASSUME IInv, Next, Quiet
               PROVE  /\ {h \in Handles : role'[h] = "admin"} = Admins
                      /\ {q \in Reqs : req'[q].op = "bootstrap"} = {}
    BY DEF Quiet
  <2>1. Admins' = Admins /\ \A q \in Reqs : req'[q].op # "bootstrap"
    BY StepSettled
  <2>2. {h \in Handles : role'[h] = "admin"} = Admins
    BY <2>1 DEF Admins
  <2> QED  BY <2>1, <2>2
<1> QED  BY Inductive, <1>1, PTL DEF Spec, AdminsSettle
=============================================================================
