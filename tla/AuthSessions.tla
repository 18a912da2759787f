---------------------------- MODULE AuthSessions ----------------------------
(***************************************************************************)
(* AuthService and the handlers that call it: invites, the bootstrap token *)
(* of the first admin, accounts, sessions.                                 *)
(*                                                                         *)
(* Redeeming, bootstrapping and signing in hash a password, which takes an *)
(* await: each is a Begin action (the checks) and a Finish action (the     *)
(* transaction and setConnectionUser), between which other requests, the   *)
(* clock, a lost socket or a crash of the process may come.  SQLite's      *)
(* tables survive a crash; connections, requests and the bootstrap token,  *)
(* which live in memory, do not.                                           *)
(*                                                                         *)
(* users.handle is UNIQUE and an account never disappears, so an account   *)
(* is named by its handle.  A definition Op_Variant is a fault: what Op    *)
(* would be with a plausible bug.                                          *)
(***************************************************************************)
EXTENDS Naturals, FiniteSets

CONSTANTS
    Conns,        \* connection slots; a slot is a new id each time it opens
    Reqs,         \* slots for requests in flight
    Handles,      \* handles people ask for
    Invites,      \* invite ids
    Ttls,         \* ttl_ms an admin asks for
    UseLimits,    \* max_uses an admin asks for
    SessionTtl,   \* SESSION_TTL_MS
    MaxSessions,  \* bound on sessions ever created
    MaxTime,      \* bound on the clock
    None

SessionIds == 1..MaxSessions

InviteRow  == [expires : Nat, max : Nat, uses : Nat]
SessionRow == [user : Handles, expires : Nat]

ASSUME AuthAssumption ==
    /\ None \notin Conns \cup Handles \cup Invites \cup SessionIds
    /\ None \notin InviteRow \cup SessionRow
    /\ "closed" \notin Handles \cup {None}
    /\ Ttls \subseteq Nat /\ UseLimits \subseteq Nat
    /\ SessionTtl \in Nat \ {0} /\ MaxSessions \in Nat /\ MaxTime \in Nat
    /\ IsFiniteSet(Handles)

VARIABLES
    now,        \* nowFn()
    up,         \* the process is running
    boot,       \* authService.bootstrapToken is set
    role,       \* users: the role in roles_json, "none" for no account
    via,        \* the invite an account came from (invites.redeemed_by...)
    invite,     \* invites: expires_at, max_uses, uses; None before creation
    session,    \* sessions: user, expires_at; None before creation
    connUser,   \* connection.userId; "closed" is not an open connection
    connSess,   \* connection.sessionId
    req         \* requests suspended in an await

dbVars   == <<role, via, invite, session>>
connVars == <<connUser, connSess>>
vars     == <<now, up, boot, dbVars, connVars, req>>

Idle == [op |-> "idle"]
Request(op, c, h, i) == [op |-> op, conn |-> c, handle |-> h, invite |-> i]

Pending(op) == {q \in Reqs : req[q].op = op}
Accounts    == {h \in Handles : role[h] # "none"}
Admins      == {h \in Handles : role[h] = "admin"}
Open(c)     == connUser[c] # "closed"

TypeOK ==
    /\ now \in 0..MaxTime /\ up \in BOOLEAN /\ boot \in BOOLEAN
    /\ role \in [Handles -> {"none", "user", "admin"}]
    /\ via \in [Handles -> Invites \cup {None}]
    /\ \A i \in Invites : invite[i] # None => invite[i] \in InviteRow
    /\ \A s \in SessionIds : session[s] # None => session[s] \in SessionRow
    /\ connUser \in [Conns -> Handles \cup {None, "closed"}]
    /\ connSess \in [Conns -> SessionIds \cup {None}]

\* A first start on an empty database: ensureBootstrap armed the token.
Init ==
    /\ now = 0 /\ up = TRUE /\ boot = TRUE
    /\ role = [h \in Handles |-> "none"]
    /\ via = [h \in Handles |-> None]
    /\ invite = [i \in Invites |-> None]
    /\ session = [s \in SessionIds |-> None]
    /\ connUser = [c \in Conns |-> "closed"]
    /\ connSess = [c \in Conns |-> None]
    /\ req = [q \in Reqs |-> Idle]

Connect(c) ==
    /\ up /\ ~Open(c)
    /\ connUser' = [connUser EXCEPT ![c] = None]
    /\ UNCHANGED <<now, up, boot, dbVars, connSess, req>>

Close(c) ==
    /\ Open(c)
    /\ connUser' = [connUser EXCEPT ![c] = "closed"]
    /\ connSess' = [connSess EXCEPT ![c] = None]
    \* A suspended request keeps the id of the connection that is gone.
    /\ req' = [q \in Reqs |-> IF req[q].op # "idle" /\ req[q].conn = c
                              THEN [req[q] EXCEPT !.conn = None] ELSE req[q]]
    /\ UNCHANGED <<now, up, boot, dbVars>>

FreshSession(s) == session[s] = None /\ \A t \in SessionIds : t < s => session[t] # None

\* createSession and, for a connection that is still open, setConnectionUser.
SignIn_ForConnUser(q, s) ==
    LET c == req[q].conn
        h == req[q].handle
    IN  /\ FreshSession(s)
        /\ session' = [session EXCEPT ![s] =
                [user |-> IF c = None THEN h ELSE connUser[c], expires |-> now + SessionTtl]]
        /\ IF c = None
           THEN UNCHANGED connVars
           ELSE /\ connUser' = [connUser EXCEPT ![c] = h]
                /\ connSess' = [connSess EXCEPT ![c] = s]
SignIn(q, s) ==
    LET c == req[q].conn
        h == req[q].handle
    IN  /\ FreshSession(s)
        /\ session' = [session EXCEPT ![s] = [user |-> h, expires |-> now + SessionTtl]]
        /\ IF c = None
           THEN UNCHANGED connVars
           ELSE /\ connUser' = [connUser EXCEPT ![c] = h]
                /\ connSess' = [connSess EXCEPT ![c] = s]

Suspend(q, r) == req[q] = Idle /\ req' = [req EXCEPT ![q] = r]
Resume(q)     == req' = [req EXCEPT ![q] = Idle]

-----------------------------------------------------------------------------
\* handleAdminInviteCreate: requireAdmin reads the roles from the table.
CreateInvite(c, i, ttl, limit) ==
    /\ Open(c) /\ connUser[c] \in Admins
    /\ invite[i] = None
    /\ invite' = [invite EXCEPT ![i] = [expires |-> now + ttl, max |-> limit, uses |-> 0]]
    /\ UNCHANGED <<now, up, boot, role, via, session, connVars, req>>

\* redeemInvite up to hashPassword: the refusals leave no trace.
Redeemable(i) == invite[i] # None /\ invite[i].expires > now /\ invite[i].uses < invite[i].max

BeginRedeem(q, c, i, h) ==
    /\ Open(c)
    /\ Redeemable(i)
    /\ role[h] = "none"
    /\ Suspend(q, Request("redeem", c, h, i))
    /\ UNCHANGED <<now, up, boot, dbVars, connVars>>

\* redeemInvite's transaction: the account, the use and the session together,
\* or, when the handle was taken meanwhile, nothing.
FinishRedeem_UseLater(q) ==
    LET h == req[q].handle IN
    /\ req[q].op = "redeem"
    /\ \E s \in SessionIds : SignIn(q, s)
    /\ role' = [role EXCEPT ![h] = "user"]
    /\ via' = [via EXCEPT ![h] = req[q].invite]
    /\ Resume(q)
    /\ UNCHANGED <<now, up, boot, invite>>
FinishRedeem_InviterRoles(q) ==
    LET h == req[q].handle
        i == req[q].invite
    IN  /\ req[q].op = "redeem"
        /\ role[h] = "none"
        /\ \E s \in SessionIds : SignIn(q, s)
        /\ role' = [role EXCEPT ![h] = "admin"]
        /\ via' = [via EXCEPT ![h] = i]
        /\ invite' = [invite EXCEPT ![i].uses = @ + 1]
        /\ Resume(q)
        /\ UNCHANGED <<now, up, boot>>
FinishRedeem(q) ==
    LET h == req[q].handle
        i == req[q].invite
    IN  /\ req[q].op = "redeem"
        /\ IF role[h] = "none"
           THEN /\ \E s \in SessionIds : SignIn(q, s)
                /\ role' = [role EXCEPT ![h] = "user"]
                /\ via' = [via EXCEPT ![h] = i]
                /\ invite' = [invite EXCEPT ![i].uses = @ + 1]
           ELSE UNCHANGED <<dbVars, connVars>>
        /\ Resume(q)
        /\ UNCHANGED <<now, up, boot>>

\* tryBootstrap: the token works while there is no account.
BootstrapOpen == boot /\ Accounts = {}

BeginBootstrap(q, c, h) ==
    /\ Open(c)
    /\ BootstrapOpen
    /\ Suspend(q, Request("bootstrap", c, h, None))
    /\ UNCHANGED <<now, up, boot, dbVars, connVars>>

FinishBootstrap(q) ==
    LET h == req[q].handle
    IN  /\ req[q].op = "bootstrap"
        /\ IF role[h] = "none"
           THEN /\ \E s \in SessionIds : SignIn(q, s)
                /\ role' = [role EXCEPT ![h] = "admin"]
                /\ boot' = FALSE
                /\ UNCHANGED <<via, invite>>
           ELSE UNCHANGED <<boot, dbVars, connVars>>
        /\ Resume(q)
        /\ UNCHANGED <<now, up>>

\* signInWithPassword: a wrong password shows only after the await.
BeginSignIn(q, c, h) ==
    /\ Open(c)
    /\ role[h] # "none"
    /\ Suspend(q, Request("signin", c, h, None))
    /\ UNCHANGED <<now, up, boot, dbVars, connVars>>

FinishSignIn(q) ==
    /\ req[q].op = "signin"
    /\ \/ \E s \in SessionIds : SignIn(q, s)
       \/ UNCHANGED <<session, connVars>>
    /\ Resume(q)
    /\ UNCHANGED <<now, up, boot, role, via, invite>>

\* handleHello with a session token to resume; an expired one leaves the
\* connection as it was.
Hello_KeepSession(c, s) ==
    /\ Open(c)
    /\ session[s] # None
    /\ IF session[s].expires > now
       THEN /\ connUser' = [connUser EXCEPT ![c] = session[s].user]
            /\ connSess' = [connSess EXCEPT ![c] = IF @ = None THEN s ELSE @]
       ELSE UNCHANGED connVars
    /\ UNCHANGED <<now, up, boot, dbVars, req>>
Hello(c, s) ==
    /\ Open(c)
    /\ session[s] # None
    /\ IF session[s].expires > now
       THEN /\ connUser' = [connUser EXCEPT ![c] = session[s].user]
            /\ connSess' = [connSess EXCEPT ![c] = s]
       ELSE UNCHANGED connVars
    /\ UNCHANGED <<now, up, boot, dbVars, req>>

Tick ==
    /\ now < MaxTime
    /\ now' = now + 1
    /\ UNCHANGED <<up, boot, dbVars, connVars, req>>

\* The process dies with everything that is not in a table.
Crash ==
    /\ up
    /\ up' = FALSE /\ boot' = FALSE
    /\ connUser' = [c \in Conns |-> "closed"]
    /\ connSess' = [c \in Conns |-> None]
    /\ req' = [q \in Reqs |-> Idle]
    /\ UNCHANGED <<now, dbVars>>

\* ensureBootstrap: a new token is armed while there is no account.
Restart_NoToken ==
    /\ ~up
    /\ up' = TRUE
    /\ UNCHANGED <<now, boot, dbVars, connVars, req>>
Restart ==
    /\ ~up
    /\ up' = TRUE
    /\ boot' = (Accounts = {})
    /\ UNCHANGED <<now, dbVars, connVars, req>>

Next ==
    \/ \E c \in Conns : Connect(c) \/ Close(c) \/ \E s \in SessionIds : Hello(c, s)
    \/ \E c \in Conns, i \in Invites, ttl \in Ttls, limit \in UseLimits : CreateInvite(c, i, ttl, limit)
    \/ \E q \in Reqs, c \in Conns, h \in Handles :
          \/ BeginBootstrap(q, c, h)
          \/ BeginSignIn(q, c, h)
          \/ \E i \in Invites : BeginRedeem(q, c, i, h)
    \/ \E q \in Reqs : FinishRedeem(q) \/ FinishBootstrap(q) \/ FinishSignIn(q)
    \/ Tick \/ Crash \/ Restart

Spec == Init /\ [][Next]_vars

-----------------------------------------------------------------------------
\* A crash, a lost socket or a collision of handles never separates an account
\* from the use it cost and from the session it came with: an invite's uses are
\* its accounts, every account has a session, no session lacks an account.
InviteAccounting ==
    /\ \A i \in Invites : invite[i] # None =>
          invite[i].uses = Cardinality({h \in Handles : via[h] = i})
    /\ \A h \in Accounts : \E s \in SessionIds : session[s] # None /\ session[s].user = h
    /\ \A s \in SessionIds : session[s] # None => session[s].user \in Accounts

\* The installation can always be administered: while there is no admin the
\* running server has a bootstrap token, and nobody else can get in first.
NeverLockedOut ==
    /\ Accounts # {} => Admins # {}
    /\ up /\ Admins = {} => boot

\* Admins come from the bootstrap token only, and only from requests that had
\* begun before the first account existed.
AdminsSettle ==
    [][ Accounts # {} /\ Pending("bootstrap") = {} =>
            /\ {h \in Handles : role'[h] = "admin"} = Admins
            /\ {q \in Reqs : req'[q].op = "bootstrap"} = {} ]_vars

\* A connection acts as the owner of the session it holds, however the answers
\* of its hellos and sign-ins interleave.
IdentityMatchesSession ==
    \A c \in Conns :
        /\ connSess[c] = None <=> connUser[c] \in {None, "closed"}
        /\ connSess[c] # None =>
              session[connSess[c]] # None /\ connUser[c] = session[connSess[c]].user

\* "Invite token has been used": an invite admits at most max_uses accounts.
InviteWithinLimit ==
    \A i \in Invites : invite[i] # None => invite[i].uses <= invite[i].max
=============================================================================
