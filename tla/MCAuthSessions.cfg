CONSTANTS
    Conns = {c1, c2}
    Reqs = {q1, q2}
    Handles = {h1, h2, h3}
    Invites = {i1}
    Ttls = {1}
    UseLimits = {1}
    SessionTtl = 2
    MaxSessions = 3
    MaxTime = 2
    None = None
SYMMETRY Symmetry
SPECIFICATION Spec
INVARIANTS TypeOK InviteAccounting NeverLockedOut IdentityMatchesSession
PROPERTY AdminsSettle
CHECK_DEADLOCK FALSE
