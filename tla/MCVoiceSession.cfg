CONSTANTS
    c1 = c1  c2 = c2
    u1 = u1  u2 = u2
    r1 = r1  r2 = r2
    None = None
    Conns = {c1, c2}
    Users = {u1, u2}
    Rooms = {r1, r2}
    Admins = {u1}
    Owner <- MCOwner
    UserOf <- MCUserOf
    Hasty = {c2}
    MaxClicks <- MCMaxClicks
    MaxRenames = 1
    MaxCalls = 2
    MaxPeers = 3
VIEW View
SPECIFICATION VoiceSpec
INVARIANTS PageMatchesServer NobodyMissing KnownCallsAreLive
CHECK_DEADLOCK FALSE
