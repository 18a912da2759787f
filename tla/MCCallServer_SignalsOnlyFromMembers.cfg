CONSTANTS
    c1 = c1  c2 = c2  c3 = c3
    u1 = u1  u2 = u2
    r1 = r1  r2 = r2
    None = None
    Conns <- MCConns
    Users <- MCUsers
    Rooms <- MCRooms
    Admins <- MCAdmins
    Owner <- MCOwner
    MaxCalls = 2
    MaxPeers = 3
SPECIFICATION Spec
PROPERTY SignalsOnlyFromMembers
CHECK_DEADLOCK FALSE
