CONSTANTS
    Ctrls = {c1, c2, c3}
    Medias = {m1, m2}
    Streams = {s1, s2}
    Clients = {x, y}
    None = None
SYMMETRY Symmetry
SPECIFICATION Spec
INVARIANTS TypeOK HubConsistent LiveWhileBroadcast WatchersUpToDate FramesFromBroadcasterToViewers
PROPERTY ReplacementStaysFindable
CHECK_DEADLOCK FALSE
