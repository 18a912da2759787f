CONSTANTS
    Overlap = TRUE
    Hasty = FALSE
    MaxPeers = 3
    MaxActors = 3
    MaxTracks = 2
    None = None
SPECIFICATION Spec
INVARIANT ConnectedWhenQuiet
CHECK_DEADLOCK FALSE
