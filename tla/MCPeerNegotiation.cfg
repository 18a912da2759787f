CONSTANTS
    Overlap = FALSE
    Hasty = FALSE
    MaxPeers = 3
    MaxActors = 3
    MaxTracks = 2
    None = None
SPECIFICATION Spec
INVARIANTS ConnectedWhenQuiet CandidatesArrive TracksArrive
CHECK_DEADLOCK FALSE
