CONSTANTS
    ann = ann  max = max
    Users = {ann, max}
    Admins = {ann}
    Hubs = {h1, h2}
    Channels = {x, y}
    Names = {Lobby, Other}
    DefaultName = Lobby
    None = None
    Unstable = {max}
    MaxQueue = 1
    MaxRequests <- MCMaxRequests
    NewNames = {Lobby}
SYMMETRY Symmetry
SPECIFICATION Spec
INVARIANTS TypeOK AccessibleIsShown ShownIsCurrent OnlyOutsidersMiss NothingLeaks CurrentIsShown NoOrphans CreatorIsOwner
CHECK_DEADLOCK FALSE
