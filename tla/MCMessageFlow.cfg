CONSTANTS
    a = a  b = b
    Clients <- MCClients
    Channels = {x, y}
    Limit = 1
    CacheSize = 1
    Unstable <- MCUnstable
    MaxMsgs = 2
    MaxQueue <- MCMaxQueue
    None = None
SYMMETRY Symmetry
SPECIFICATION Spec
INVARIANTS ViewsInOrder NothingMissedWhileConnected ShownIsStored
CHECK_DEADLOCK FALSE
