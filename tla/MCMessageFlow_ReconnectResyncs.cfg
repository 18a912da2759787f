CONSTANTS
    a = a  b = b
    Clients <- MCClients
    Channels = {x, y}
    Limit = 2
    CacheSize = 1
    Unstable <- MCUnstable
    MaxMsgs = 2
    MaxQueue <- MCMaxQueue
    None = None
SYMMETRY Symmetry
SPECIFICATION Spec
INVARIANT ReconnectResyncs
CHECK_DEADLOCK FALSE
