CONSTANTS
    MaxOld = 2
    MaxAttempts = 3
SPECIFICATION Spec
INVARIANTS TypeOK OneLiveSocket NeverStranded
PROPERTY Reconnects
CHECK_DEADLOCK FALSE
