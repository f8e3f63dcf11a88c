SPECIFICATION Spec
CONSTANTS
    MaxSessions = 3
    MaxEvents = 3
    MaxLen = 2
    MaxFaults = 1
INVARIANTS
    TypeOK
    AnchorIsSafe
    StreamIsALog
CHECK_DEADLOCK FALSE
