SPECIFICATION Spec
CONSTANTS
    c1 = c1
    c2 = c2
    c3 = c3
    Conns <- MCConns
    NoConn = NoConn
    MaxPrompts = 0
    SerialHandshakes = TRUE
SYMMETRY ConnSymmetry
INVARIANT OneOpenSession
CHECK_DEADLOCK FALSE
