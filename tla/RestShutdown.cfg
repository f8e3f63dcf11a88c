SPECIFICATION Spec
CONSTANTS
    t1 = t1
    t2 = t2
    u1 = u1
    s1 = s1
    s2 = s2
    Tasks <- MCOneTask
    Users <- MCUsers
    Owner <- MCOwner
    Cap = 1
    Sessions <- MCOneSession
    MaxFaults = 0
INVARIANT RestRunsDrained
CHECK_DEADLOCK FALSE
