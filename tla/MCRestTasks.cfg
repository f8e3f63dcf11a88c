SPECIFICATION FairSpec
CONSTANTS
    t1 = t1
    t2 = t2
    u1 = u1
    s1 = s1
    s2 = s2
    Tasks <- MCTasks
    Users <- MCUsers
    Owner <- MCOwner
    Cap = 1
    Sessions <- MCSessions
    MaxFaults = 1
INVARIANTS
    SlotsAreExact
    RefusedLeavesNoRow
PROPERTIES
    CountedRunsDrained
    StatusMovesForward
    RunsMoveOn
CHECK_DEADLOCK FALSE
