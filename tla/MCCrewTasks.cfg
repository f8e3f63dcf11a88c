SPECIFICATION CrewFairSpec
CONSTANTS
    MaxRuns = 3
    PoolSize = 1
    MaxFaults = 1
INVARIANTS
    CrewTypeOK
    ResultIsVerbatim
    CheckpointIsFresh
PROPERTIES
    DevCrewEnds
CHECK_DEADLOCK FALSE
