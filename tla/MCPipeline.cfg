SPECIFICATION FairSpec
CONSTANTS
    MaxTurns = 3
    Kept = 2
INVARIANTS
    TurnIsToldOnce
    PreviewIsVetted
    FailureLeavesNoTrace
PROPERTIES
    PlanLifecycle
    EveryTurnEnds
CHECK_DEADLOCK FALSE
