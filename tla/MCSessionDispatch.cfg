SPECIFICATION FairSpec
CONSTANTS
    MaxRuns = 2
    MaxQuestions = 2
INVARIANTS
    TypeOK
    QuestionBooksAgree
    OneRunAtATime
PROPERTIES
    CancelHitsRunningRun
    NoWaitIsForEver
CHECK_DEADLOCK FALSE
