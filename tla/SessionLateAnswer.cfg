SPECIFICATION Spec
CONSTANTS
    MaxRuns = 1
    MaxQuestions = 1
PROPERTY LateAnswerAcknowledged
CHECK_DEADLOCK FALSE
