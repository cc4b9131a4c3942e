\* Every log of up to 7 entries with two prompts and two tool calls
SPECIFICATION Spec
CONSTANTS
    PromptIds = {p1, p2}
    CallIds = {k1, k2}
    MaxLog = 7
SYMMETRY Symmetry
INVARIANTS
    TypeOK
    WindUpOwesWhatWasCutOff
    QueueIsUnansweredInput
    WindUpSettlesTheTurn
    SettledInputIsNotQueuedAgain
    InputAboveBarrierIsKept
CHECK_DEADLOCK FALSE
