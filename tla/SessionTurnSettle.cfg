\* A crash between the answer and its TurnEnd leaves the prompt unsettled
SPECIFICATION FairSpec
CONSTANTS
    Workers = {w1}
    PromptIds = {p1}
    CancelIds = {}
    CallIds = {k1}
    MaxLog = 4
    MaxLosses = 1
    None = None
PROPERTIES
    ActivatedPromptIsSettled
CHECK_DEADLOCK FALSE
