\* Output of an interrupted turn lands behind its Cancel
SPECIFICATION Spec
CONSTANTS
    Workers = {w1}
    PromptIds = {p1}
    CancelIds = {c1}
    CallIds = {k1}
    MaxLog = 5
    MaxLosses = 1
    None = None
PROPERTIES
    CancelEndsTheTurn
CHECK_DEADLOCK FALSE
