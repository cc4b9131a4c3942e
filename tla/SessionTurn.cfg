\* Steering: two prompts and an interrupt race one worker
SPECIFICATION Spec
CONSTANTS
    Workers = {w1}
    PromptIds = {p1, p2}
    CancelIds = {c1}
    CallIds = {k1}
    MaxLog = 5
    MaxLosses = 1
    None = None
SYMMETRY Symmetry
INVARIANTS
    OneCancelPerRequest
PROPERTIES
    OutputStopsAtCancel
    SettledBeforeAck
CHECK_DEADLOCK FALSE
