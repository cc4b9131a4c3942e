\* An interrupted turn whose announcement is out is wound up whoever dies
SPECIFICATION FairSpec
CONSTANTS
    Workers = {w1, w2}
    PromptIds = {p1}
    CancelIds = {c1}
    CallIds = {k1}
    MaxLog = 4
    MaxLosses = 2
    None = None
PROPERTIES
    AnnouncedInterruptIsWoundUp
CHECK_DEADLOCK FALSE
