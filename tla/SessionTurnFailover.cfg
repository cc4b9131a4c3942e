\* Failover: two workers, two interrupts, a crash or a lost lease at any step
SPECIFICATION Spec
CONSTANTS
    Workers = {w1, w2}
    PromptIds = {p1}
    CancelIds = {c1, c2}
    CallIds = {k1}
    MaxLog = 4
    MaxLosses = 2
    None = None
SYMMETRY Symmetry
INVARIANTS
    TypeOK
    WindUpAnswersOnce
PROPERTIES
    OutputStopsAtCancel
    SettledBeforeAck
CHECK_DEADLOCK FALSE
