SPECIFICATION FairSpec
CONSTANTS
    w1 = w1
    w2 = w2
    None = None
    Workers = {w1, w2}
    MAX_ACTIVATION_DELIVERIES = 2
    WORK_NOTIFY_MAX_DELIVER = 8
    MAX_ACTIVATION_FAILURES = 2
    REFUSAL_CONFIRMATIONS = 1
    CAS_RETRY_LIMIT = 2
    Targeted = FALSE
    MaxFaults = 1
    MaxEarly = 1
INVARIANTS TypeOK SafeToRemove CountsRealFailures LimitLeavesRoom FailuresReachTheLog ErrorsAreNotRepeated
PROPERTY EventuallyRemoved
CHECK_DEADLOCK FALSE
