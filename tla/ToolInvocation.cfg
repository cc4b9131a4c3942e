SPECIFICATION FairSpec
CONSTANTS
    s1 = s1
    s2 = s2
    None = None
    Servers = {s1}
    MaxReplays = 2
    Key <- MCKey
    Results = {"ok", "err"}
    CANCEL_ATTEMPTS = 1
    MaxSent = 2
    MaxFaults = 1
INVARIANTS TypeOK CachedIsJournaled OneJob MutatingToolRunsOnce PurgeIsFinal EarlyCancelInterrupts WaiterHasExecution
PROPERTIES ImplementsCallOutcome HandleOutlivesItsRun CancelEndsTheWait
CHECK_DEADLOCK FALSE
