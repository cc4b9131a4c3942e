SPECIFICATION Spec
CONSTANTS
    s1 = s1
    s2 = s2
    None = None
    Servers = {s1, s2}
    MaxReplays = 1
    Key <- MCKey
    Results = {"ok", "err"}
    CANCEL_ATTEMPTS = 1
    MaxSent = 2
    MaxFaults = 1
INVARIANT AcceptedCancelDecides
CHECK_DEADLOCK FALSE
