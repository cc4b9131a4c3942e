---------------------------- MODULE CallOutcome ----------------------------
(* What the invocation journal promises about one tool call: at most one    *)
(* outcome is ever decided, and whoever learns an outcome of the call,      *)
(* from whichever attempt, server, cache or replay, learns that one.        *)
CONSTANTS
    Outcomes,   \* what a run of the tool can end with
    None        \* nothing decided yet

VARIABLES
    decided,    \* the outcome of the call
    heard       \* the outcomes that callers were given

Init == decided = None /\ heard = {}

Decide ==
    /\ decided = None
    /\ decided' \in Outcomes
    /\ UNCHANGED heard

Learn ==
    /\ decided # None
    /\ heard' = {decided}
    /\ UNCHANGED decided

Next == Decide \/ Learn

Spec == Init /\ [][Next]_<<decided, heard>>
=============================================================================
