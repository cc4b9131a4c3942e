--------------------------- MODULE LeaseRegister ---------------------------
(***************************************************************************)
(* What the session lease promises to the workers that take it: at any     *)
(* time at most one worker may act on a session, and the right to act      *)
(* passes from one worker to another only through a state in which nobody  *)
(* has it.  `holders' is the set of workers that may act.                  *)
(***************************************************************************)
CONSTANT Workers
VARIABLE holders

Init == holders = {}

Grant(w) == holders = {} /\ holders' = {w}

Withdraw == holders # {} /\ holders' = {}

Next == Withdraw \/ \E w \in Workers : Grant(w)

Spec == Init /\ [][Next]_holders
=============================================================================
