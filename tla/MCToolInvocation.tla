-------------------------- MODULE MCToolInvocation --------------------------
(* Instances of ToolInvocation.                                             *)
EXTENDS ToolInvocation, TLC

CONSTANTS s1, s2

ServerSymmetry == Permutations({s1, s2})

(* The replays all come from one worker, so they share a cache entry.       *)
MCKey == [a \in Attempts |-> IF a = 0 THEN "original" ELSE "replay"]
=============================================================================
