--------------------------- MODULE MCSessionLease ---------------------------
(* Instances of SessionLease: two processes share a host whose identity    *)
(* authorizes reclaims, a third (where present) runs elsewhere.            *)
EXTENDS SessionLease, TLC

CONSTANTS a1, a2, b1

MCHost == (a1 :> "A") @@ (a2 :> "A") @@ (b1 :> "B")
MCStrongHosts == {"A"}

(* The two processes of one host are interchangeable: safety runs only.    *)
Twins == Permutations({a1, a2})
=============================================================================
