------------------------ MODULE MCActivationDelivery ------------------------
(* The activation delivery for TLC: two interchangeable workers *)
EXTENDS ActivationDelivery, TLC

CONSTANTS w1, w2

WorkerSymmetry == Permutations(Workers)

=============================================================================
