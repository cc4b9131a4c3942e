--------------------------- MODULE MCSessionTurn ----------------------------
(* SessionTurn for model checking.  Workers, prompts and interrupt         *)
(* requests are interchangeable; only the safety runs use the symmetry.    *)
EXTENDS SessionTurn, TLC

Symmetry == Permutations(Workers) \union Permutations(PromptIds)
                \union Permutations(CancelIds)
=============================================================================
