---------------------------- MODULE MCSessionBudget ----------------------------
(* Two agents of one tree, which TLC need not tell apart.                    *)
EXTENDS SessionBudget, TLC

CONSTANTS parent, child

MCSymmetry == Permutations(Agents)
=============================================================================
