---------------------------- MODULE MCApprovalGate ----------------------------
(* A serial run with two calls that have an identity, and a run with two    *)
(* calls that ask each time and a third one.                                *)
EXTENDS ApprovalGate, TLC

CONSTANTS u1, u2

TwoRuns == [c \in 1 .. 5 |-> IF c < 3 THEN 1 ELSE 2]
TwoUsers == {u1, u2}
UserSymmetry == Permutations(TwoUsers)
=============================================================================
