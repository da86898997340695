--------------------------- MODULE MCResourceLocks ---------------------------
(* Three calls over three keys: circles of two and of three can close.      *)
EXTENDS ResourceLocks, TLC

CONSTANTS t1, t2, t3

MCTasks == {t1, t2, t3}
MCKeys  == 1 .. 3
=============================================================================
