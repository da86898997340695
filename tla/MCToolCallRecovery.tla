------------------------- MODULE MCToolCallRecovery -------------------------
(* Instances of ToolCallRecovery: the batches the runs are about.           *)
EXTENDS ToolCallRecovery

CONSTANTS c1, c2, r1, r2
Batch2 == <<c1, c2>>
=============================================================================
