----------------------------- MODULE MCPausedRun -----------------------------
(* One client, who answers Yes to every question; the timeout has its own   *)
(* answer.                                                                  *)
EXTENDS PausedRun, TLC

CONSTANTS c1, k1, k2, Yes, TimedOut

MCAnswerOf == (c1 :> Yes) @@ (Ticker :> TimedOut)
=============================================================================
