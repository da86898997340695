--------------------------- MODULE MCMessageDelivery ---------------------------
(* The properties of MessageDelivery and the values that TLC gives to its    *)
(* constants.                                                                *)
EXTENDS MessageDelivery

CONSTANTS m1, m2, s1, f1

MCWatchers == Inputs \cup Flushers \cup {Relay}
=============================================================================
