---------------------------- MODULE MCStreamClients ----------------------------
(* Instances of StreamClients.                                              *)
EXTENDS StreamClients

CONSTANTS k1
=============================================================================
