----------------------------- MODULE MCOrderedFeed -----------------------------
(* Instances of OrderedFeed.                                                *)
EXTENDS OrderedFeed

CONSTANTS a1, a2, s1, s2
=============================================================================
