--------------------------- MODULE MCWorkspaceLease ---------------------------
(* The directories of WorkspaceLease: one that contains another, and a third. *)
EXTENDS WorkspaceLease, TLC

CONSTANTS s1, s2, s3, root, child, other

MCOverlap  == {<<root, child>>, <<child, root>>}
MCSymmetry == Permutations(Sessions)
=============================================================================
