----------------------------- MODULE MCBootstrap -----------------------------
(***************************************************************************)
(* Small instances of Bootstrap for TLC.                                   *)
(***************************************************************************)
EXTENDS Bootstrap, TLC

CONSTANTS i1, i2, p1, p2, k1, k2, k3, k4

Symmetric == Permutations(FileKeys) \cup Permutations(Inits)
                \cup Permutations(Publishers)
=============================================================================
