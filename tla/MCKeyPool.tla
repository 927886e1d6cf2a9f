------------------------------ MODULE MCKeyPool ------------------------------
(***************************************************************************)
(* Small instances of KeyPool for TLC.                                     *)
(***************************************************************************)
EXTENDS KeyPool, TLC

CONSTANTS t1, t2, h1, h2, h3, h4

HandleSymmetry == Permutations(Handles)
=============================================================================
