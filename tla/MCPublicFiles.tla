--------------------------- MODULE MCPublicFiles ---------------------------
(***************************************************************************)
(* A small instance of PublicFiles for TLC.                                *)
(***************************************************************************)
EXTENDS PublicFiles, TLC

CONSTANTS w1, w2, r1, f1, f2, f3, f4

FileSymmetry == Permutations(Files)

TwoOutputs == <<"crl.der", "status-list.jwt">>
=============================================================================
