--------------------------- MODULE MCDeployment ---------------------------
(***************************************************************************)
(* Small instances of Deployment for TLC.                                  *)
(***************************************************************************)
EXTENDS Deployment, TLC

CONSTANTS s1, s2, s3, s4, o1, o2, p1

OneClient == {1}
TwoClients == {1, 2}
OneFingerprint == {1}
TwoFingerprints == {1, 2}

\* Serials are random and compared for equality only. No run with a temporal
\* property other than an action property uses it.
SerialSymmetry == Permutations(Serials)
=============================================================================
