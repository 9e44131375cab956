---------------------------- MODULE MCRecoveryJob ----------------------------
(***************************************************************************)
(* An MFT of two records on three clusters, so that a file may be in two   *)
(* pieces, in either order, and a new one may take its place.              *)
(***************************************************************************)
EXTENDS RecoveryJob

\* The files made later are empty or of one cluster.
FewRuns == {<<>>} \union {<<c>> : c \in Clusters}

NameSymmetry == Permutations(Names)
=============================================================================
