------------------------------ MODULE MCCluster ------------------------------
(***************************************************************************)
(* Model checking Cluster.  No definition tells one host from another, so  *)
(* hosts may be permuted.                                                  *)
(***************************************************************************)
EXTENDS Cluster

HostSymmetry == Permutations(Host)
=============================================================================
