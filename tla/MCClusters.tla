------------------------------ MODULE MCClusters ------------------------------
(* Instances of Clusters for TLC. *)
EXTENDS Clusters, TLC

\* Nodes are interchangeable.
FileSymmetry == Permutations(Files)

=============================================================================
