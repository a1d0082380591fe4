------------------------------ MODULE MCNodes ------------------------------
(* Instances of Nodes for TLC. *)
EXTENDS Nodes, TLC

\* Nodes and names are interchangeable, and so are locks that do not scan.
NodeSymmetry ==
  Permutations(Objects) \cup Permutations(Names) \cup Permutations(Locks \ Scanners)

=============================================================================
