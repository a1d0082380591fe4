------------------------------ MODULE MCFileIO ------------------------------
(* Instances of FileIO for TLC. *)
EXTENDS FileIO, TLC

\* Handles are interchangeable.
HandleSymmetry == Permutations(Handles)

=============================================================================
