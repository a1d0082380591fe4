------------------------------ MODULE MCHandler ------------------------------
(* Instances of Handler for TLC. *)
EXTENDS Handler, TLC

\* Cards without the write-protect tab are interchangeable.
CardSymmetry == Permutations(Cards \ WriteProtected)

=============================================================================
