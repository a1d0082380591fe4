------------------------------- MODULE MCDevIO -------------------------------
(* Instances of DevIO for TLC. *)
EXTENDS DevIO

\* Two cards that differ in every byte.
Pair == {[i \in Bytes |-> i % 2], [i \in Bytes |-> (i + 1) % 2]}

=============================================================================
