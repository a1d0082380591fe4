-------------------------------- MODULE Space --------------------------------
(***************************************************************************)
(* What cluster.c promises its callers: files that are resized, in units   *)
(* of clusters, within a fixed capacity.  A resize either takes place as a *)
(* whole or leaves every file as it was.                                   *)
(***************************************************************************)
EXTENDS Integers, FiniteSetsExt

CONSTANTS Files, Capacity

VARIABLE count  \* clusters of each file

Total(c) == MapThenSumSet(LAMBDA f : c[f], Files)

Init == count = [f \in Files |-> 0]

Resize(f, n) ==
  /\ count' = [count EXCEPT ![f] = n]
  /\ Total(count') <= Capacity

Next == \E f \in Files, n \in 0..Capacity : Resize(f, n)

Spec == Init /\ [][Next]_count

=============================================================================
