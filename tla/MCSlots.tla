------------------------------- MODULE MCSlots -------------------------------
(* Instances of Slots for TLC. *)
EXTENDS Slots, TLC

\* Files are interchangeable.
FileSymmetry == Permutations(Files)

\* The root directory as mkexfatfs leaves it, with a free entry for the label.
MkfsLayout == <<Free, Special("bitmap"), Special("upcase")>>

\* A root directory without an entry for the label.
UnlabelledLayout == <<Special("bitmap"), Special("upcase")>>

=============================================================================
