--------------------------------- MODULE File ---------------------------------
(***************************************************************************)
(* What a file promises.  Its content is what was written to it, and       *)
(* everything between is zero, with one exception: up to some place the    *)
(* content is sure to stay until it is written or cut off, and a write     *)
(* that begins in the file behind that place may leave anything between    *)
(* the two.  A write that fails may have extended the file with zeros and  *)
(* stored a prefix of its data, and nothing else.                          *)
(***************************************************************************)
EXTENDS Naturals, Sequences

CONSTANTS MaxSize, Values, Junk

VARIABLES
  content,  \* the bytes of the file
  sure      \* how many of them are sure

\* s cut off or extended with zeros to n bytes.
Sized(s, n) == [i \in 1..n |-> IF i <= Len(s) THEN s[i] ELSE 0]

\* s with n bytes of value v from offset o on.
Overlay(s, o, n, v) == [i \in 1..Len(s) |-> IF i \in (o + 1)..(o + n) THEN v ELSE s[i]]

Init ==
  /\ content \in UNION {[1..n -> Values] : n \in 0..MaxSize}
  /\ sure \in 0..Len(content)
  /\ \A i \in (sure + 1)..Len(content) : content[i] = 0

Resize ==
  /\ content' = Sized(content, Len(content'))
  /\ sure' <= Len(content') /\ (sure' >= sure \/ sure' = Len(content'))

\* A write at o of which m bytes are stored, after the file has been extended
\* to the end of the write, or to its start, or not at all.
Write ==
  LET z == Len(content') IN
  /\ z >= Len(content)
  /\ content' \in [1..z -> Values \cup {Junk}]
  /\ sure' \in sure..z
  /\ \E o \in 0..z : \E m \in 0..(z - o), v \in Values :
       /\ m > 0 => sure' >= o + m
       /\ \A i \in 1..z :
            \/ content'[i] = Overlay(Sized(content, z), o, m, v)[i]
            \/ m > 0 /\ o <= Len(content) /\ i \in (sure + 1)..o

Next == Resize \/ Write

Spec == Init /\ [][Next]_<<content, sure>>

=============================================================================
