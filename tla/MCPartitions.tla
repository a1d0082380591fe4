---------------------------- MODULE MCPartitions ----------------------------
(* Instances of Partitions for TLC: cards of eight sectors, with room for    *)
(* three partitions of two.                                                  *)
EXTENDS Partitions

CONSTANTS cardA, cardB, cardC, cardD

P1 == <<2, 3>>
P2 == <<4, 5>>
P3 == <<6, 7>>

Empty == [boot |-> {}, good |-> {}, mbr |-> <<>>, ebr |-> <<>>, gpt |-> <<>>]
Plain(x) == [type |-> "other", first |-> x[1], count |-> x[2] - x[1] + 1]
Gpt == [type |-> "gpt", first |-> 1, count |-> 7]

\* All three partitions, in a GPT; an extended partition with 2 and 3 in it; no
\* partition table, over what is left of all three; all three, the second broken.
SwapCards ==
  [x \in {cardA, cardB, cardC, cardD} |->
     CASE x = cardA -> [Empty EXCEPT !.boot = {2, 4, 6}, !.good = {2, 4, 6},
                                 !.mbr = <<Gpt>>, !.gpt = <<P1, None, P2, P3>>]
       [] x = cardB -> [Empty EXCEPT
            !.boot = {4, 6}, !.good = {4, 6},
            !.mbr = <<[type |-> "extended", first |-> 2, count |-> 6]>>,
            !.ebr = 2 :> [type |-> "other", rel |-> 2, count |-> 2,
                          link |-> "extended", next |-> 1]
                 @@ 3 :> [type |-> "other", rel |-> 3, count |-> 2,
                          link |-> "unused", next |-> 0]]
       [] x = cardC -> [Empty EXCEPT !.boot = {0, 2, 4, 6}, !.good = {0, 2, 4, 6}]
       [] x = cardD -> [Empty EXCEPT !.boot = {2, 4, 6}, !.good = {2, 6},
                                 !.mbr = <<Plain(P1), Plain(P2), Plain(P3)>>]]

\* A hybrid MBR: its second entry is a partition of the GPT.
HybridCards ==
  [x \in {cardA} |-> [Empty EXCEPT !.boot = {2, 4}, !.good = {2, 4},
                               !.mbr = <<Gpt, Plain(P1)>>, !.gpt = <<P1, P2>>]]

=============================================================================
