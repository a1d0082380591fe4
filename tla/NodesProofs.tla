----------------------------- MODULE NodesProofs -----------------------------
(* Theorems about Nodes, for any number of objects, names, locks and files.  *)
EXTENDS Nodes, FiniteSetTheorems, SequenceTheorems, TLAPS

(***************************************************************************)
(* The tree of any nodes nd with the lists ls: a rename goes through a     *)
(* tree in which the target has been freed and the object not yet moved.   *)
(***************************************************************************)

\* Closed, in any nodes.
ClosedIn(nd, S) ==
  \A m \in S : nd[m].live /\ nd[m].parent # None => nd[m].parent \in S

\* Going up from n leads to the root.
Reaches(nd, n) == \A S \in SUBSET All : n \in S /\ ClosedIn(nd, S) => Root \in S

In(s, n) == \E i \in 1..Len(s) : s[i] = n

TreeType(nd, ls) == nd \in [All -> Node \cup {Freed}] /\ ls \in [All -> Seq(Objects)]

RootSound(nd) == nd[Root].live /\ nd[Root].dir /\ nd[Root].parent = None

\* The lists have the children.
ListsSound(nd, ls) ==
  \A d \in All, n \in Objects : In(ls[d], n) <=> nd[n].live /\ nd[n].parent = d

NamesDiffer(nd, ls) ==
  \A d \in All : \A i, j \in 1..Len(ls[d]) :
    i # j => nd[ls[d][i]].name # nd[ls[d][j]].name

\* Parents are directories that have not been freed.
ParentsSound(nd) ==
  \A n \in Objects : nd[n].live =>
    nd[n].parent \in All /\ nd[nd[n].parent].live /\ nd[nd[n].parent].dir

Rooted(nd) == \A n \in Objects : nd[n].live => Reaches(nd, n)

TreeOf(nd, ls) ==
  /\ TreeType(nd, ls) /\ RootSound(nd) /\ ListsSound(nd, ls)
  /\ NamesDiffer(nd, ls) /\ ParentsSound(nd) /\ Rooted(nd)

(***************************************************************************)
(* References and scans.                                                   *)
(***************************************************************************)

HoldersIn(k, n) == {l \in Locks : k[l].held /\ k[l].node = n}

Extra(o, n) == IF n = Root THEN 0 ELSE o[n]

\* RefsBalanced, of any nodes, locks and files.
Balanced(nd, k, o) ==
  \A n \in All : nd[n].live => nd[n].references = Cardinality(HoldersIn(k, n)) + Extra(o, n)

RefsOf(nd, k, o) ==
  /\ k \in [Locks -> Lock \cup {NoLock}] /\ o \in [Objects -> Nat]
  /\ Balanced(nd, k, o)
  /\ \A l \in Locks : k[l].held => nd[k[l].node].live
  /\ \A n \in Objects : o[n] > 0 => nd[n].live

\* A scan k of a directory with the list s: where it is, and what it has still
\* to do if nothing has disturbed it.
ScanOf(k, s) ==
  /\ \/ k.index = -1 /\ k.key = 0 /\ k.next = None
     \/ k.index = k.key /\ k.key > 0
  /\ k.next # None => In(s, k.next)
  /\ k.calm /\ k.end => k.due = {}
  /\ k.calm /\ ~k.end =>
       /\ k.key = 0 => \A x \in k.due : In(s, x)
       /\ k.key > 0 /\ k.next = None => k.due = {}
       /\ k.next # None => \E i \in 1..Len(s) :
            /\ s[i] = k.next
            /\ \A x \in k.due : \E j \in i..Len(s) : s[j] = x

ScansOf(k, ls) == \A l \in Locks : k[l].held => ScanOf(k[l], ls[k[l].node])

\* Why the process may have stopped, if it has.
Stops == {"none", "cleanup", "split"}

\* The inductive invariant.
NodesInv ==
  TreeOf(node, list) /\ RefsOf(node, lock, opens) /\ ScansOf(lock, list) /\ bug \in Stops

-----------------------------------------------------------------------------
(* Lists *)

\* A list of children, in which nothing is twice.
Distinct(s) == \A i, j \in 1..Len(s) : i # j => s[i] # s[j]

\* tree_detach() takes out one entry and keeps the order of the others.
LEMMA WithoutEffect ==
  ASSUME NEW S, NEW s \in Seq(S), Distinct(s), NEW i \in 1..Len(s)
  PROVE  /\ Without(s, s[i]) \in Seq(S) /\ Len(Without(s, s[i])) = Len(s) - 1
         /\ \A j \in 1..(Len(s) - 1) :
              Without(s, s[i])[j] = IF j < i THEN s[j] ELSE s[j + 1]
<1> DEFINE c == CHOOSE c \in 1..Len(s) : s[c] = s[i]
           w == [j \in 1..(Len(s) - 1) |-> IF j < c THEN s[j] ELSE s[j + 1]]
<1>1. Len(s) \in Nat /\ \A j \in 1..Len(s) : s[j] \in S
  BY ElementOfSeq, LenProperties
<1>2. c = i
  BY DEF Distinct
<1>3. Without(s, s[i]) = w
  BY DEF Without
<1> HIDE DEF c
<1>4. ASSUME NEW j \in 1..(Len(s) - 1)
      PROVE  (IF j < c THEN s[j] ELSE s[j + 1]) \in S
  BY <1>1, <1>2
<1>5. w \in [1..(Len(s) - 1) -> S] /\ Len(s) - 1 \in Nat
  BY <1>1, <1>4
<1>6. w \in Seq(S)
  BY <1>5, SeqDef
<1>7. Len(w) = Len(s) - 1
  <2>1. Len(w) \in Nat /\ DOMAIN w = 1..Len(w)
    BY <1>6, LenProperties
  <2> QED
    BY <1>5, <2>1
<1> QED
  BY <1>2, <1>3, <1>6, <1>7

\* tree_attach() puts one entry before the others.
LEMMA AttachedEffect ==
  ASSUME NEW S, NEW s \in Seq(S), NEW n \in S
  PROVE  /\ Attached(s, n) \in Seq(S) /\ Len(Attached(s, n)) = Len(s) + 1
         /\ Attached(s, n)[1] = n
         /\ \A j \in 1..Len(s) : Attached(s, n)[j + 1] = s[j]
BY DEF Attached

\* Who is in a list without an entry.
LEMMA WithoutHas ==
  ASSUME NEW S, NEW s \in Seq(S), Distinct(s), NEW n, In(s, n), NEW m
  PROVE  In(Without(s, n), m) <=> In(s, m) /\ m # n
<1>1. PICK i \in 1..Len(s) : s[i] = n
  BY DEF In
<1> DEFINE w == Without(s, n)
<1>2. /\ Len(s) \in Nat /\ Len(w) = Len(s) - 1
      /\ \A j \in 1..(Len(s) - 1) : w[j] = IF j < i THEN s[j] ELSE s[j + 1]
  BY <1>1, WithoutEffect, LenProperties
<1> HIDE DEF w
<1>3. ASSUME In(w, m) PROVE In(s, m) /\ m # n
  <2>1. PICK j \in 1..(Len(s) - 1) : w[j] = m
    BY <1>2, <1>3 DEF In
  <2>2. CASE j < i
    <3>1. m = s[j] /\ j \in 1..Len(s) /\ j # i
      BY <1>2, <2>1, <2>2
    <3> QED
      BY <3>1, <1>1 DEF In, Distinct
  <2>3. CASE ~(j < i)
    <3>1. m = s[j + 1] /\ j + 1 \in 1..Len(s) /\ j + 1 # i
      BY <1>2, <2>1, <2>3
    <3> QED
      BY <3>1, <1>1 DEF In, Distinct
  <2> QED
    BY <2>2, <2>3
<1>4. ASSUME In(s, m), m # n PROVE In(w, m)
  <2>1. PICK j \in 1..Len(s) : s[j] = m
    BY <1>4 DEF In
  <2>2. j # i
    BY <1>1, <1>4, <2>1
  <2>3. CASE j < i
    <3>1. j \in 1..Len(w) /\ w[j] = m
      BY <1>2, <2>1, <2>3
    <3> QED
      BY <3>1 DEF In
  <2>4. CASE j > i
    <3>1. j - 1 \in 1..Len(w) /\ w[j - 1] = m
      BY <1>2, <2>1, <2>4
    <3> QED
      BY <3>1 DEF In
  <2> QED
    BY <1>2, <2>2, <2>3, <2>4
<1> QED
  BY <1>3, <1>4 DEF w

\* Who is in a list with a new entry.
LEMMA AttachedHas ==
  ASSUME NEW S, NEW s \in Seq(S), NEW n \in S, NEW m
  PROVE  In(Attached(s, n), m) <=> In(s, m) \/ m = n
<1> DEFINE a == Attached(s, n)
<1>1. /\ Len(s) \in Nat /\ Len(a) = Len(s) + 1 /\ a[1] = n
      /\ \A j \in 1..Len(s) : a[j + 1] = s[j]
  BY AttachedEffect, LenProperties
<1> HIDE DEF a
<1>2. ASSUME In(a, m), m # n PROVE In(s, m)
  <2>1. PICK j \in 1..Len(a) : a[j] = m
    BY <1>2 DEF In
  <2>2. j - 1 \in 1..Len(s) /\ s[j - 1] = m
    BY <1>1, <1>2, <2>1
  <2> QED
    BY <2>2 DEF In
<1>3. ASSUME In(s, m) PROVE In(a, m)
  <2>1. PICK j \in 1..Len(s) : s[j] = m
    BY <1>3 DEF In
  <2>2. j + 1 \in 1..Len(a) /\ a[j + 1] = m
    BY <1>1, <2>1
  <2> QED
    BY <2>2 DEF In
<1>4. In(a, n)
  <2>1. 1 \in 1..Len(a)
    BY <1>1
  <2> QED
    BY <1>1, <2>1 DEF In
<1> QED
  BY <1>2, <1>3, <1>4 DEF a

\* Nothing is twice in a list without an entry.
LEMMA WithoutDistinct ==
  ASSUME NEW S, NEW s \in Seq(S), Distinct(s), NEW n, In(s, n)
  PROVE  Without(s, n) \in Seq(S) /\ Distinct(Without(s, n))
<1>1. PICK i \in 1..Len(s) : s[i] = n
  BY DEF In
<1> DEFINE w == Without(s, n)
<1>2. /\ Len(s) \in Nat /\ Len(w) = Len(s) - 1 /\ w \in Seq(S)
      /\ \A j \in 1..(Len(s) - 1) : w[j] = IF j < i THEN s[j] ELSE s[j + 1]
  BY <1>1, WithoutEffect, LenProperties
<1> HIDE DEF w
<1>3. ASSUME NEW j \in 1..Len(w), NEW k \in 1..Len(w), j # k
      PROVE  w[j] # w[k]
  <2> DEFINE p == IF j < i THEN j ELSE j + 1
             q == IF k < i THEN k ELSE k + 1
  <2>1. p \in 1..Len(s) /\ q \in 1..Len(s) /\ p # q /\ w[j] = s[p] /\ w[k] = s[q]
    BY <1>2, <1>3
  <2> QED
    BY <2>1 DEF Distinct
<1> QED
  BY <1>2, <1>3 DEF Distinct, w

\* Nor in one with an entry that was not there.
LEMMA AttachedDistinct ==
  ASSUME NEW S, NEW s \in Seq(S), Distinct(s), NEW n \in S, ~In(s, n)
  PROVE  Attached(s, n) \in Seq(S) /\ Distinct(Attached(s, n))
<1> DEFINE a == Attached(s, n)
<1>1. /\ Len(s) \in Nat /\ Len(a) = Len(s) + 1 /\ a[1] = n /\ a \in Seq(S)
      /\ \A j \in 1..Len(s) : a[j + 1] = s[j]
  BY AttachedEffect, LenProperties
<1> HIDE DEF a
<1>2. \A j \in 2..Len(a) : a[j] = s[j - 1] /\ j - 1 \in 1..Len(s)
  <2> SUFFICES ASSUME NEW j \in 2..Len(a) PROVE a[j] = s[j - 1] /\ j - 1 \in 1..Len(s)
    OBVIOUS
  <2>1. j - 1 \in 1..Len(s) /\ (j - 1) + 1 = j
    BY <1>1
  <2> QED
    BY <1>1, <2>1
<1>3. ASSUME NEW j \in 2..Len(a) PROVE a[j] # n
  BY <1>2, <1>3 DEF In
<1>4. ASSUME NEW j \in 1..Len(a), NEW k \in 1..Len(a), j # k
      PROVE  a[j] # a[k]
  <2>1. CASE j = 1
    BY <1>1, <1>3, <1>4, <2>1
  <2>2. CASE k = 1
    BY <1>1, <1>3, <1>4, <2>2
  <2>3. CASE j # 1 /\ k # 1
    <3>1. j \in 2..Len(a) /\ k \in 2..Len(a) /\ j - 1 # k - 1
      BY <1>1, <1>4, <2>3
    <3> QED
      BY <1>2, <3>1 DEF Distinct
  <2> QED
    BY <2>1, <2>2, <2>3
<1> QED
  BY <1>1, <1>4 DEF Distinct, a

\* The same of names, entry by entry.
NamesApart(nd, s) ==
  \A m, n \in Objects : In(s, m) /\ In(s, n) /\ m # n => nd[m].name # nd[n].name

\* Names that differ in every place: no object twice, no two with one name.
LEMMA NamesMeans ==
  ASSUME NEW nd, NEW ls, TreeType(nd, ls)
  PROVE  NamesDiffer(nd, ls) <=> \A d \in All : Distinct(ls[d]) /\ NamesApart(nd, ls[d])
<1>1. \A d \in All : \A i \in 1..Len(ls[d]) : ls[d][i] \in Objects
  BY ElementOfSeq DEF TreeType
<1>2. ASSUME NamesDiffer(nd, ls), NEW d \in All
      PROVE  Distinct(ls[d]) /\ NamesApart(nd, ls[d])
  BY <1>1, <1>2 DEF NamesDiffer, Distinct, NamesApart, In
<1>3. ASSUME NEW d \in All, Distinct(ls[d]), NamesApart(nd, ls[d]),
             NEW i \in 1..Len(ls[d]), NEW j \in 1..Len(ls[d]), i # j
      PROVE  nd[ls[d][i]].name # nd[ls[d][j]].name
  <2>1. ls[d][i] \in Objects /\ ls[d][j] \in Objects /\ ls[d][i] # ls[d][j]
    BY <1>1, <1>3 DEF Distinct
  <2>2. In(ls[d], ls[d][i]) /\ In(ls[d], ls[d][j])
    BY DEF In
  <2> QED
    BY <1>3, <2>1, <2>2 DEF NamesApart
<1> QED
  BY <1>2, <1>3 DEF NamesDiffer

-----------------------------------------------------------------------------
(* The tree *)

\* What can be read of a node.
LEMMA NodeFields ==
  ASSUME NEW v \in Node \cup {Freed}
  PROVE  /\ v.live \in BOOLEAN /\ (v = Freed <=> ~v.live)
         /\ v.live => /\ v \in Node /\ v.dir \in BOOLEAN /\ v.parent \in All \cup {None}
                      /\ v.name \in Names \cup {None} /\ v.references \in Nat
<1>1. CASE v = Freed
  <2>1. v.live = FALSE
    BY <1>1 DEF Freed
  <2> QED
    BY <1>1, <2>1
<1>2. CASE v \in Node
  <2>1. v.live = TRUE
    BY <1>2 DEF Node
  <2>2. v # Freed
    BY <2>1 DEF Freed
  <2> QED
    BY <1>2, <2>1, <2>2 DEF Node
<1> QED
  BY <1>1, <1>2

\* delete() of an object without children, as the first part of a rename as well.
Removed(nd, n) == [nd EXCEPT ![n] = Freed]
Detached(ls, d, n) == [ls EXCEPT ![d] = Without(@, n)]

\* What is left is a tree.
LEMMA RemoveTree ==
  ASSUME NEW nd, NEW ls, TreeOf(nd, ls), NEW n \in Objects, nd[n].live,
         \A m \in Objects : nd[m].live => nd[m].parent # n
  PROVE  TreeOf(Removed(nd, n), Detached(ls, nd[n].parent, n))
<1> DEFINE d == nd[n].parent
           nd1 == Removed(nd, n)
           ls1 == Detached(ls, d, n)
<1>1. /\ nd \in [All -> Node \cup {Freed}] /\ ls \in [All -> Seq(Objects)]
      /\ RootSound(nd) /\ ListsSound(nd, ls) /\ ParentsSound(nd) /\ Rooted(nd)
      /\ \A e \in All : Distinct(ls[e]) /\ NamesApart(nd, ls[e])
  BY NamesMeans DEF TreeOf, TreeType
<1>2. d \in All /\ nd[d].live /\ nd[d].dir /\ In(ls[d], n)
  BY <1>1 DEF ParentsSound, ListsSound
<1>3. n \in All /\ n # Root /\ Root \in All /\ Objects \subseteq All
  BY NodesAssumption DEF All
<1>4. nd1[n] = Freed /\ Freed.live = FALSE /\ \A m \in All : m # n => nd1[m] = nd[m]
  BY <1>1, <1>3 DEF Removed, Freed
<1>5. ls1[d] = Without(ls[d], n) /\ \A e \in All : e # d => ls1[e] = ls[e]
  BY <1>1, <1>2 DEF Detached
<1>6. Without(ls[d], n) \in Seq(Objects) /\ Distinct(Without(ls[d], n))
  BY <1>1, <1>2, WithoutDistinct
<1>7. \A m : In(Without(ls[d], n), m) <=> In(ls[d], m) /\ m # n
  BY <1>1, <1>2, WithoutHas
<1>8. TreeType(nd1, ls1)
  <2>1. nd1 \in [All -> Node \cup {Freed}]
    BY <1>1 DEF Removed
  <2>2. ls1 \in [All -> Seq(Objects)]
    BY <1>1, <1>6 DEF Detached
  <2> QED
    BY <2>1, <2>2 DEF TreeType
<1> HIDE DEF nd1, ls1, d
<1>9. RootSound(nd1)
  BY <1>1, <1>3, <1>4 DEF RootSound
<1>10. \A e \in All, m \in Objects : In(ls1[e], m) <=> In(ls[e], m) /\ m # n
  <2> SUFFICES ASSUME NEW e \in All, NEW m \in Objects
               PROVE  In(ls1[e], m) <=> In(ls[e], m) /\ m # n
    OBVIOUS
  <2>1. CASE e = d
    BY <1>5, <1>7, <2>1
  <2>2. CASE e # d
    <3>1. ~In(ls[e], n)
      BY <1>1, <2>2 DEF ListsSound, d
    <3> QED
      BY <1>5, <2>2, <3>1
  <2> QED
    BY <2>1, <2>2
<1>11. ListsSound(nd1, ls1)
  BY <1>1, <1>3, <1>4, <1>10 DEF ListsSound
<1>12. NamesDiffer(nd1, ls1)
  <2>1. \A e \in All : Distinct(ls1[e])
    BY <1>1, <1>5, <1>6
  <2>2. \A e \in All : NamesApart(nd1, ls1[e])
    BY <1>1, <1>3, <1>4, <1>10 DEF NamesApart
  <2> QED
    BY <1>8, <2>1, <2>2, NamesMeans
<1>13. ParentsSound(nd1)
  BY <1>1, <1>3, <1>4 DEF ParentsSound
<1>14. ASSUME NEW m \in Objects, nd1[m].live, NEW S \in SUBSET All, m \in S, ClosedIn(nd1, S)
       PROVE  Root \in S
  <2>1. m # n /\ nd[m].live
    BY <1>3, <1>4, <1>14
  <2>2. ClosedIn(nd, S \ {n})
    <3> SUFFICES ASSUME NEW k \in S \ {n}, nd[k].live, nd[k].parent # None
                 PROVE  nd[k].parent \in S \ {n}
      BY DEF ClosedIn
    <3>1. nd1[k] = nd[k]
      BY <1>4
    <3>2. nd[k].parent \in S
      BY <1>14, <3>1 DEF ClosedIn
    <3>3. nd[k].parent # n
      BY <1>1, <1>3 DEF All, RootSound
    <3> QED
      BY <3>2, <3>3
  <2> QED
    BY <1>1, <2>1, <2>2, <1>14 DEF Rooted, Reaches
<1>15. Rooted(nd1)
  BY <1>14 DEF Rooted, Reaches
<1> QED
  BY <1>8, <1>9, <1>11, <1>12, <1>13, <1>15 DEF TreeOf, nd1, ls1, d

\* commit_entry(): a new child of a directory, under a name that is not there.
LEMMA CreateTree ==
  ASSUME NEW nd, NEW ls, TreeOf(nd, ls), NEW n \in Objects, nd[n] = Freed,
         NEW d \in All, nd[d].live, nd[d].dir, NEW x \in Names, NEW isdir \in BOOLEAN,
         \A m \in Objects : In(ls[d], m) => nd[m].name # x
  PROVE  TreeOf([nd EXCEPT ![n] = NewNode(d, x, isdir, 1)],
                [ls EXCEPT ![d] = Attached(@, n), ![n] = <<>>])
<1> DEFINE v == NewNode(d, x, isdir, 1)
           nd1 == [nd EXCEPT ![n] = v]
           ls1 == [ls EXCEPT ![d] = Attached(@, n), ![n] = <<>>]
<1>1. /\ nd \in [All -> Node \cup {Freed}] /\ ls \in [All -> Seq(Objects)]
      /\ RootSound(nd) /\ ListsSound(nd, ls) /\ ParentsSound(nd) /\ Rooted(nd)
      /\ \A e \in All : Distinct(ls[e]) /\ NamesApart(nd, ls[e])
  BY NamesMeans DEF TreeOf, TreeType
<1>2. n \in All /\ n # Root /\ Root \in All /\ Objects \subseteq All /\ None \notin All
  BY NodesAssumption DEF All
<1>3. ~nd[n].live /\ n # d
  BY DEF Freed
<1>4. /\ v \in Node /\ v.live /\ v.dir = isdir /\ v.parent = d /\ v.name = x
  BY <1>2 DEF NewNode, Node
<1>5. nd1[n] = v /\ \A m \in All : m # n => nd1[m] = nd[m]
  BY <1>1, <1>2
<1>6. /\ ls1[d] = Attached(ls[d], n) /\ ls1[n] = <<>>
      /\ \A e \in All : e # d /\ e # n => ls1[e] = ls[e]
  BY <1>1, <1>2, <1>3
<1>7. \A e \in All : ~In(ls[e], n)
  BY <1>1, <1>3 DEF ListsSound
<1>8. \A m \in Objects : ~In(ls[n], m)
  BY <1>1, <1>2, <1>3 DEF ListsSound, ParentsSound
<1>9. Attached(ls[d], n) \in Seq(Objects) /\ Distinct(Attached(ls[d], n))
  BY <1>1, <1>7, AttachedDistinct
<1>10. \A m : In(Attached(ls[d], n), m) <=> In(ls[d], m) \/ m = n
  BY <1>1, AttachedHas
<1>11. /\ <<>> \in Seq(Objects) /\ Distinct(<<>>)
       /\ \A m : ~In(<<>>, m)
  BY DEF Distinct, In
<1>12. TreeType(nd1, ls1)
  <2>1. nd1 \in [All -> Node \cup {Freed}]
    BY <1>1, <1>4
  <2>2. ls1 \in [All -> Seq(Objects)]
    BY <1>1, <1>9, <1>11
  <2> QED
    BY <2>1, <2>2 DEF TreeType
<1> HIDE DEF nd1, ls1, v
<1>13. RootSound(nd1)
  BY <1>1, <1>2, <1>5 DEF RootSound
<1>14. \A e \in All, m \in Objects : In(ls1[e], m) <=> In(ls[e], m) \/ (e = d /\ m = n)
  <2> SUFFICES ASSUME NEW e \in All, NEW m \in Objects
               PROVE  In(ls1[e], m) <=> In(ls[e], m) \/ (e = d /\ m = n)
    OBVIOUS
  <2>1. CASE e = d
    BY <1>6, <1>10, <2>1
  <2>2. CASE e = n
    BY <1>3, <1>6, <1>8, <1>11, <2>2
  <2>3. CASE e # d /\ e # n
    BY <1>6, <2>3
  <2> QED
    BY <2>1, <2>2, <2>3
<1>15. ListsSound(nd1, ls1)
  <2> SUFFICES ASSUME NEW e \in All, NEW m \in Objects
               PROVE  In(ls1[e], m) <=> nd1[m].live /\ nd1[m].parent = e
    BY DEF ListsSound
  <2>1. CASE m = n
    BY <1>4, <1>5, <1>7, <1>14, <2>1
  <2>2. CASE m # n
    BY <1>1, <1>2, <1>5, <1>14, <2>2 DEF ListsSound
  <2> QED
    BY <2>1, <2>2
<1>16. NamesDiffer(nd1, ls1)
  <2>1. \A e \in All : Distinct(ls1[e])
    BY <1>1, <1>6, <1>9, <1>11
  <2>2. ASSUME NEW e \in All, NEW k \in Objects, NEW m \in Objects,
               In(ls1[e], k), In(ls1[e], m), k # m
        PROVE  nd1[k].name # nd1[m].name
    <3>1. CASE k # n /\ m # n
      BY <1>1, <1>2, <1>5, <1>14, <2>2, <3>1 DEF NamesApart
    <3>2. CASE k = n
      BY <1>2, <1>4, <1>5, <1>7, <1>14, <2>2, <3>2
    <3>3. CASE m = n
      BY <1>2, <1>4, <1>5, <1>7, <1>14, <2>2, <3>3
    <3> QED
      BY <3>1, <3>2, <3>3
  <2>3. \A e \in All : NamesApart(nd1, ls1[e])
    BY <2>2 DEF NamesApart
  <2> QED
    BY <1>12, <2>1, <2>3, NamesMeans
<1>17. ParentsSound(nd1)
  <2> SUFFICES ASSUME NEW m \in Objects, nd1[m].live
               PROVE  nd1[m].parent \in All /\ nd1[nd1[m].parent].live /\ nd1[nd1[m].parent].dir
    BY DEF ParentsSound
  <2>1. CASE m = n
    BY <1>3, <1>4, <1>5, <2>1
  <2>2. CASE m # n
    BY <1>1, <1>2, <1>3, <1>5, <2>2 DEF ParentsSound
  <2> QED
    BY <2>1, <2>2
<1>18. ASSUME NEW S \in SUBSET All, ClosedIn(nd1, S)
       PROVE  ClosedIn(nd, S \ {n})
  <2> SUFFICES ASSUME NEW k \in S \ {n}, nd[k].live, nd[k].parent # None
               PROVE  nd[k].parent \in S \ {n}
    BY DEF ClosedIn
  <2>1. nd[k].parent \in S
    BY <1>5, <1>18 DEF ClosedIn
  <2>2. nd[k].parent # n
    BY <1>1, <1>2, <1>3 DEF All, RootSound, ParentsSound
  <2> QED
    BY <2>1, <2>2
<1>19. \A m \in All : nd[m].live => Reaches(nd, m)
  BY <1>1 DEF All, Rooted, Reaches
<1>20. ASSUME NEW m \in Objects, nd1[m].live, NEW S \in SUBSET All, m \in S, ClosedIn(nd1, S)
       PROVE  Root \in S
  <2>1. ClosedIn(nd, S \ {n})
    BY <1>18, <1>20
  <2>2. CASE m = n
    <3>1. d \in S \ {n}
      BY <1>2, <1>3, <1>4, <1>5, <1>20, <2>2 DEF ClosedIn
    <3> QED
      BY <1>19, <2>1, <3>1 DEF Reaches
  <2>3. CASE m # n
    <3>1. m \in S \ {n} /\ nd[m].live /\ m \in All
      BY <1>2, <1>5, <1>20, <2>3
    <3> QED
      BY <1>19, <2>1, <3>1 DEF Reaches
  <2> QED
    BY <2>2, <2>3
<1>21. Rooted(nd1)
  BY <1>20 DEF Rooted, Reaches
<1> QED
  BY <1>12, <1>13, <1>15, <1>16, <1>17, <1>21 DEF TreeOf, nd1, ls1, v

\* The second part of a rename: n moves to the name y in e, which is not n nor
\* below it if n is a directory.
LEMMA MoveTree ==
  ASSUME NEW nd, NEW ls, TreeOf(nd, ls), NEW n \in Objects, nd[n].live,
         NEW e \in All, nd[e].live, nd[e].dir, NEW y \in Names,
         nd[n].dir => \E U \in SUBSET All : e \in U /\ n \notin U /\ ClosedIn(nd, U),
         \A m \in Objects : In(ls[e], m) /\ m # n => nd[m].name # y
  PROVE  TreeOf([nd EXCEPT ![n].parent = e, ![n].name = y],
                [Detached(ls, nd[n].parent, n) EXCEPT ![e] = Attached(@, n)])
<1> DEFINE d == nd[n].parent
           left == Detached(ls, d, n)
           nd1 == [nd EXCEPT ![n].parent = e, ![n].name = y]
           ls1 == [left EXCEPT ![e] = Attached(@, n)]
<1>1. /\ nd \in [All -> Node \cup {Freed}] /\ ls \in [All -> Seq(Objects)]
      /\ RootSound(nd) /\ ListsSound(nd, ls) /\ ParentsSound(nd) /\ Rooted(nd)
      /\ \A c \in All : Distinct(ls[c]) /\ NamesApart(nd, ls[c])
  BY NamesMeans DEF TreeOf, TreeType
<1>2. n \in All /\ n # Root /\ Root \in All /\ Objects \subseteq All /\ None \notin All
  BY NodesAssumption DEF All
<1>3. d \in All /\ nd[d].live /\ nd[d].dir /\ In(ls[d], n)
  BY <1>1 DEF ParentsSound, ListsSound
<1>4. nd[n] \in Node
  BY <1>1, <1>2, NodeFields
<1>5. /\ nd1 \in [All -> Node \cup {Freed}] /\ nd1[n] \in Node
      /\ nd1[n].live /\ (nd1[n].dir <=> nd[n].dir) /\ nd1[n].parent = e /\ nd1[n].name = y
      /\ \A m \in All : m # n => nd1[m] = nd[m]
  BY <1>1, <1>2, <1>4 DEF Node
<1>6. Without(ls[d], n) \in Seq(Objects) /\ Distinct(Without(ls[d], n))
  BY <1>1, <1>3, WithoutDistinct
<1>7. /\ left \in [All -> Seq(Objects)]
      /\ left[d] = Without(ls[d], n) /\ \A c \in All : c # d => left[c] = ls[c]
  BY <1>1, <1>3, <1>6 DEF Detached
<1>8. \A m : In(Without(ls[d], n), m) <=> In(ls[d], m) /\ m # n
  BY <1>1, <1>3, WithoutHas
<1> HIDE DEF left, d
<1>9. \A c \in All : In(ls[c], n) => c = d
  BY <1>1 DEF ListsSound, d
<1>10. \A c \in All : Distinct(left[c]) /\ \A m : In(left[c], m) <=> In(ls[c], m) /\ m # n
  <2> SUFFICES ASSUME NEW c \in All
               PROVE  Distinct(left[c]) /\ \A m : In(left[c], m) <=> In(ls[c], m) /\ m # n
    OBVIOUS
  <2>1. CASE c = d
    BY <1>6, <1>7, <1>8, <2>1
  <2>2. CASE c # d
    BY <1>1, <1>7, <1>9, <2>2
  <2> QED
    BY <2>1, <2>2
<1>11. Attached(left[e], n) \in Seq(Objects) /\ Distinct(Attached(left[e], n))
  BY <1>7, <1>10, AttachedDistinct
<1>12. \A m : In(Attached(left[e], n), m) <=> In(left[e], m) \/ m = n
  BY <1>7, AttachedHas
<1>13. /\ ls1 \in [All -> Seq(Objects)]
       /\ ls1[e] = Attached(left[e], n) /\ \A c \in All : c # e => ls1[c] = left[c]
  BY <1>7, <1>11
<1>14. TreeType(nd1, ls1)
  BY <1>5, <1>13 DEF TreeType
<1> HIDE DEF nd1, ls1
<1>15. \A c \in All : /\ Distinct(ls1[c])
                      /\ \A m : In(ls1[c], m) <=> (In(ls[c], m) /\ m # n) \/ (c = e /\ m = n)
  <2> SUFFICES ASSUME NEW c \in All
               PROVE  /\ Distinct(ls1[c])
                      /\ \A m : In(ls1[c], m) <=> (In(ls[c], m) /\ m # n) \/ (c = e /\ m = n)
    OBVIOUS
  <2>1. CASE c = e
    BY <1>10, <1>11, <1>12, <1>13, <2>1
  <2>2. CASE c # e
    BY <1>10, <1>13, <2>2
  <2> QED
    BY <2>1, <2>2
<1>16. RootSound(nd1)
  BY <1>1, <1>2, <1>5 DEF RootSound
<1>17. ListsSound(nd1, ls1)
  BY SMTT(30), <1>1, <1>2, <1>5, <1>15 DEF ListsSound
<1>18. NamesDiffer(nd1, ls1)
  <2>1. ASSUME NEW c \in All, NEW k \in Objects, NEW m \in Objects,
               In(ls1[c], k), In(ls1[c], m), k # m
        PROVE  nd1[k].name # nd1[m].name
    <3>1. CASE k # n /\ m # n
      <4>1. In(ls[c], k) /\ In(ls[c], m)
        BY <1>15, <2>1, <3>1
      <4>2. nd[k].name # nd[m].name
        BY <1>1, <2>1, <4>1 DEF NamesApart
      <4> QED
        BY <1>2, <1>5, <3>1, <4>2
    <3>2. CASE k = n
      BY <1>2, <1>5, <1>15, <2>1, <3>2
    <3>3. CASE m = n
      BY <1>2, <1>5, <1>15, <2>1, <3>3
    <3> QED
      BY <3>1, <3>2, <3>3
  <2>2. \A c \in All : NamesApart(nd1, ls1[c])
    BY <2>1 DEF NamesApart
  <2> QED
    BY <1>14, <1>15, <2>2, NamesMeans
<1>19. \A m \in All : (nd1[m].live <=> nd[m].live) /\ (nd[m].live => (nd1[m].dir <=> nd[m].dir))
  BY <1>5
<1>20. ParentsSound(nd1)
  <2> SUFFICES ASSUME NEW m \in Objects, nd1[m].live
               PROVE  nd1[m].parent \in All /\ nd1[nd1[m].parent].live /\ nd1[nd1[m].parent].dir
    BY DEF ParentsSound
  <2>1. CASE m = n
    BY <1>5, <1>19, <2>1
  <2>2. CASE m # n
    <3>1. nd1[m] = nd[m] /\ nd[m].live
      BY <1>2, <1>5, <2>2
    <3>2. nd[m].parent \in All /\ nd[nd[m].parent].live /\ nd[nd[m].parent].dir
      BY <1>1, <3>1 DEF ParentsSound
    <3> QED
      BY <1>19, <3>1, <3>2
  <2> QED
    BY <2>1, <2>2
<1>21. PICK U \in SUBSET All : e \in U /\ n \notin U /\ ClosedIn(nd, U)
  <2>1. CASE ~nd[n].dir
    <3>1. ClosedIn(nd, All \ {n})
      <4> SUFFICES ASSUME NEW k \in All \ {n}, nd[k].live, nd[k].parent # None
                   PROVE  nd[k].parent \in All \ {n}
        BY DEF ClosedIn
      <4> QED
        BY <1>1, <2>1 DEF All, RootSound, ParentsSound
    <3>2. e \in All \ {n} /\ n \notin All \ {n} /\ All \ {n} \in SUBSET All
      BY <2>1
    <3> QED
      BY <3>1, <3>2
  <2>2. CASE nd[n].dir
    BY <2>2
  <2> QED
    BY <2>1, <2>2
<1>22. \A m \in All : nd[m].live => Reaches(nd, m)
  BY <1>1 DEF All, Rooted, Reaches
<1>23. ASSUME NEW m \in Objects, nd1[m].live, NEW S \in SUBSET All, m \in S, ClosedIn(nd1, S)
       PROVE  Root \in S
  <2>1. CASE n \notin S
    <3>1. ClosedIn(nd, S)
      BY <1>5, <1>23, <2>1 DEF ClosedIn
    <3>2. nd[m].live /\ m \in All
      BY <1>2, <1>19, <1>23
    <3> QED
      BY <1>22, <1>23, <3>1, <3>2 DEF Reaches
  <2>2. CASE n \in S
    <3>1. e \in S
      BY <1>2, <1>5, <1>23, <2>2 DEF ClosedIn
    <3>2. ClosedIn(nd, S \cap U)
      <4> SUFFICES ASSUME NEW k \in S \cap U, nd[k].live, nd[k].parent # None
                   PROVE  nd[k].parent \in S \cap U
        BY DEF ClosedIn
      <4>1. k # n /\ nd1[k] = nd[k]
        BY <1>5, <1>21
      <4> QED
        BY <1>21, <1>23, <4>1 DEF ClosedIn
    <3>3. S \cap U \in SUBSET All /\ e \in S \cap U
      BY <1>21, <3>1
    <3>4. Root \in S \cap U
      BY <1>22, <3>2, <3>3 DEF Reaches
    <3> QED
      BY <3>4
  <2> QED
    BY <2>1, <2>2
<1>24. Rooted(nd1)
  BY <1>23 DEF Rooted, Reaches
<1> QED
  BY <1>14, <1>16, <1>17, <1>18, <1>20, <1>24 DEF TreeOf, nd1, ls1, left, d

\* A count of references is no part of the tree.
LEMMA CountTree ==
  ASSUME NEW nd, NEW ls, TreeOf(nd, ls), NEW n \in All, nd[n].live, NEW k \in Nat
  PROVE  TreeOf([nd EXCEPT ![n].references = k], ls)
<1> DEFINE nd1 == [nd EXCEPT ![n].references = k]
<1>1. /\ nd \in [All -> Node \cup {Freed}] /\ ls \in [All -> Seq(Objects)]
      /\ RootSound(nd) /\ ListsSound(nd, ls) /\ ParentsSound(nd) /\ Rooted(nd)
      /\ NamesDiffer(nd, ls)
  BY DEF TreeOf, TreeType
<1>2. nd[n] \in Node /\ Root \in All /\ Objects \subseteq All
  BY <1>1, NodeFields DEF All
<1>3. nd1 \in [All -> Node \cup {Freed}]
  BY <1>1, <1>2 DEF Node
<1>4. \A m \in All : /\ nd1[m].live <=> nd[m].live
                     /\ nd[m].live => (nd1[m].dir <=> nd[m].dir)
                     /\ nd[m].live => nd1[m].parent = nd[m].parent
                     /\ nd[m].live => nd1[m].name = nd[m].name
  BY <1>1, <1>2 DEF Node
<1> HIDE DEF nd1
<1>5. RootSound(nd1)
  BY <1>1, <1>2, <1>4 DEF RootSound
<1>6. ListsSound(nd1, ls)
  BY <1>1, <1>2, <1>4 DEF ListsSound
<1>7. NamesDiffer(nd1, ls)
  <2> SUFFICES ASSUME NEW d \in All, NEW i \in 1..Len(ls[d]), NEW j \in 1..Len(ls[d]), i # j
               PROVE  nd1[ls[d][i]].name # nd1[ls[d][j]].name
    BY DEF NamesDiffer
  <2>1. ls[d][i] \in Objects /\ ls[d][j] \in Objects
    BY <1>1, ElementOfSeq
  <2>2. nd[ls[d][i]].live /\ nd[ls[d][j]].live
    BY <1>1, <2>1 DEF ListsSound, In
  <2>3. nd[ls[d][i]].name # nd[ls[d][j]].name
    BY <1>1 DEF NamesDiffer
  <2> QED
    BY <1>2, <1>4, <2>1, <2>2, <2>3
<1>8. ParentsSound(nd1)
  BY <1>1, <1>2, <1>4 DEF ParentsSound
<1>9. \A S \in SUBSET All : ClosedIn(nd1, S) => ClosedIn(nd, S)
  BY <1>4 DEF ClosedIn
<1>10. Rooted(nd1)
  BY <1>1, <1>2, <1>4, <1>9 DEF Rooted, Reaches
<1> QED
  BY <1>1, <1>3, <1>5, <1>6, <1>7, <1>8, <1>10 DEF TreeOf, TreeType, nd1

-----------------------------------------------------------------------------
(* Locks and references *)

\* What can be read of a lock.
LEMMA LockFields ==
  ASSUME NEW v \in Lock \cup {NoLock}
  PROVE  /\ v.held \in BOOLEAN /\ (v = NoLock <=> ~v.held)
         /\ v.held => /\ v \in Lock /\ v.node \in All /\ v.next \in Objects \cup {None}
                      /\ v.index \in Int /\ v.key \in Nat /\ v.due \in SUBSET Objects
                      /\ v.calm \in BOOLEAN /\ v.end \in BOOLEAN
<1>1. CASE v = NoLock
  <2>1. v.held = FALSE
    BY <1>1 DEF NoLock
  <2> QED
    BY <1>1, <2>1
<1>2. CASE v \in Lock
  <2>1. v.held = TRUE
    BY <1>2 DEF Lock
  <2>2. v # NoLock
    BY <2>1 DEF NoLock
  <2> QED
    BY <1>2, <2>1, <2>2 DEF Lock
<1> QED
  BY <1>1, <1>2

\* A lock that is made or freed counts once, for its node.
LEMMA HoldersCount ==
  ASSUME NEW k, NEW k1, NEW l \in Locks, ~k[l].held, k1[l].held,
         \A p \in Locks : p # l => k1[p] = k[p], NEW m
  PROVE  /\ Cardinality(HoldersIn(k, m)) \in Nat
         /\ Cardinality(HoldersIn(k1, m))
              = Cardinality(HoldersIn(k, m)) + (IF m = k1[l].node THEN 1 ELSE 0)
<1> DEFINE h == HoldersIn(k, m)
           h1 == HoldersIn(k1, m)
<1>1. IsFiniteSet(h) /\ Cardinality(h) \in Nat
  <2>1. h \subseteq Locks
    BY DEF HoldersIn
  <2> QED
    BY <2>1, NodesAssumption, FS_Subset, FS_CardinalityType
<1>2. l \notin h
  BY DEF HoldersIn
<1>3. CASE m = k1[l].node
  <2>1. h1 = h \cup {l}
    BY <1>3 DEF HoldersIn
  <2> HIDE DEF h, h1
  <2>2. Cardinality(h1) = Cardinality(h) + 1
    BY <1>1, <1>2, <2>1, FS_AddElement
  <2> QED
    BY <1>1, <1>3, <2>2 DEF h, h1
<1>4. CASE m # k1[l].node
  <2>1. h1 = h
    BY <1>4 DEF HoldersIn
  <2> QED
    BY <1>1, <1>4, <2>1
<1> QED
  BY <1>1, <1>3, <1>4

\* Locks that stay on their nodes count as before.
LEMMA HoldersSame ==
  ASSUME NEW k, NEW k1, NEW m,
         \A l \in Locks : (k1[l].held <=> k[l].held) /\ (k[l].held => k1[l].node = k[l].node)
  PROVE  HoldersIn(k1, m) = HoldersIn(k, m)
BY DEF HoldersIn

\* makelock() with exfat_get_node().
LEMMA TakeRefs ==
  ASSUME NEW nd, NEW ls, TreeOf(nd, ls), NEW k, NEW o, RefsOf(nd, k, o),
         NEW l \in Locks, k[l] = NoLock, NEW n \in All, nd[n].live
  PROVE  /\ RefsOf([nd EXCEPT ![n].references = @ + 1], [k EXCEPT ![l] = NewLock(n)], o)
         /\ TreeOf([nd EXCEPT ![n].references = @ + 1], ls)
<1> DEFINE nd1 == [nd EXCEPT ![n].references = @ + 1]
           k1 == [k EXCEPT ![l] = NewLock(n)]
<1>1. /\ nd \in [All -> Node \cup {Freed}] /\ nd[n] \in Node /\ nd[n].references \in Nat
      /\ Objects \subseteq All
  BY NodeFields DEF TreeOf, TreeType, All
<1>2. TreeOf(nd1, ls)
  <2>1. nd1 = [nd EXCEPT ![n].references = nd[n].references + 1] /\ nd[n].references + 1 \in Nat
    BY <1>1
  <2> QED
    BY <2>1, CountTree
<1>3. NewLock(n) \in Lock /\ NewLock(n).held /\ NewLock(n).node = n
  <2>1. TRUE \in BOOLEAN /\ FALSE \in BOOLEAN /\ -1 \in Int /\ 0 \in Nat /\ {} \in SUBSET Objects
    OBVIOUS
  <2> QED
    BY <2>1 DEF NewLock, Lock
<1>4. k \in [Locks -> Lock \cup {NoLock}] /\ o \in [Objects -> Nat] /\ Balanced(nd, k, o)
  BY DEF RefsOf
<1>5. \A m \in All : /\ Cardinality(HoldersIn(k, m)) \in Nat
                     /\ Cardinality(HoldersIn(k1, m))
                          = Cardinality(HoldersIn(k, m)) + (IF m = n THEN 1 ELSE 0)
  <2>1. ~k[l].held /\ k1[l].held /\ k1[l].node = n /\ \A p \in Locks : p # l => k1[p] = k[p]
    BY <1>3, <1>4, LockFields
  <2> HIDE DEF k1
  <2> QED
    BY <2>1, HoldersCount
<1>6. \A m \in All : /\ nd1[m].live <=> nd[m].live
                     /\ m # n => nd1[m] = nd[m]
                     /\ nd1[n].references = nd[n].references + 1
  BY <1>1 DEF Node
<1>7. k1 \in [Locks -> Lock \cup {NoLock}]
  BY <1>3, <1>4
<1>8. \A p \in Locks : k1[p].held => nd1[k1[p].node].live
  <2> SUFFICES ASSUME NEW p \in Locks, k1[p].held PROVE nd1[k1[p].node].live
    OBVIOUS
  <2>1. CASE p = l
    BY <1>3, <1>4, <1>6, <2>1
  <2>2. CASE p # l
    <3>1. k1[p] = k[p] /\ k[p].node \in All
      BY <1>4, <2>2, LockFields
    <3> QED
      BY <1>6, <3>1 DEF RefsOf
  <2> QED
    BY <2>1, <2>2
<1> HIDE DEF nd1, k1
<1>9. \A m \in All : Extra(o, m) \in Nat
  BY <1>4 DEF Extra, All
<1>10. Balanced(nd1, k1, o)
  <2> SUFFICES ASSUME NEW m \in All, nd1[m].live
               PROVE  nd1[m].references = Cardinality(HoldersIn(k1, m)) + Extra(o, m)
    BY DEF Balanced
  <2>1. nd[m].references = Cardinality(HoldersIn(k, m)) + Extra(o, m)
    BY <1>4, <1>6 DEF Balanced
  <2> QED
    BY <1>5, <1>6, <1>9, <2>1
<1>11. \A m \in Objects : o[m] > 0 => nd1[m].live
  BY <1>1, <1>6 DEF RefsOf
<1> QED
  BY <1>2, <1>4, <1>7, <1>8, <1>10, <1>11 DEF RefsOf, nd1, k1

\* The numbers in RefsOf.
LEMMA RefNumbers ==
  ASSUME NEW nd, NEW k, NEW o, RefsOf(nd, k, o), NEW n \in All
  PROVE  /\ IsFiniteSet(HoldersIn(k, n)) /\ Cardinality(HoldersIn(k, n)) \in Nat
         /\ Extra(o, n) \in Nat
         /\ nd[n].live => nd[n].references = Cardinality(HoldersIn(k, n)) + Extra(o, n)
<1>1. HoldersIn(k, n) \subseteq Locks
  BY DEF HoldersIn
<1>2. IsFiniteSet(HoldersIn(k, n)) /\ Cardinality(HoldersIn(k, n)) \in Nat
  BY <1>1, NodesAssumption, FS_Subset, FS_CardinalityType
<1>3. Extra(o, n) \in Nat
  BY DEF RefsOf, Extra, All
<1> QED
  BY <1>2, <1>3 DEF RefsOf, Balanced

\* A node without references: no lock is on it, no file open.
LEMMA Unreferenced ==
  ASSUME NEW nd, NEW k, NEW o, RefsOf(nd, k, o), NEW n \in Objects,
         nd[n].live => nd[n].references = 0
  PROVE  /\ HoldersIn(k, n) = {} /\ o[n] = 0
         /\ \A l \in Locks : k[l].held => k[l].node # n
<1>1. n \in All /\ n # Root /\ o[n] \in Nat /\ Extra(o, n) = o[n]
  BY NodesAssumption DEF All, RefsOf, Extra
<1>2. /\ IsFiniteSet(HoldersIn(k, n)) /\ Cardinality(HoldersIn(k, n)) \in Nat
      /\ nd[n].live => nd[n].references = Cardinality(HoldersIn(k, n)) + o[n]
  BY <1>1, RefNumbers
<1>3. CASE nd[n].live
  <2>1. Cardinality(HoldersIn(k, n)) = 0 /\ o[n] = 0
    BY <1>1, <1>2, <1>3
  <2>2. HoldersIn(k, n) = {}
    BY <1>2, <2>1, FS_EmptySet
  <2> QED
    BY <2>1, <2>2 DEF HoldersIn
<1>4. CASE ~nd[n].live
  BY <1>1, <1>4 DEF RefsOf, HoldersIn
<1> QED
  BY <1>3, <1>4

\* FREE_LOCK: the count is not 0, and the lock gives back one.
LEMMA GiveRefs ==
  ASSUME NEW nd, NEW ls, TreeOf(nd, ls), NEW k, NEW o, RefsOf(nd, k, o),
         NEW l \in Locks, k[l].held, NEW n, n = k[l].node
  PROVE  /\ nd[n].references # 0
         /\ RefsOf([nd EXCEPT ![n].references = @ + (-1)], [k EXCEPT ![l] = NoLock], o)
         /\ TreeOf([nd EXCEPT ![n].references = @ + (-1)], ls)
<1> DEFINE nd1 == [nd EXCEPT ![n].references = @ + (-1)]
           k1 == [k EXCEPT ![l] = NoLock]
<1>1. k \in [Locks -> Lock \cup {NoLock}] /\ o \in [Objects -> Nat] /\ nd \in [All -> Node \cup {Freed}]
  BY DEF RefsOf, TreeOf, TreeType
<1>2. n \in All /\ nd[n].live /\ nd[n] \in Node /\ nd[n].references \in Nat
  <2>1. n \in All /\ nd[n].live
    BY <1>1, LockFields DEF RefsOf
  <2> QED
    BY <1>1, <2>1, NodeFields
<1>3. /\ k1 \in [Locks -> Lock \cup {NoLock}] /\ ~k1[l].held
      /\ \A p \in Locks : p # l => k[p] = k1[p]
  <2>1. k1[l] = NoLock
    BY <1>1
  <2> QED
    BY <1>1, <2>1, LockFields
<1> HIDE DEF k1
<1>4. \A m \in All : /\ Cardinality(HoldersIn(k1, m)) \in Nat
                     /\ Cardinality(HoldersIn(k, m))
                          = Cardinality(HoldersIn(k1, m)) + (IF m = n THEN 1 ELSE 0)
  BY <1>3, HoldersCount
<1>5. \A m \in All : /\ Extra(o, m) \in Nat
                     /\ nd[m].live => nd[m].references = Cardinality(HoldersIn(k, m)) + Extra(o, m)
  BY RefNumbers
<1>6. nd[n].references - 1 \in Nat /\ nd[n].references # 0
  <2> DEFINE c == Cardinality(HoldersIn(k1, n))
             x == Extra(o, n)
  <2>1. c \in Nat /\ x \in Nat /\ nd[n].references = (c + 1) + x
    BY <1>2, <1>4, <1>5
  <2> HIDE DEF c, x
  <2> QED
    BY <2>1
<1>7. TreeOf(nd1, ls)
  <2>1. nd1 = [nd EXCEPT ![n].references = nd[n].references - 1]
    BY <1>2
  <2> QED
    BY <1>2, <1>6, <2>1, CountTree
<1>8. \A m \in All : /\ nd1[m].live <=> nd[m].live
                     /\ m # n => nd1[m] = nd[m]
                     /\ nd1[n].references = nd[n].references - 1
  BY <1>1, <1>2 DEF Node
<1> HIDE DEF nd1
<1>9. Balanced(nd1, k1, o)
  <2> SUFFICES ASSUME NEW m \in All, nd1[m].live
               PROVE  nd1[m].references = Cardinality(HoldersIn(k1, m)) + Extra(o, m)
    BY DEF Balanced
  <2> DEFINE c == Cardinality(HoldersIn(k1, m))
             x == Extra(o, m)
  <2>1. /\ c \in Nat /\ x \in Nat /\ nd[m].live
        /\ nd[m].references = c + (IF m = n THEN 1 ELSE 0) + x
    BY <1>4, <1>5, <1>8
  <2> HIDE DEF c, x
  <2>2. nd1[m].references = c + x
    BY <1>8, <2>1
  <2> QED
    BY <2>2 DEF c, x
<1>10. \A p \in Locks : k1[p].held => nd1[k1[p].node].live
  <2> SUFFICES ASSUME NEW p \in Locks, k1[p].held PROVE nd1[k1[p].node].live
    OBVIOUS
  <2>1. k1[p] = k[p] /\ k[p].node \in All
    BY <1>1, <1>3, LockFields
  <2> QED
    BY <1>8, <2>1 DEF RefsOf
<1>11. \A m \in Objects : o[m] > 0 => nd1[m].live
  BY <1>8 DEF RefsOf, All
<1> QED
  BY <1>1, <1>3, <1>6, <1>7, <1>9, <1>10, <1>11 DEF RefsOf, nd1, k1

\* A file that is opened takes one reference, ...
LEMMA OpenRefs ==
  ASSUME NEW nd, NEW ls, TreeOf(nd, ls), NEW k, NEW o, RefsOf(nd, k, o),
         NEW n \in Objects, nd[n].live
  PROVE  /\ RefsOf([nd EXCEPT ![n].references = @ + 1], k, [o EXCEPT ![n] = @ + 1])
         /\ TreeOf([nd EXCEPT ![n].references = @ + 1], ls)
<1> DEFINE nd1 == [nd EXCEPT ![n].references = @ + 1]
           o1 == [o EXCEPT ![n] = @ + 1]
<1>1. k \in [Locks -> Lock \cup {NoLock}] /\ o \in [Objects -> Nat] /\ nd \in [All -> Node \cup {Freed}]
  BY DEF RefsOf, TreeOf, TreeType
<1>2. n \in All /\ n # Root /\ nd[n] \in Node /\ nd[n].references \in Nat
  BY <1>1, NodeFields, NodesAssumption DEF All
<1>3. TreeOf(nd1, ls)
  <2>1. nd1 = [nd EXCEPT ![n].references = nd[n].references + 1] /\ nd[n].references + 1 \in Nat
    BY <1>2
  <2> QED
    BY <1>2, <2>1, CountTree
<1>4. \A m \in All : /\ nd1[m].live <=> nd[m].live
                     /\ m # n => nd1[m] = nd[m]
                     /\ nd1[n].references = nd[n].references + 1
  BY <1>1, <1>2 DEF Node
<1>5. o1 \in [Objects -> Nat] /\ o1[n] = o[n] + 1 /\ \A m \in Objects : m # n => o1[m] = o[m]
  BY <1>1
<1> HIDE DEF nd1, o1
<1>6. Balanced(nd1, k, o1)
  <2> SUFFICES ASSUME NEW m \in All, nd1[m].live
               PROVE  nd1[m].references = Cardinality(HoldersIn(k, m)) + Extra(o1, m)
    BY DEF Balanced
  <2> DEFINE c == Cardinality(HoldersIn(k, m))
  <2>1. /\ c \in Nat /\ Extra(o, m) \in Nat
        /\ nd[m].references = c + Extra(o, m)
    BY <1>4, RefNumbers
  <2> HIDE DEF c
  <2>2. CASE m = n
    <3>1. Extra(o, m) = o[n] /\ Extra(o1, m) = o[n] + 1 /\ o[n] \in Nat
      BY <1>1, <1>2, <1>5, <2>2 DEF Extra
    <3>2. nd1[m].references = c + Extra(o1, m)
      BY <1>2, <1>4, <2>1, <2>2, <3>1
    <3> QED
      BY <3>2 DEF c
  <2>3. CASE m # n
    <3>1. Extra(o1, m) = Extra(o, m)
      BY <1>5, <2>3 DEF Extra, All
    <3> QED
      BY <1>4, <2>1, <2>3, <3>1 DEF c
  <2> QED
    BY <2>2, <2>3
<1>7. \A p \in Locks : k[p].held => nd1[k[p].node].live
  BY <1>1, <1>4, LockFields DEF RefsOf
<1>8. \A m \in Objects : o1[m] > 0 => nd1[m].live
  BY <1>2, <1>4, <1>5 DEF RefsOf, All
<1> QED
  BY <1>1, <1>3, <1>5, <1>6, <1>7, <1>8 DEF RefsOf, nd1, o1

\* ... and ACTION_END gives it back.
LEMMA CloseRefs ==
  ASSUME NEW nd, NEW ls, TreeOf(nd, ls), NEW k, NEW o, RefsOf(nd, k, o),
         NEW n \in Objects, o[n] > 0
  PROVE  /\ nd[n].references # 0
         /\ RefsOf([nd EXCEPT ![n].references = @ + (-1)], k, [o EXCEPT ![n] = @ - 1])
         /\ TreeOf([nd EXCEPT ![n].references = @ + (-1)], ls)
<1> DEFINE nd1 == [nd EXCEPT ![n].references = @ + (-1)]
           o1 == [o EXCEPT ![n] = @ - 1]
<1>1. k \in [Locks -> Lock \cup {NoLock}] /\ o \in [Objects -> Nat] /\ nd \in [All -> Node \cup {Freed}]
  BY DEF RefsOf, TreeOf, TreeType
<1>2. n \in All /\ n # Root /\ nd[n].live /\ nd[n] \in Node /\ nd[n].references \in Nat
  <2>1. n \in All /\ n # Root /\ nd[n].live
    BY NodesAssumption DEF All, RefsOf
  <2> QED
    BY <1>1, <2>1, NodeFields
<1>3. nd[n].references # 0 /\ nd[n].references - 1 \in Nat
  <2> DEFINE c == Cardinality(HoldersIn(k, n))
  <2>1. c \in Nat /\ nd[n].references = c + o[n]
    <3>1. Extra(o, n) = o[n]
      BY <1>2 DEF Extra
    <3> QED
      BY <1>2, <3>1, RefNumbers
  <2> HIDE DEF c
  <2>2. o[n] \in Nat
    BY <1>1
  <2> QED
    BY <2>1, <2>2
<1>4. TreeOf(nd1, ls)
  <2>1. nd1 = [nd EXCEPT ![n].references = nd[n].references - 1]
    BY <1>2
  <2> QED
    BY <1>2, <1>3, <2>1, CountTree
<1>5. \A m \in All : /\ nd1[m].live <=> nd[m].live
                     /\ m # n => nd1[m] = nd[m]
                     /\ nd1[n].references = nd[n].references - 1
  BY <1>1, <1>2 DEF Node
<1>6. o1 \in [Objects -> Nat] /\ o1[n] = o[n] - 1 /\ \A m \in Objects : m # n => o1[m] = o[m]
  BY <1>1
<1> HIDE DEF nd1, o1
<1>7. Balanced(nd1, k, o1)
  <2> SUFFICES ASSUME NEW m \in All, nd1[m].live
               PROVE  nd1[m].references = Cardinality(HoldersIn(k, m)) + Extra(o1, m)
    BY DEF Balanced
  <2> DEFINE c == Cardinality(HoldersIn(k, m))
  <2>1. /\ c \in Nat /\ Extra(o, m) \in Nat
        /\ nd[m].references = c + Extra(o, m)
    BY <1>5, RefNumbers
  <2> HIDE DEF c
  <2>2. CASE m = n
    <3>1. Extra(o, m) = o[n] /\ Extra(o1, m) = o[n] - 1 /\ o[n] \in Nat
      BY <1>1, <1>2, <1>6, <2>2 DEF Extra
    <3>2. nd1[m].references = c + Extra(o1, m)
      BY <1>2, <1>5, <2>1, <2>2, <3>1
    <3> QED
      BY <3>2 DEF c
  <2>3. CASE m # n
    <3>1. Extra(o1, m) = Extra(o, m)
      BY <1>6, <2>3 DEF Extra, All
    <3> QED
      BY <1>5, <2>1, <2>3, <3>1 DEF c
  <2> QED
    BY <2>2, <2>3
<1>8. \A p \in Locks : k[p].held => nd1[k[p].node].live
  BY <1>1, <1>5, LockFields DEF RefsOf
<1>9. \A m \in Objects : o1[m] > 0 => nd1[m].live
  BY <1>2, <1>5, <1>6 DEF RefsOf, All
<1> QED
  BY <1>1, <1>3, <1>4, <1>6, <1>7, <1>8, <1>9 DEF RefsOf, nd1, o1

\* FH_FROM_LOCK: the file has the reference that the lock had.
LEMMA HandOverRefs ==
  ASSUME NEW nd, NEW k, NEW o, RefsOf(nd, k, o),
         NEW l \in Locks, k[l].held, NEW n \in Objects, n = k[l].node
  PROVE  RefsOf(nd, [k EXCEPT ![l] = NoLock], [o EXCEPT ![n] = @ + 1])
<1> DEFINE k1 == [k EXCEPT ![l] = NoLock]
           o1 == [o EXCEPT ![n] = @ + 1]
<1>1. k \in [Locks -> Lock \cup {NoLock}] /\ o \in [Objects -> Nat]
  BY DEF RefsOf
<1>2. /\ k1 \in [Locks -> Lock \cup {NoLock}] /\ ~k1[l].held
      /\ \A p \in Locks : p # l => k[p] = k1[p]
  <2>1. k1[l] = NoLock
    BY <1>1
  <2> QED
    BY <1>1, <2>1, LockFields
<1>3. o1 \in [Objects -> Nat] /\ o1[n] = o[n] + 1 /\ \A m \in Objects : m # n => o1[m] = o[m]
  BY <1>1
<1> HIDE DEF k1, o1
<1>4. \A m \in All : /\ Cardinality(HoldersIn(k1, m)) \in Nat
                     /\ Cardinality(HoldersIn(k, m))
                          = Cardinality(HoldersIn(k1, m)) + (IF m = n THEN 1 ELSE 0)
  BY <1>2, HoldersCount
<1>5. Balanced(nd, k1, o1)
  <2> SUFFICES ASSUME NEW m \in All, nd[m].live
               PROVE  nd[m].references = Cardinality(HoldersIn(k1, m)) + Extra(o1, m)
    BY DEF Balanced
  <2> DEFINE c == Cardinality(HoldersIn(k1, m))
  <2>1. /\ c \in Nat /\ Extra(o, m) \in Nat
        /\ nd[m].references = (c + (IF m = n THEN 1 ELSE 0)) + Extra(o, m)
    BY <1>4, RefNumbers
  <2> HIDE DEF c
  <2>2. CASE m = n
    <3>1. Extra(o, m) = o[n] /\ Extra(o1, m) = o[n] + 1 /\ o[n] \in Nat
      BY <1>1, <1>3, <2>2, NodesAssumption DEF Extra
    <3>2. nd[m].references = c + Extra(o1, m)
      BY <2>1, <2>2, <3>1
    <3> QED
      BY <3>2 DEF c
  <2>3. CASE m # n
    <3>1. Extra(o1, m) = Extra(o, m)
      BY <1>3, <2>3 DEF Extra, All
    <3> QED
      BY <2>1, <2>3, <3>1 DEF c
  <2> QED
    BY <2>2, <2>3
<1>6. \A p \in Locks : k1[p].held => nd[k1[p].node].live
  BY <1>2 DEF RefsOf
<1>7. \A m \in Objects : o1[m] > 0 => nd[m].live
  BY <1>3 DEF RefsOf
<1> QED
  BY <1>2, <1>3, <1>5, <1>6, <1>7 DEF RefsOf, k1, o1

\* A new node has the reference of the file or of the lock it is created for.
LEMMA NewRefs ==
  ASSUME NEW nd, NEW ls, TreeOf(nd, ls), NEW k, NEW o, RefsOf(nd, k, o),
         NEW n \in Objects, nd[n] = Freed,
         NEW d \in All, NEW x \in Names, NEW isdir \in BOOLEAN
  PROVE  /\ RefsOf([nd EXCEPT ![n] = NewNode(d, x, isdir, 1)], k, [o EXCEPT ![n] = 1])
         /\ \A l \in Locks : k[l] = NoLock =>
              RefsOf([nd EXCEPT ![n] = NewNode(d, x, isdir, 1)],
                     [k EXCEPT ![l] = NewLock(n)], o)
<1> DEFINE v == NewNode(d, x, isdir, 1)
           nd1 == [nd EXCEPT ![n] = v]
<1>1. k \in [Locks -> Lock \cup {NoLock}] /\ o \in [Objects -> Nat] /\ nd \in [All -> Node \cup {Freed}]
  BY DEF RefsOf, TreeOf, TreeType
<1>2. n \in All /\ n # Root /\ ~nd[n].live
  BY NodesAssumption DEF All, Freed
<1>3. HoldersIn(k, n) = {} /\ o[n] = 0 /\ \A l \in Locks : k[l].held => k[l].node # n
  BY <1>2, Unreferenced
<1>4. v.live /\ v.references = 1
  BY DEF NewNode
<1>5. nd1[n] = v /\ \A m \in All : m # n => nd1[m] = nd[m]
  BY <1>1, <1>2
<1> HIDE DEF v, nd1
<1>6. Cardinality(HoldersIn(k, n)) = 0
  BY <1>3, FS_EmptySet
<1>7. \A m \in All : /\ nd1[m].live /\ m # n => nd[m].live
                     /\ nd[m].live => nd1[m].live /\ nd1[m].references = nd[m].references
  BY <1>2, <1>5
<1>8. RefsOf(nd1, k, [o EXCEPT ![n] = 1])
  <2> DEFINE o1 == [o EXCEPT ![n] = 1]
  <2>1. o1 \in [Objects -> Nat] /\ o1[n] = 1 /\ \A m \in Objects : m # n => o1[m] = o[m]
    BY <1>1
  <2> HIDE DEF o1
  <2>2. ASSUME NEW m \in All, nd1[m].live
        PROVE  nd1[m].references = Cardinality(HoldersIn(k, m)) + Extra(o1, m)
    <3>1. CASE m = n
      <4>1. Extra(o1, m) = 1
        BY <1>2, <2>1, <3>1 DEF Extra
      <4> QED
        BY <1>4, <1>5, <1>6, <3>1, <4>1
    <3>2. CASE m # n
      <4>1. Extra(o1, m) = Extra(o, m)
        BY <2>1, <3>2 DEF Extra, All
      <4> QED
        BY <1>7, <2>2, <3>2, <4>1, RefNumbers
    <3> QED
      BY <3>1, <3>2
  <2>3. \A p \in Locks : k[p].held => nd1[k[p].node].live
    BY <1>1, <1>7, LockFields DEF RefsOf
  <2>4. \A m \in Objects : o1[m] > 0 => nd1[m].live
    BY <1>4, <1>5, <1>7, <2>1 DEF RefsOf, All
  <2> QED
    BY <1>1, <2>1, <2>2, <2>3, <2>4 DEF RefsOf, Balanced, o1
<1>9. ASSUME NEW l \in Locks, k[l] = NoLock
      PROVE  RefsOf(nd1, [k EXCEPT ![l] = NewLock(n)], o)
  <2> DEFINE k1 == [k EXCEPT ![l] = NewLock(n)]
  <2>1. NewLock(n) \in Lock /\ NewLock(n).held /\ NewLock(n).node = n
    <3>1. TRUE \in BOOLEAN /\ FALSE \in BOOLEAN /\ -1 \in Int /\ 0 \in Nat /\ {} \in SUBSET Objects
      OBVIOUS
    <3> QED
      BY <1>2, <3>1 DEF NewLock, Lock
  <2>2. /\ k1 \in [Locks -> Lock \cup {NoLock}] /\ ~k[l].held /\ k1[l].held /\ k1[l].node = n
        /\ \A p \in Locks : p # l => k1[p] = k[p]
    BY <1>1, <1>9, <2>1, LockFields
  <2> HIDE DEF k1
  <2>3. \A m \in All : /\ Cardinality(HoldersIn(k, m)) \in Nat
                       /\ Cardinality(HoldersIn(k1, m))
                            = Cardinality(HoldersIn(k, m)) + (IF m = n THEN 1 ELSE 0)
    BY <2>2, HoldersCount
  <2>4. ASSUME NEW m \in All, nd1[m].live
        PROVE  nd1[m].references = Cardinality(HoldersIn(k1, m)) + Extra(o, m)
    <3>1. CASE m = n
      <4>1. Extra(o, m) = 0
        BY <1>2, <1>3, <3>1 DEF Extra
      <4>2. Cardinality(HoldersIn(k1, m)) = Cardinality(HoldersIn(k, m)) + 1
        BY <2>3, <3>1
      <4>3. Cardinality(HoldersIn(k1, m)) = 1
        BY <1>6, <3>1, <4>2
      <4> QED
        BY <1>4, <1>5, <3>1, <4>1, <4>3
    <3>2. CASE m # n
      <4>1. Cardinality(HoldersIn(k1, m)) = Cardinality(HoldersIn(k, m))
        BY <2>3, <3>2
      <4> QED
        BY <1>7, <2>4, <3>2, <4>1, RefNumbers
    <3> QED
      BY <3>1, <3>2
  <2>5. \A p \in Locks : k1[p].held => nd1[k1[p].node].live
    BY <1>1, <1>4, <1>5, <1>7, <2>2, LockFields DEF RefsOf
  <2>6. \A m \in Objects : o[m] > 0 => nd1[m].live
    BY <1>7 DEF RefsOf, All
  <2> QED
    BY <1>1, <2>2, <2>4, <2>5, <2>6 DEF RefsOf, Balanced, k1
<1> QED
  BY <1>8, <1>9 DEF nd1, v

\* Nobody refers to a node that is freed.
LEMMA RemoveRefs ==
  ASSUME NEW nd, NEW ls, TreeOf(nd, ls), NEW k, NEW o, RefsOf(nd, k, o),
         NEW n \in Objects, nd[n].live, nd[n].references = 0
  PROVE  RefsOf(Removed(nd, n), k, o)
<1> DEFINE nd1 == Removed(nd, n)
<1>1. k \in [Locks -> Lock \cup {NoLock}] /\ o \in [Objects -> Nat] /\ nd \in [All -> Node \cup {Freed}]
  BY DEF RefsOf, TreeOf, TreeType
<1>2. n \in All
  BY DEF All
<1>3. o[n] = 0 /\ \A l \in Locks : k[l].held => k[l].node # n
  BY Unreferenced
<1>4. /\ ~nd1[n].live /\ \A m \in All : m # n => nd1[m] = nd[m]
  BY <1>1, <1>2 DEF Removed, Freed
<1> HIDE DEF nd1
<1>5. Balanced(nd1, k, o)
  <2> SUFFICES ASSUME NEW m \in All, nd1[m].live
               PROVE  nd1[m].references = Cardinality(HoldersIn(k, m)) + Extra(o, m)
    BY DEF Balanced
  <2>1. nd1[m] = nd[m]
    BY <1>4
  <2> QED
    BY <2>1, RefNumbers
<1>6. \A p \in Locks : k[p].held => nd1[k[p].node].live
  BY <1>1, <1>3, <1>4, LockFields DEF RefsOf
<1>7. \A m \in Objects : o[m] > 0 => nd1[m].live
  BY <1>1, <1>3, <1>4 DEF RefsOf, All
<1> QED
  BY <1>1, <1>5, <1>6, <1>7 DEF RefsOf, nd1

\* A node keeps its references when it moves.
LEMMA MoveRefs ==
  ASSUME NEW nd, NEW ls, TreeOf(nd, ls), NEW k, NEW o, RefsOf(nd, k, o),
         NEW n \in Objects, nd[n].live, NEW e, NEW y
  PROVE  RefsOf([nd EXCEPT ![n].parent = e, ![n].name = y], k, o)
<1> DEFINE nd1 == [nd EXCEPT ![n].parent = e, ![n].name = y]
<1>1. k \in [Locks -> Lock \cup {NoLock}] /\ o \in [Objects -> Nat] /\ nd \in [All -> Node \cup {Freed}]
  BY DEF RefsOf, TreeOf, TreeType
<1>2. n \in All /\ nd[n] \in Node
  BY <1>1, NodeFields DEF All
<1>3. \A m \in All : /\ nd1[m].live <=> nd[m].live
                     /\ nd[m].live => nd1[m].references = nd[m].references
  BY <1>1, <1>2 DEF Node
<1> HIDE DEF nd1
<1>4. Balanced(nd1, k, o)
  BY <1>3 DEF Balanced, RefsOf
<1>5. \A p \in Locks : k[p].held => nd1[k[p].node].live
  BY <1>1, <1>3, LockFields DEF RefsOf
<1>6. \A m \in Objects : o[m] > 0 => nd1[m].live
  BY <1>3 DEF RefsOf, All
<1> QED
  BY <1>1, <1>4, <1>5, <1>6 DEF RefsOf, nd1

\* Scans go on within locks that stay on their nodes.
SameLocks(k, k1) ==
  /\ k1 \in [Locks -> Lock \cup {NoLock}]
  /\ \A l \in Locks : (k1[l].held <=> k[l].held) /\ (k[l].held => k1[l].node = k[l].node)

\* The references do not change.
LEMMA ScanRefs ==
  ASSUME NEW nd, NEW k, NEW o, RefsOf(nd, k, o), NEW k1, SameLocks(k, k1)
  PROVE  RefsOf(nd, k1, o)
<1>1. \A m \in All : HoldersIn(k1, m) = HoldersIn(k, m)
  BY HoldersSame DEF SameLocks
<1>2. Balanced(nd, k1, o)
  BY <1>1 DEF Balanced, RefsOf
<1> QED
  BY <1>2 DEF RefsOf, SameLocks

-----------------------------------------------------------------------------
(* Scans *)

\* The entry behind position i, or None.
Behind(s, i) == IF i < Len(s) THEN s[i + 1] ELSE None

\* node->next.
LEMMA AfterEffect ==
  ASSUME TreeOf(node, list), NEW d \in All, NEW i \in 1..Len(list[d])
  PROVE  After(list[d][i]) = Behind(list[d], i)
<1> DEFINE s == list[d]
           n == s[i]
           c == CHOOSE c \in 1..Len(s) : s[c] = n
<1>1. Distinct(s) /\ n \in Objects
  BY NamesMeans, ElementOfSeq DEF TreeOf, TreeType
<1>2. node[n].parent = d
  BY <1>1 DEF TreeOf, ListsSound, In
<1>3. c = i
  BY <1>1 DEF Distinct
<1> HIDE DEF n
<1>4. After(n) = IF c < Len(s) THEN s[c + 1] ELSE None
  BY <1>2 DEF After
<1> QED
  BY <1>3, <1>4 DEF Behind, n

\* A scan does not see what is created before it.
LEMMA ScanAttached ==
  ASSUME NEW k \in Lock, NEW s \in Seq(Objects), ScanOf(k, s), NEW n \in Objects
  PROVE  ScanOf(k, Attached(s, n))
<1> DEFINE a == Attached(s, n)
<1>1. /\ Len(s) \in Nat /\ Len(a) = Len(s) + 1
      /\ \A j \in 1..Len(s) : a[j + 1] = s[j]
  BY AttachedEffect, LenProperties
<1>2. \A x : In(s, x) => In(a, x)
  BY AttachedHas
<1> HIDE DEF a
<1>3. ASSUME k.calm, ~k.end, k.next # None
      PROVE  \E i \in 1..Len(a) : /\ a[i] = k.next
                                  /\ \A x \in k.due : \E j \in i..Len(a) : a[j] = x
  <2>1. PICK i \in 1..Len(s) : /\ s[i] = k.next
                               /\ \A x \in k.due : \E j \in i..Len(s) : s[j] = x
    BY <1>3 DEF ScanOf
  <2>2. i + 1 \in 1..Len(a) /\ a[i + 1] = k.next
    BY <1>1, <2>1
  <2>3. ASSUME NEW x \in k.due PROVE \E j \in (i + 1)..Len(a) : a[j] = x
    <3>1. PICK j \in i..Len(s) : s[j] = x
      BY <2>1
    <3>2. j + 1 \in (i + 1)..Len(a) /\ a[j + 1] = x
      BY <1>1, <3>1
    <3> QED
      BY <3>2
  <2> QED
    BY <2>2, <2>3
<1>4. ScanOf(k, a)
  BY <1>2, <1>3 DEF ScanOf
<1> QED
  BY <1>4 DEF a

\* A scan whose directory is not concerned has no less to return.
LEMMA ScanForgets ==
  ASSUME NEW k \in Lock, NEW k1 \in Lock, NEW s, ScanOf(k, s),
         k1.next = k.next, k1.index = k.index, k1.key = k.key, k1.end = k.end,
         k1.calm = k.calm, k1.due \subseteq k.due
  PROVE  ScanOf(k1, s)
<1>1. k.calm /\ k.due = {} => k1.due = {}
  OBVIOUS
<1>2. ASSUME k.calm, ~k.end, k.next # None
      PROVE  \E i \in 1..Len(s) : /\ s[i] = k.next
                                  /\ \A x \in k1.due : \E j \in i..Len(s) : s[j] = x
  <2>1. PICK i \in 1..Len(s) : /\ s[i] = k.next
                               /\ \A x \in k.due : \E j \in i..Len(s) : s[j] = x
    BY <1>2 DEF ScanOf
  <2> QED
    BY <2>1
<1> QED
  BY <1>1, <1>2 DEF ScanOf

\* A scan goes on behind an entry, if that is where it is: it has returned the
\* entry, or the entry has been deleted.
LEMMA ScanPasses ==
  ASSUME NEW s \in Seq(Objects), Distinct(s), NEW i \in 1..Len(s), NEW D, NEW x \in D \ {s[i]},
         \A z \in D : \E j \in i..Len(s) : s[j] = z
  PROVE  Behind(s, i) = s[i + 1] /\ i + 1 \in 1..Len(s) /\ \E j \in (i + 1)..Len(s) : s[j] = x
<1>1. Len(s) \in Nat
  BY LenProperties
<1>2. PICK j \in i..Len(s) : s[j] = x
  OBVIOUS
<1>3. j # i
  BY <1>2
<1>4. j \in (i + 1)..Len(s) /\ i < Len(s)
  BY <1>1, <1>2, <1>3
<1> QED
  BY <1>1, <1>2, <1>4 DEF Behind

\* EXAMINE_NEXT of the entry at position i, which has all that is due at it or
\* behind it.
LEMMA ScanReturns ==
  ASSUME NEW k \in Lock, NEW k1 \in Lock, NEW s \in Seq(Objects), Distinct(s), ScanOf(k, s),
         NEW i \in 1..Len(s), ~k.end,
         k.calm => \A x \in k.due : \E j \in i..Len(s) : s[j] = x,
         k1.next = Behind(s, i), k1.index = k.key + 1, k1.key = k.key + 1, k1.end = k.end,
         k1.calm = k.calm, k1.due = k.due \ {s[i]}
  PROVE  ScanOf(k1, s)
<1>1. Len(s) \in Nat /\ k.key \in Nat /\ \A j \in 1..Len(s) : s[j] \in Objects
  BY LenProperties, ElementOfSeq DEF Lock
<1>2. k1.index = k1.key /\ k1.key > 0
  BY <1>1
<1>3. k1.next # None => i + 1 \in 1..Len(s) /\ k1.next = s[i + 1]
  BY <1>1 DEF Behind
<1>4. k1.next # None => In(s, k1.next)
  BY <1>3 DEF In
<1>5. ASSUME k1.calm, NEW x \in k1.due
      PROVE  k1.next # None /\ \E j \in (i + 1)..Len(s) : s[j] = x
  <2>1. Behind(s, i) = s[i + 1] /\ i + 1 \in 1..Len(s) /\ \E j \in (i + 1)..Len(s) : s[j] = x
    BY <1>5, ScanPasses
  <2> QED
    BY <1>1, <2>1, NodesAssumption
<1>6. k1.calm /\ k1.next = None => k1.due = {}
  BY <1>5
<1>7. k1.calm /\ k1.next # None =>
        \E p \in 1..Len(s) : /\ s[p] = k1.next
                             /\ \A x \in k1.due : \E j \in p..Len(s) : s[j] = x
  BY <1>3, <1>5
<1> QED
  BY <1>2, <1>4, <1>6, <1>7 DEF ScanOf

\* An entry of the directory is deleted: a scan that was on it is behind it.
LEMMA ScanDeleted ==
  ASSUME NEW k \in Lock, NEW k1 \in Lock, NEW s \in Seq(Objects), Distinct(s), ScanOf(k, s),
         NEW i \in 1..Len(s),
         k1.next = IF k.next = s[i] THEN Behind(s, i) ELSE k.next,
         k1.index = k.index, k1.key = k.key, k1.end = k.end,
         k1.calm = k.calm, k1.due = k.due \ {s[i]}
  PROVE  ScanOf(k1, Without(s, s[i]))
<1> DEFINE w == Without(s, s[i])
<1>1. Len(s) \in Nat /\ k.key \in Nat /\ \A j \in 1..Len(s) : s[j] \in Objects /\ s[j] # None
  BY LenProperties, ElementOfSeq, NodesAssumption DEF Lock
<1>2. Len(w) = Len(s) - 1 /\ \A j \in 1..(Len(s) - 1) : w[j] = IF j < i THEN s[j] ELSE s[j + 1]
  BY WithoutEffect
<1>3. \A x : In(s, x) /\ x # s[i] => In(w, x)
  <2>1. In(s, s[i])
    BY DEF In
  <2> QED
    BY <2>1, WithoutHas
<1> HIDE DEF w
<1>4. \A j \in 1..Len(s) : /\ j < i => j \in 1..Len(w) /\ w[j] = s[j]
                           /\ j > i => j - 1 \in 1..Len(w) /\ w[j - 1] = s[j]
  <2> SUFFICES ASSUME NEW j \in 1..Len(s)
               PROVE  /\ j < i => j \in 1..Len(w) /\ w[j] = s[j]
                      /\ j > i => j - 1 \in 1..Len(w) /\ w[j - 1] = s[j]
    OBVIOUS
  <2>1. j < i => j \in 1..(Len(s) - 1)
    BY <1>1
  <2>2. j > i => j - 1 \in 1..(Len(s) - 1) /\ ~(j - 1 < i) /\ (j - 1) + 1 = j
    BY <1>1
  <2> QED
    BY <1>2, <2>1, <2>2
<1>5. \/ k1.index = -1 /\ k1.key = 0 /\ k1.next = None
      \/ k1.index = k1.key /\ k1.key > 0
  BY <1>1 DEF ScanOf
<1>6. k1.next # None => In(w, k1.next)
  <2>1. CASE k.next = s[i]
    <3>1. k1.next # None => i < Len(s) /\ k1.next = s[i + 1] /\ i + 1 \in 1..Len(s)
      BY <1>1, <2>1 DEF Behind
    <3>2. k1.next # None => s[i + 1] # s[i]
      BY <1>1, <3>1 DEF Distinct
    <3> QED
      BY <1>3, <3>1, <3>2 DEF In
  <2>2. CASE k.next # s[i]
    BY <1>3, <2>2 DEF ScanOf
  <2> QED
    BY <2>1, <2>2
<1>7. ASSUME k1.calm, ~k1.end, k1.key = 0, NEW x \in k1.due PROVE In(w, x)
  BY <1>3, <1>7 DEF ScanOf
<1>8. ASSUME k1.calm, ~k1.end, k.next = s[i], NEW x \in k1.due
      PROVE  k1.next = s[i + 1] /\ i + 1 \in 1..Len(s) /\ \E j \in (i + 1)..Len(s) : s[j] = x
  <2>1. PICK p \in 1..Len(s) : s[p] = s[i] /\ \A z \in k.due : \E j \in p..Len(s) : s[j] = z
    BY <1>1, <1>8 DEF ScanOf
  <2>2. p = i
    BY <2>1 DEF Distinct
  <2>3. \A z \in k.due : \E j \in i..Len(s) : s[j] = z
    BY <2>1, <2>2
  <2>4. Behind(s, i) = s[i + 1] /\ i + 1 \in 1..Len(s) /\ \E j \in (i + 1)..Len(s) : s[j] = x
    BY <1>8, <2>3, ScanPasses
  <2> QED
    BY <1>8, <2>4
<1>9. ASSUME k1.calm, ~k1.end, k1.key > 0, k1.next = None PROVE k1.due = {}
  <2>1. CASE k.next = s[i]
    BY <1>1, <1>8, <1>9, <2>1
  <2>2. CASE k.next # s[i]
    BY <1>9, <2>2 DEF ScanOf
  <2> QED
    BY <2>1, <2>2
<1>10. ASSUME k1.calm, ~k1.end, k1.next # None
       PROVE  \E p \in 1..Len(w) : /\ w[p] = k1.next
                                   /\ \A x \in k1.due : \E j \in p..Len(w) : w[j] = x
  <2>1. CASE k.next = s[i]
    <3>1. i < Len(s) /\ k1.next = s[i + 1] /\ i \in 1..Len(w) /\ w[i] = k1.next
      BY <1>1, <1>2, <1>10, <2>1 DEF Behind
    <3>2. ASSUME NEW x \in k1.due PROVE \E j \in i..Len(w) : w[j] = x
      <4>1. PICK j \in (i + 1)..Len(s) : s[j] = x
        BY <1>8, <1>10, <2>1
      <4>2. j - 1 \in i..Len(w) /\ w[j - 1] = x
        BY <1>1, <1>2, <1>4, <4>1
      <4> QED
        BY <4>2
    <3> QED
      BY <3>1, <3>2
  <2>2. CASE k.next # s[i]
    <3>1. PICK p \in 1..Len(s) : s[p] = k.next /\ \A x \in k.due : \E j \in p..Len(s) : s[j] = x
      BY <1>10, <2>2 DEF ScanOf
    <3> DEFINE q == IF p < i THEN p ELSE p - 1
    <3>2. p # i /\ q \in 1..Len(w) /\ w[q] = k1.next
      BY <1>1, <1>4, <2>2, <3>1
    <3>3. ASSUME NEW x \in k1.due PROVE \E j \in q..Len(w) : w[j] = x
      <4>1. PICK j \in p..Len(s) : s[j] = x
        BY <3>1
      <4>2. j # i /\ j \in 1..Len(s)
        BY <1>1, <4>1
      <4>3. CASE j < i
        <5>1. j \in q..Len(w) /\ w[j] = x
          BY <1>1, <1>4, <3>2, <4>1, <4>2, <4>3
        <5> QED
          BY <5>1
      <4>4. CASE j > i
        <5>1. j - 1 \in q..Len(w) /\ w[j - 1] = x
          BY <1>1, <1>4, <3>2, <4>1, <4>2, <4>4
        <5> QED
          BY <5>1
      <4> QED
        BY <1>1, <4>2, <4>3, <4>4
    <3> QED
      BY <3>2, <3>3
  <2> QED
    BY <2>1, <2>2
<1>11. k1.calm /\ k1.end => k1.due = {}
  BY DEF ScanOf
<1>12. ScanOf(k1, w)
  BY <1>5, <1>6, <1>7, <1>9, <1>10, <1>11 DEF ScanOf
<1> QED
  BY <1>12 DEF w

\* A lock that has been made has no scan yet.
LEMMA ScanFresh ==
  ASSUME NEW n, NEW s
  PROVE  ScanOf(NewLock(n), s)
<1> DEFINE k == NewLock(n)
<1>1. k.index = -1 /\ k.key = 0 /\ k.next = None /\ k.due = {}
  BY DEF NewLock
<1> HIDE DEF k
<1>2. ScanOf(k, s)
  BY <1>1 DEF ScanOf
<1> QED
  BY <1>2 DEF k

-----------------------------------------------------------------------------
(* What the packets find *)

\* Entries(), entry by entry.
LEMMA EntriesHas ==
  ASSUME TreeOf(node, list), NEW d \in All
  PROVE  Entries(d) \subseteq Objects /\ \A n : n \in Entries(d) <=> In(list[d], n)
<1>1. \A i \in 1..Len(list[d]) : list[d][i] \in Objects
  BY ElementOfSeq DEF TreeOf, TreeType
<1> QED
  BY <1>1 DEF Entries, In

\* lookup_name().
LEMMA LookupEffect ==
  ASSUME TreeOf(node, list), NEW d \in All, NEW x
  PROVE  /\ Lookup(d, x) # None =>
              /\ Lookup(d, x) \in Objects /\ In(list[d], Lookup(d, x))
              /\ node[Lookup(d, x)].live /\ node[Lookup(d, x)].parent = d
              /\ node[Lookup(d, x)].name = x
         /\ Lookup(d, x) = None => \A m \in Objects : In(list[d], m) => node[m].name # x
<1>1. Entries(d) \subseteq Objects /\ \A n : n \in Entries(d) <=> In(list[d], n)
  BY EntriesHas
<1>2. CASE \E n \in Entries(d) : node[n].name = x
  <2> DEFINE m == CHOOSE n \in Entries(d) : node[n].name = x
  <2>1. Lookup(d, x) = m
    BY <1>2 DEF Lookup
  <2>2. m \in Entries(d) /\ node[m].name = x
    BY <1>2
  <2> HIDE DEF m
  <2>3. m \in Objects /\ In(list[d], m) /\ m # None
    BY <1>1, <2>2, NodesAssumption
  <2>4. node[m].live /\ node[m].parent = d
    BY <2>3 DEF TreeOf, ListsSound
  <2> QED
    BY <2>1, <2>2, <2>3, <2>4
<1>3. CASE ~\E n \in Entries(d) : node[n].name = x
  <2>1. Lookup(d, x) = None
    BY <1>3 DEF Lookup
  <2> QED
    BY <1>1, <1>3, <2>1
<1> QED
  BY <1>2, <1>3

\* A directory that a path leads to.
LEMMA DirsSound ==
  ASSUME NEW d \in Dirs
  PROVE  d \in All /\ node[d].live /\ node[d].dir
BY DEF Dirs, InTree

\* Every node that has not been freed is in the tree.
LEMMA LiveInTree ==
  ASSUME TreeOf(node, list), NEW n \in All, node[n].live
  PROVE  InTree(n)
<1>1. \A S : Closed(S) <=> ClosedIn(node, S)
  BY DEF Closed, ClosedIn
<1>2. Reaches(node, n)
  BY DEF TreeOf, Rooted, Reaches, All
<1>3. Root \in Up(n)
  BY <1>1, <1>2 DEF Up, Reaches, All
<1> QED
  BY <1>3 DEF InTree

-----------------------------------------------------------------------------
(* The packets *)

\* A lock on a node that has not been freed.
LEMMA LockMade ==
  ASSUME NodesInv, NEW l \in Locks, NEW n \in All, node[n].live,
         MakeLock(l, n), node' = Referenced(n, 1), UNCHANGED <<list, opens, bug>>
  PROVE  NodesInv'
<1>1. /\ TreeOf(node, list) /\ RefsOf(node, lock, opens) /\ ScansOf(lock, list) /\ bug \in Stops
      /\ lock[l] = NoLock /\ lock' = [lock EXCEPT ![l] = NewLock(n)]
      /\ node' = [node EXCEPT ![n].references = @ + 1]
      /\ lock \in [Locks -> Lock \cup {NoLock}]
  BY DEF NodesInv, MakeLock, Referenced, RefsOf
<1>2. RefsOf(node', lock', opens') /\ TreeOf(node', list')
  <2>1. /\ RefsOf([node EXCEPT ![n].references = @ + 1], [lock EXCEPT ![l] = NewLock(n)], opens)
        /\ TreeOf([node EXCEPT ![n].references = @ + 1], list)
    <3>1. TreeOf(node, list) /\ RefsOf(node, lock, opens) /\ lock[l] = NoLock
      BY <1>1
    <3> QED
      BY <3>1, TakeRefs
  <2> QED
    BY <1>1, <2>1
<1>3. ScansOf(lock', list')
  <2> SUFFICES ASSUME NEW p \in Locks, lock'[p].held
               PROVE  ScanOf(lock'[p], list[lock'[p].node])
    BY DEF ScansOf
  <2>1. CASE p = l
    BY <1>1, <2>1, ScanFresh
  <2>2. CASE p # l
    BY <1>1, <2>2 DEF ScansOf
  <2> QED
    BY <2>1, <2>2
<1> QED
  BY <1>1, <1>2, <1>3 DEF NodesInv

\* LOCATE_OBJECT keeps the invariant: what it finds is in the tree.
LEMMA LocateObjectInv ==
  ASSUME NodesInv, NEW l \in Locks, NEW n \in All, LocateObject(l, n)
  PROVE  NodesInv'
<1>1. node[n].live
  BY DEF LocateObject, InTree
<1> QED
  BY <1>1, LockMade DEF LocateObject

\* So does COPY_DIR: the node of a lock has not been freed.
LEMMA CopyDirInv ==
  ASSUME NodesInv, NEW l \in Locks, NEW m \in Locks \cup {None}, m # None => m \in Locks,
         CopyDir(l, m)
  PROVE  NodesInv'
<1> DEFINE n == IF m = None THEN Root ELSE lock[m].node
<1>1. TreeOf(node, list) /\ RefsOf(node, lock, opens)
  BY DEF NodesInv
<1>2. n \in All /\ node[n].live
  <2>1. CASE m = None
    BY <1>1, <2>1 DEF TreeOf, RootSound, All
  <2>2. CASE m # None
    <3>1. lock[m].held /\ m \in Locks /\ lock[m] \in Lock \cup {NoLock}
      BY <1>1, <2>2 DEF CopyDir, RefsOf
    <3> QED
      BY <1>1, <2>2, <3>1, LockFields DEF RefsOf
  <2> QED
    BY <2>1, <2>2
<1>3. MakeLock(l, n) /\ node' = Referenced(n, 1) /\ UNCHANGED <<list, opens, bug>>
  BY DEF CopyDir
<1> HIDE DEF n
<1> QED
  BY <1>2, <1>3, LockMade

\* So does PARENT: nor has its parent.
LEMMA ParentInv ==
  ASSUME NodesInv, NEW l \in Locks, NEW m \in Locks, Parent(l, m)
  PROVE  NodesInv'
<1> DEFINE n == lock[m].node
           d == node[n].parent
<1>1. TreeOf(node, list) /\ RefsOf(node, lock, opens)
  BY DEF NodesInv
<1>2. lock[m].held /\ lock[m] \in Lock \cup {NoLock} /\ n # Root
  BY <1>1 DEF Parent, RefsOf
<1>3. n \in Objects /\ node[n].live
  BY <1>1, <1>2, LockFields DEF RefsOf, All
<1>4. d \in All /\ node[d].live
  BY <1>1, <1>3 DEF TreeOf, ParentsSound
<1>5. MakeLock(l, d) /\ node' = Referenced(d, 1) /\ UNCHANGED <<list, opens, bug>>
  BY DEF Parent
<1> HIDE DEF n, d
<1> QED
  BY <1>4, <1>5, LockMade

\* So do COPY_DIR_FH and PARENT_FH: nor have the node of a file and its parent.
LEMMA LockFromFhInv ==
  ASSUME NodesInv, NEW l \in Locks, NEW n \in Objects, NEW p \in BOOLEAN, LockFromFh(l, n, p)
  PROVE  NodesInv'
<1> DEFINE m == IF ~p THEN n
                ELSE IF node[n].parent = None THEN Root ELSE node[n].parent
<1>1. TreeOf(node, list) /\ RefsOf(node, lock, opens)
  BY DEF NodesInv
<1>2. node[n].live /\ n \in All
  BY <1>1 DEF LockFromFh, RefsOf, All
<1>3. node[n].parent \in All /\ node[node[n].parent].live /\ None \notin All
  BY <1>1, <1>2, NodesAssumption DEF TreeOf, ParentsSound, All
<1>4. m \in All /\ node[m].live
  BY <1>2, <1>3
<1>5. MakeLock(l, m) /\ node' = Referenced(m, 1) /\ UNCHANGED <<list, opens, bug>>
  BY DEF LockFromFh
<1> HIDE DEF m
<1> QED
  BY <1>4, <1>5, LockMade

\* A lock that is freed: no scan of another is concerned.
LEMMA ScansFreed ==
  ASSUME NEW k \in [Locks -> Lock \cup {NoLock}], NEW ls, ScansOf(k, ls), NEW l \in Locks
  PROVE  ScansOf([k EXCEPT ![l] = NoLock], ls)
<1> DEFINE k1 == [k EXCEPT ![l] = NoLock]
<1>1. k1[l] = NoLock /\ \A p \in Locks : p # l => k1[p] = k[p]
  OBVIOUS
<1>2. ~k1[l].held
  BY <1>1, LockFields
<1> HIDE DEF k1
<1>3. ScansOf(k1, ls)
  BY <1>1, <1>2 DEF ScansOf
<1> QED
  BY <1>3 DEF k1

\* So does FREE_LOCK: there is a reference to give back.
LEMMA FreeLockInv ==
  ASSUME NodesInv, NEW l \in Locks, FreeLock(l)
  PROVE  NodesInv'
<1> DEFINE n == lock[l].node
<1>1. /\ TreeOf(node, list) /\ RefsOf(node, lock, opens) /\ ScansOf(lock, list) /\ bug \in Stops
      /\ lock[l].held /\ lock' = [lock EXCEPT ![l] = NoLock] /\ list' = list /\ opens' = opens
      /\ lock \in [Locks -> Lock \cup {NoLock}]
  BY DEF NodesInv, FreeLock, RefsOf
<1>2. /\ node[n].references # 0
      /\ RefsOf([node EXCEPT ![n].references = @ + (-1)], lock', opens)
      /\ TreeOf([node EXCEPT ![n].references = @ + (-1)], list)
  BY <1>1, GiveRefs
<1>3. bug' = bug /\ node' = [node EXCEPT ![n].references = @ + (-1)]
  BY <1>2 DEF FreeLock, Put, Referenced
<1>4. ScansOf(lock', list)
  BY <1>1, ScansFreed
<1> QED
  BY <1>1, <1>2, <1>3, <1>4 DEF NodesInv

\* So does FH_FROM_LOCK.
LEMMA FhFromLockInv ==
  ASSUME NodesInv, NEW l \in Locks, FhFromLock(l)
  PROVE  NodesInv'
<1> DEFINE n == lock[l].node
<1>1. /\ TreeOf(node, list) /\ RefsOf(node, lock, opens) /\ ScansOf(lock, list) /\ bug \in Stops
      /\ lock[l].held /\ ~node[n].dir
      /\ lock' = [lock EXCEPT ![l] = NoLock] /\ opens' = [opens EXCEPT ![n] = @ + 1]
      /\ UNCHANGED <<node, list, bug>>
      /\ lock \in [Locks -> Lock \cup {NoLock}]
  BY DEF NodesInv, FhFromLock, RefsOf
<1>2. n \in Objects
  BY <1>1, LockFields DEF TreeOf, RootSound, All
<1>3. RefsOf(node, lock', opens')
  BY <1>1, <1>2, HandOverRefs
<1>4. ScansOf(lock', list)
  BY <1>1, ScansFreed
<1> QED
  BY <1>1, <1>3, <1>4 DEF NodesInv

\* So does END: there is a reference to give back.
LEMMA EndInv ==
  ASSUME NodesInv, NEW n \in Objects, End(n)
  PROVE  NodesInv'
<1>1. /\ TreeOf(node, list) /\ RefsOf(node, lock, opens) /\ ScansOf(lock, list) /\ bug \in Stops
      /\ opens[n] > 0 /\ opens' = [opens EXCEPT ![n] = @ - 1] /\ UNCHANGED <<list, lock>>
  BY DEF NodesInv, End
<1>2. /\ node[n].references # 0
      /\ RefsOf([node EXCEPT ![n].references = @ + (-1)], lock, opens')
      /\ TreeOf([node EXCEPT ![n].references = @ + (-1)], list)
  BY <1>1, CloseRefs
<1>3. bug' = bug /\ node' = [node EXCEPT ![n].references = @ + (-1)]
  BY <1>2 DEF End, Put, Referenced
<1> QED
  BY <1>1, <1>2, <1>3 DEF NodesInv

\* So does opening a file that exists.
LEMMA OpenOldInv ==
  ASSUME NodesInv, NEW d \in Dirs, NEW x \in Names, OpenOld(d, x)
  PROVE  NodesInv'
<1> DEFINE n == Lookup(d, x)
<1>1. /\ TreeOf(node, list) /\ RefsOf(node, lock, opens) /\ ScansOf(lock, list) /\ bug \in Stops
      /\ n # None /\ opens' = [opens EXCEPT ![n] = @ + 1]
      /\ node' = [node EXCEPT ![n].references = @ + 1] /\ UNCHANGED <<list, lock, bug>>
  BY DEF NodesInv, OpenOld, Referenced
<1>2. n \in Objects /\ node[n].live
  BY <1>1, DirsSound, LookupEffect
<1> HIDE DEF n
<1>3. RefsOf(node', lock, opens') /\ TreeOf(node', list)
  BY <1>1, <1>2, OpenRefs
<1> QED
  BY <1>1, <1>3 DEF NodesInv

-----------------------------------------------------------------------------
(* Creating *)

\* A new entry of d: the tree, and the scans of all locks there were.
LEMMA CreatedEffect ==
  ASSUME NodesInv, NEW d \in Dirs, NEW x \in Names, Lookup(d, x) = None,
         NEW n \in Objects, NEW isdir \in BOOLEAN, Created(n, d, x, isdir, 1)
  PROVE  TreeOf(node', list') /\ ScansOf(lock, list')
<1>1. /\ TreeOf(node, list) /\ RefsOf(node, lock, opens) /\ ScansOf(lock, list)
      /\ lock \in [Locks -> Lock \cup {NoLock}] /\ list \in [All -> Seq(Objects)]
  BY DEF NodesInv, RefsOf, TreeOf, TreeType
<1>2. /\ node[n] = Freed /\ node' = [node EXCEPT ![n] = NewNode(d, x, isdir, 1)]
      /\ list' = [list EXCEPT ![d] = Attached(@, n), ![n] = <<>>]
  BY DEF Created
<1>3. d \in All /\ node[d].live /\ node[d].dir
  BY DirsSound
<1>4. \A m \in Objects : In(list[d], m) => node[m].name # x
  BY <1>1, <1>3, LookupEffect
<1>5. TreeOf(node', list')
  BY <1>1, <1>2, <1>3, <1>4, CreateTree
<1>6. n \in All /\ n # d /\ ~node[n].live
  BY <1>2, <1>3 DEF All, Freed
<1>7. list'[d] = Attached(list[d], n) /\ \A e \in All : e # d /\ e # n => list'[e] = list[e]
  BY <1>1, <1>2, <1>3, <1>6
<1>8. ASSUME NEW l \in Locks, lock[l].held
      PROVE  ScanOf(lock[l], list'[lock[l].node])
  <2> DEFINE e == lock[l].node
  <2>1. lock[l] \in Lock /\ e \in All /\ e # n /\ ScanOf(lock[l], list[e]) /\ list[e] \in Seq(Objects)
    BY <1>1, <1>6, <1>8, LockFields DEF RefsOf, ScansOf
  <2>2. CASE e = d
    BY <1>7, <2>1, <2>2, ScanAttached
  <2>3. CASE e # d
    BY <1>7, <2>1, <2>3
  <2> QED
    BY <2>2, <2>3
<1> QED
  BY <1>5, <1>8 DEF ScansOf

\* So does opening a file that does not.
LEMMA OpenNewInv ==
  ASSUME NodesInv, NEW d \in Dirs, NEW x \in Names, NEW n \in Objects, OpenNew(d, x, n)
  PROVE  NodesInv'
<1>1. /\ TreeOf(node, list) /\ RefsOf(node, lock, opens) /\ bug \in Stops /\ FALSE \in BOOLEAN
      /\ Lookup(d, x) = None /\ Created(n, d, x, FALSE, 1)
      /\ opens' = [opens EXCEPT ![n] = 1] /\ UNCHANGED <<lock, bug>>
  BY DEF NodesInv, OpenNew
<1>2. TreeOf(node', list') /\ ScansOf(lock, list')
  BY <1>1, CreatedEffect
<1>3. node[n] = Freed /\ node' = [node EXCEPT ![n] = NewNode(d, x, FALSE, 1)] /\ d \in All
  BY <1>1, DirsSound DEF Created
<1>4. RefsOf(node', lock, opens')
  BY <1>1, <1>3, NewRefs
<1> QED
  BY <1>1, <1>2, <1>4 DEF NodesInv

\* So does CREATE_DIR.
LEMMA CreateDirInv ==
  ASSUME NodesInv, NEW l \in Locks, NEW d \in Dirs, NEW x \in Names, NEW n \in Objects,
         CreateDir(l, d, x, n)
  PROVE  NodesInv'
<1>1. /\ TreeOf(node, list) /\ RefsOf(node, lock, opens) /\ bug \in Stops /\ TRUE \in BOOLEAN
      /\ Lookup(d, x) = None /\ Created(n, d, x, TRUE, 1)
      /\ lock[l] = NoLock /\ lock' = [lock EXCEPT ![l] = NewLock(n)] /\ UNCHANGED <<opens, bug>>
      /\ lock \in [Locks -> Lock \cup {NoLock}]
  BY NodesAssumption DEF NodesInv, CreateDir, RefsOf
<1>2. TreeOf(node', list') /\ ScansOf(lock, list')
  BY <1>1, CreatedEffect
<1>3. node[n] = Freed /\ node' = [node EXCEPT ![n] = NewNode(d, x, TRUE, 1)] /\ d \in All
  BY <1>1, DirsSound DEF Created
<1>4. RefsOf(node', lock', opens)
  BY <1>1, <1>3, NewRefs
<1>5. ScansOf(lock', list')
  <2> SUFFICES ASSUME NEW p \in Locks, lock'[p].held
               PROVE  ScanOf(lock'[p], list'[lock'[p].node])
    BY DEF ScansOf
  <2>1. CASE p = l
    BY <1>1, <2>1, ScanFresh
  <2>2. CASE p # l
    BY <1>1, <1>2, <2>2 DEF ScansOf
  <2> QED
    BY <2>1, <2>2
<1> QED
  BY <1>1, <1>2, <1>4, <1>5 DEF NodesInv

-----------------------------------------------------------------------------
(* Scanning *)

\* The scan of one lock changes.
LEMMA OneScan ==
  ASSUME NodesInv, NEW l \in Locks, lock[l].held,
         NEW k1 \in Lock, k1.node = lock[l].node, ScanOf(k1, list[k1.node]),
         lock' = [lock EXCEPT ![l] = k1], UNCHANGED <<node, list, opens, bug>>
  PROVE  NodesInv'
<1>1. /\ TreeOf(node, list) /\ RefsOf(node, lock, opens) /\ ScansOf(lock, list) /\ bug \in Stops
      /\ lock \in [Locks -> Lock \cup {NoLock}]
  BY DEF NodesInv, RefsOf
<1>2. lock' \in [Locks -> Lock \cup {NoLock}] /\ lock'[l] = k1 /\ \A p \in Locks : p # l => lock'[p] = lock[p]
  BY <1>1
<1>3. k1.held = TRUE
  BY DEF Lock
<1>4. SameLocks(lock, lock')
  BY <1>2, <1>3 DEF SameLocks
<1>5. RefsOf(node, lock', opens)
  BY <1>1, <1>4, ScanRefs
<1>6. ScansOf(lock', list)
  BY <1>1, <1>2 DEF ScansOf
<1> QED
  BY <1>1, <1>5, <1>6 DEF NodesInv

\* EXAMINE_OBJECT starts a scan that has everything still to return.
LEMMA ExamineObjectInv ==
  ASSUME NodesInv, NEW l \in Locks, ExamineObject(l)
  PROVE  NodesInv'
<1> DEFINE n == lock[l].node
           k1 == [NewLock(n) EXCEPT !.due = Entries(n)]
<1>1. /\ TreeOf(node, list) /\ RefsOf(node, lock, opens)
      /\ lock \in [Locks -> Lock \cup {NoLock}]
      /\ lock[l].held /\ lock' = [lock EXCEPT ![l] = k1] /\ UNCHANGED <<node, list, opens, bug>>
  BY DEF NodesInv, RefsOf, ExamineObject
<1>2. n \in All
  BY <1>1, LockFields
<1>3. Entries(n) \subseteq Objects /\ \A x : x \in Entries(n) <=> In(list[n], x)
  BY <1>1, <1>2, EntriesHas
<1>4. /\ k1 \in Lock /\ k1.node = n /\ k1.index = -1 /\ k1.key = 0 /\ k1.next = None
      /\ k1.due = Entries(n) /\ k1.end = FALSE
  <2>1. TRUE \in BOOLEAN /\ FALSE \in BOOLEAN /\ -1 \in Int /\ 0 \in Nat
    OBVIOUS
  <2> QED
    BY <1>2, <1>3, <2>1 DEF NewLock, Lock
<1> HIDE DEF k1
<1>5. ScanOf(k1, list[n])
  BY <1>3, <1>4 DEF ScanOf
<1> QED
  BY <1>1, <1>4, <1>5, OneScan

\* The scan returns the entry at position i.
LEMMA ReturnInv ==
  ASSUME NodesInv, NEW l \in Locks, lock[l].held, ~lock[l].end,
         NEW i \in 1..Len(list[lock[l].node]),
         lock[l].calm => \A x \in lock[l].due :
           \E j \in i..Len(list[lock[l].node]) : list[lock[l].node][j] = x,
         Return(l, list[lock[l].node][i]), UNCHANGED <<node, list, opens, bug>>
  PROVE  NodesInv'
<1> DEFINE k == lock[l]
           s == list[k.node]
           k1 == [k EXCEPT !.next = Behind(s, i), !.index = k.key + 1,
                           !.key = k.key + 1, !.due = k.due \ {s[i]}]
<1>1. /\ TreeOf(node, list) /\ RefsOf(node, lock, opens) /\ ScansOf(lock, list)
      /\ lock \in [Locks -> Lock \cup {NoLock}]
  BY DEF NodesInv, RefsOf
<1>2. k \in Lock /\ k.node \in All /\ k.key \in Nat /\ k.due \in SUBSET Objects
  BY <1>1, LockFields
<1>3. s \in Seq(Objects) /\ Distinct(s)
  BY <1>1, <1>2, NamesMeans DEF TreeOf, TreeType
<1>4. Len(s) \in Nat /\ \A j \in 1..Len(s) : s[j] \in Objects
  BY <1>3, LenProperties, ElementOfSeq
<1>5. After(s[i]) = Behind(s, i)
  BY <1>1, <1>2, AfterEffect
<1>6. Behind(s, i) \in Objects \cup {None} /\ k.key + 1 \in Nat /\ k.key + 1 \in Int /\ k.due \ {s[i]} \in SUBSET Objects
  BY <1>2, <1>4 DEF Behind
<1>7. /\ k1 \in Lock /\ k1.node = k.node /\ k1.next = Behind(s, i) /\ k1.index = k.key + 1
      /\ k1.key = k.key + 1 /\ k1.end = k.end /\ k1.calm = k.calm /\ k1.due = k.due \ {s[i]}
  BY <1>2, <1>6 DEF Lock
<1>8. lock' = [lock EXCEPT ![l] = k1]
  BY <1>1, <1>2, <1>5 DEF Return, Lock
<1>9. ScanOf(k, s)
  BY <1>1 DEF ScansOf
<1> HIDE DEF k1
<1>10. ScanOf(k1, s)
  <2> HIDE DEF k, s
  <2>1. ~k.end /\ i \in 1..Len(s) /\ (k.calm => \A x \in k.due : \E j \in i..Len(s) : s[j] = x)
    BY DEF k, s
  <2> QED
    BY <1>2, <1>3, <1>7, <1>9, <2>1, ScanReturns
<1> QED
  BY <1>7, <1>8, <1>10, OneScan

\* EXAMINE_NEXT goes on from its position, or counts from the start.
LEMMA ExamineNextInv ==
  ASSUME NodesInv, NEW l \in Locks, ExamineNext(l)
  PROVE  NodesInv'
<1> DEFINE k == lock[l]
           s == list[k.node]
<1>1. /\ TreeOf(node, list) /\ RefsOf(node, lock, opens) /\ ScansOf(lock, list)
      /\ lock \in [Locks -> Lock \cup {NoLock}]
      /\ k.held /\ ~k.end /\ UNCHANGED <<node, list, opens, bug>>
  BY DEF NodesInv, RefsOf, ExamineNext
<1>2. k \in Lock /\ k.node \in All /\ k.key \in Nat /\ k.calm \in BOOLEAN
  BY <1>1, LockFields
<1>3. s \in Seq(Objects) /\ Distinct(s) /\ Len(s) \in Nat
  BY <1>1, <1>2, NamesMeans, LenProperties DEF TreeOf, TreeType
<1>4. ScanOf(k, s)
  BY <1>1 DEF ScansOf
<1>5. CASE k.index = k.key /\ k.next # None
  <2>1. PICK i \in 1..Len(s) : s[i] = k.next
    BY <1>4, <1>5 DEF ScanOf, In
  <2>2. ASSUME k.calm PROVE \A x \in k.due : \E j \in i..Len(s) : s[j] = x
    <3>1. PICK p \in 1..Len(s) : s[p] = k.next /\ \A x \in k.due : \E j \in p..Len(s) : s[j] = x
      BY <1>1, <1>4, <1>5, <2>2 DEF ScanOf
    <3>2. p = i
      BY <1>3, <2>1, <3>1 DEF Distinct
    <3> QED
      BY <3>1, <3>2
  <2>3. Return(l, s[i])
    BY <1>5, <2>1 DEF ExamineNext
  <2> QED
    BY <1>1, <2>2, <2>3, ReturnInv
<1>6. CASE ~(k.index = k.key /\ k.next # None) /\ k.key + 1 <= Len(s)
  <2> DEFINE i == k.key + 1
  <2>1. i \in 1..Len(s)
    BY <1>2, <1>3, <1>6
  <2>2. ASSUME k.calm, NEW x \in k.due PROVE \E j \in i..Len(s) : s[j] = x
    <3>1. k.key = 0 /\ i = 1
      BY <1>1, <1>2, <1>4, <1>6, <2>2 DEF ScanOf
    <3>2. In(s, x)
      BY <1>1, <1>4, <2>2, <3>1 DEF ScanOf
    <3> QED
      BY <3>1, <3>2 DEF In
  <2>3. Return(l, s[i])
    BY <1>6 DEF ExamineNext
  <2> HIDE DEF i
  <2> QED
    BY <1>1, <2>1, <2>2, <2>3, ReturnInv
<1>7. CASE ~(k.index = k.key /\ k.next # None) /\ ~(k.key + 1 <= Len(s))
  <2> DEFINE k1 == [k EXCEPT !.next = None, !.index = -1, !.key = 0, !.end = TRUE]
  <2>1. lock' = [lock EXCEPT ![l].next = None, ![l].index = -1, ![l].key = 0, ![l].end = TRUE]
    BY <1>7 DEF ExamineNext
  <2>2. lock' = [lock EXCEPT ![l] = k1]
    BY <1>1, <1>2, <2>1 DEF Lock
  <2>3. /\ k1 \in Lock /\ k1.node = k.node /\ k1.next = None /\ k1.index = -1 /\ k1.key = 0
        /\ k1.end = TRUE /\ k1.calm = k.calm /\ k1.due = k.due
    <3>1. TRUE \in BOOLEAN /\ -1 \in Int /\ 0 \in Nat
      OBVIOUS
    <3> QED
      BY <1>2, <3>1 DEF Lock
  <2>4. ASSUME k.calm PROVE k.due = {}
    <3>1. CASE k.key = 0
      <4>1. \A x : ~In(s, x)
        BY <1>3, <1>7, <3>1 DEF In
      <4> QED
        BY <1>1, <1>4, <2>4, <3>1, <4>1 DEF ScanOf
    <3>2. CASE k.key > 0
      BY <1>1, <1>4, <1>7, <2>4, <3>2 DEF ScanOf
    <3> QED
      BY <1>2, <3>1, <3>2
  <2> HIDE DEF k1
  <2>5. ScanOf(k1, s)
    BY <2>3, <2>4 DEF ScanOf
  <2> QED
    BY <1>1, <2>2, <2>3, <2>5, OneScan
<1> QED
  BY <1>5, <1>6, <1>7

-----------------------------------------------------------------------------
(* Deleting and renaming *)

\* Two states of a lock that differ in the scan only.
SameScan(k, k1) ==
  /\ k1 \in Lock /\ k1.node = k.node /\ k1.index = k.index /\ k1.key = k.key /\ k1.end = k.end

LockType == [Locks -> Lock \cup {NoLock}]

\* scan_skip_node(), where every lock is on the list of the volume.
LEMMA SkipEffect ==
  ASSUME "novolume" \notin Allow, lock \in LockType, NEW n, After(n) \in Objects \cup {None}
  PROVE  /\ ScanSkipNode(n) \in LockType
         /\ \A l \in Locks : ~lock[l].held => ScanSkipNode(n)[l] = lock[l]
         /\ \A l \in Locks : lock[l].held =>
              /\ SameScan(lock[l], ScanSkipNode(n)[l])
              /\ ScanSkipNode(n)[l].calm = lock[l].calm /\ ScanSkipNode(n)[l].due = lock[l].due
              /\ ScanSkipNode(n)[l].next = IF lock[l].next = n THEN After(n) ELSE lock[l].next
<1> DEFINE k1 == ScanSkipNode(n)
<1>1. Chained = {l \in Locks : lock[l].held}
  BY DEF Chained
<1>2. ASSUME NEW l \in Locks, ~lock[l].held PROVE k1[l] = lock[l]
  BY <1>1, <1>2 DEF ScanSkipNode
<1>3. ASSUME NEW l \in Locks, lock[l].held
      PROVE  /\ SameScan(lock[l], k1[l]) /\ k1[l].calm = lock[l].calm /\ k1[l].due = lock[l].due
             /\ k1[l].next = IF lock[l].next = n THEN After(n) ELSE lock[l].next
  <2>1. lock[l] \in Lock
    BY <1>3, LockFields DEF LockType
  <2>2. CASE lock[l].next = n
    <3>1. k1[l] = [lock[l] EXCEPT !.next = After(n)]
      BY <1>1, <1>3, <2>2 DEF ScanSkipNode
    <3> HIDE DEF k1
    <3> QED
      BY ZenonT(30), <2>1, <2>2, <3>1 DEF SameScan, Lock
  <2>3. CASE lock[l].next # n
    <3>1. k1[l] = lock[l]
      BY <1>1, <2>3 DEF ScanSkipNode
    <3> HIDE DEF k1
    <3> QED
      BY <2>1, <2>3, <3>1 DEF SameScan
  <2> QED
    BY <2>2, <2>3
<1>4. ASSUME NEW l \in Locks PROVE k1[l] \in Lock \cup {NoLock}
  <2> HIDE DEF k1
  <2> QED
    BY <1>2, <1>3, LockFields DEF SameScan, LockType
<1>5. \E f : k1 = [l \in Locks |-> f[l]]
  <2>1. k1 = [l \in Locks |-> k1[l]]
    BY DEF ScanSkipNode
  <2> QED
    BY <2>1
<1>6. k1 \in LockType
  <2> HIDE DEF k1
  <2> QED
    BY <1>4, <1>5 DEF LockType
<1> HIDE DEF k1
<1>7. /\ k1 \in LockType /\ \A l \in Locks : ~lock[l].held => k1[l] = lock[l]
      /\ \A l \in Locks : lock[l].held =>
           /\ SameScan(lock[l], k1[l]) /\ k1[l].calm = lock[l].calm /\ k1[l].due = lock[l].due
           /\ k1[l].next = IF lock[l].next = n THEN After(n) ELSE lock[l].next
  BY <1>2, <1>3, <1>6
<1> QED
  BY <1>7 DEF k1

\* Scans no longer have to return n.
LEMMA ForgetEffect ==
  ASSUME NEW k \in LockType, NEW n
  PROVE  /\ Forget(k, n) \in LockType
         /\ \A l \in Locks : ~k[l].held => Forget(k, n)[l] = k[l]
         /\ \A l \in Locks : k[l].held =>
              /\ SameScan(k[l], Forget(k, n)[l])
              /\ Forget(k, n)[l].calm = k[l].calm /\ Forget(k, n)[l].next = k[l].next
              /\ Forget(k, n)[l].due = k[l].due \ {n}
<1> DEFINE k1 == Forget(k, n)
<1>1. ASSUME NEW l \in Locks, ~k[l].held PROVE k1[l] = k[l]
  BY <1>1 DEF Forget
<1>2. ASSUME NEW l \in Locks, k[l].held
      PROVE  /\ SameScan(k[l], k1[l]) /\ k1[l].calm = k[l].calm /\ k1[l].next = k[l].next
             /\ k1[l].due = k[l].due \ {n}
  <2>1. k[l] \in Lock /\ k[l].due \ {n} \in SUBSET Objects
    BY <1>2, LockFields DEF LockType
  <2>2. k1[l] = [k[l] EXCEPT !.due = @ \ {n}]
    BY <1>2 DEF Forget
  <2> HIDE DEF k1
  <2> QED
    BY <2>1, <2>2 DEF SameScan, Lock
<1>3. ASSUME NEW l \in Locks PROVE k1[l] \in Lock \cup {NoLock}
  <2> HIDE DEF k1
  <2> QED
    BY <1>1, <1>2, LockFields DEF SameScan, LockType
<1>4. \E f : k1 = [l \in Locks |-> f[l]]
  <2>1. k1 = [l \in Locks |-> k1[l]]
    BY DEF Forget
  <2> QED
    BY <2>1
<1> HIDE DEF k1
<1>5. k1 \in LockType
  BY <1>3, <1>4 DEF LockType
<1>6. /\ k1 \in LockType /\ \A l \in Locks : ~k[l].held => k1[l] = k[l]
      /\ \A l \in Locks : k[l].held =>
           /\ SameScan(k[l], k1[l]) /\ k1[l].calm = k[l].calm /\ k1[l].next = k[l].next
           /\ k1[l].due = k[l].due \ {n}
  BY <1>1, <1>2, <1>5
<1> QED
  BY <1>6 DEF k1

\* The scans of S are disturbed.
LEMMA DisturbedEffect ==
  ASSUME NEW k \in LockType, NEW S
  PROVE  /\ Disturbed(k, S) \in LockType
         /\ \A l \in Locks : ~k[l].held => Disturbed(k, S)[l] = k[l]
         /\ \A l \in Locks : k[l].held =>
              /\ SameScan(k[l], Disturbed(k, S)[l])
              /\ Disturbed(k, S)[l].next = k[l].next /\ Disturbed(k, S)[l].due = k[l].due
              /\ l \in S => ~Disturbed(k, S)[l].calm
              /\ l \notin S => Disturbed(k, S)[l].calm = k[l].calm
<1> DEFINE k1 == Disturbed(k, S)
<1>1. ASSUME NEW l \in Locks, ~k[l].held PROVE k1[l] = k[l]
  BY <1>1 DEF Disturbed
<1>2. ASSUME NEW l \in Locks, k[l].held
      PROVE  /\ SameScan(k[l], k1[l]) /\ k1[l].next = k[l].next /\ k1[l].due = k[l].due
             /\ l \in S => ~k1[l].calm
             /\ l \notin S => k1[l].calm = k[l].calm
  <2>1. k[l] \in Lock /\ FALSE \in BOOLEAN
    BY <1>2, LockFields DEF LockType
  <2>2. CASE l \in S
    <3>1. k1[l] = [k[l] EXCEPT !.calm = FALSE]
      BY <1>2, <2>2 DEF Disturbed
    <3> HIDE DEF k1
    <3> QED
      BY <2>1, <2>2, <3>1 DEF SameScan, Lock
  <2>3. CASE l \notin S
    <3>1. k1[l] = k[l]
      BY <2>3 DEF Disturbed
    <3> HIDE DEF k1
    <3> QED
      BY <2>1, <2>3, <3>1 DEF SameScan
  <2> QED
    BY <2>2, <2>3
<1>3. ASSUME NEW l \in Locks PROVE k1[l] \in Lock \cup {NoLock}
  <2> HIDE DEF k1
  <2> QED
    BY <1>1, <1>2, LockFields DEF SameScan, LockType
<1>4. \E f : k1 = [l \in Locks |-> f[l]]
  <2>1. k1 = [l \in Locks |-> k1[l]]
    BY DEF Disturbed
  <2> QED
    BY <2>1
<1> HIDE DEF k1
<1>5. k1 \in LockType
  BY <1>3, <1>4 DEF LockType
<1>6. /\ k1 \in LockType /\ \A l \in Locks : ~k[l].held => k1[l] = k[l]
      /\ \A l \in Locks : k[l].held =>
           /\ SameScan(k[l], k1[l]) /\ k1[l].next = k[l].next /\ k1[l].due = k[l].due
           /\ l \in S => ~k1[l].calm
           /\ l \notin S => k1[l].calm = k[l].calm
  BY <1>1, <1>2, <1>5
<1> QED
  BY <1>6 DEF k1

\* The locks k1 are the locks k, with other scans.
SameHolders(k, k1) ==
  /\ k1 \in LockType /\ \A l \in Locks : ~k[l].held => k1[l] = k[l]
  /\ \A l \in Locks : k[l].held => SameScan(k[l], k1[l])

\* Locks with other scans are on their nodes.
LEMMA HoldersKept ==
  ASSUME NEW k, NEW k1, SameHolders(k, k1)
  PROVE  SameLocks(k, k1) /\ \A l \in Locks : k[l].held <=> k1[l].held
<1>1. ASSUME NEW l \in Locks PROVE k1[l].held <=> k[l].held
  <2>1. CASE k[l].held
    <3>1. k1[l] \in Lock
      BY <2>1 DEF SameHolders, SameScan
    <3>2. k1[l].held = TRUE
      BY <3>1 DEF Lock
    <3> QED
      BY <2>1, <3>2
  <2>2. CASE ~k[l].held
    BY <2>2 DEF SameHolders
  <2> QED
    BY <2>1, <2>2
<1> QED
  BY <1>1 DEF SameLocks, SameHolders, SameScan, LockType

\* The scans when an entry of d has been deleted, and when that was refused.
LEMMA DeletedScans ==
  ASSUME "novolume" \notin Allow, NodesInv, NEW d \in All, NEW n \in Objects, In(list[d], n),
         \A l \in Locks : lock[l].held => lock[l].node # n
  PROVE  /\ SameHolders(lock, Forget(ScanSkipNode(n), n))
         /\ ScansOf(Forget(ScanSkipNode(n), n), Detached(list, d, n))
         /\ LET k1 == Disturbed(ScanSkipNode(n), {l \in Locks : lock[l].held /\ lock[l].next = n})
            IN  SameHolders(lock, k1) /\ ScansOf(k1, list)
<1> DEFINE skip == ScanSkipNode(n)
           gone == Forget(skip, n)
           on == {l \in Locks : lock[l].held /\ lock[l].next = n}
           still == Disturbed(skip, on)
           s == list[d]
<1>1. /\ TreeOf(node, list) /\ RefsOf(node, lock, opens) /\ ScansOf(lock, list)
      /\ lock \in LockType /\ list \in [All -> Seq(Objects)]
  BY DEF NodesInv, RefsOf, TreeOf, TreeType, LockType
<1>2. s \in Seq(Objects) /\ Distinct(s) /\ Len(s) \in Nat /\ \A j \in 1..Len(s) : s[j] \in Objects
  BY <1>1, NamesMeans, LenProperties, ElementOfSeq DEF TreeOf
<1>3. PICK i \in 1..Len(s) : s[i] = n
  BY DEF In
<1>4. After(n) = Behind(s, i) /\ After(n) \in Objects \cup {None}
  <2>1. After(n) = Behind(s, i)
    BY <1>1, <1>3, AfterEffect
  <2> QED
    BY <1>2, <2>1 DEF Behind
<1>5. /\ skip \in LockType
      /\ \A l \in Locks : ~lock[l].held => skip[l] = lock[l]
      /\ \A l \in Locks : lock[l].held =>
           /\ SameScan(lock[l], skip[l])
           /\ skip[l].calm = lock[l].calm /\ skip[l].due = lock[l].due
           /\ skip[l].next = IF lock[l].next = n THEN Behind(s, i) ELSE lock[l].next
  BY <1>1, <1>4, SkipEffect
<1> HIDE DEF skip
<1>6. SameHolders(lock, skip) /\ \A l \in Locks : lock[l].held <=> skip[l].held
  <2>1. SameHolders(lock, skip)
    BY <1>5 DEF SameHolders
  <2> QED
    BY <2>1, HoldersKept
<1>7. /\ gone \in LockType
      /\ \A l \in Locks : ~lock[l].held => gone[l] = lock[l]
      /\ \A l \in Locks : lock[l].held =>
           /\ SameScan(lock[l], gone[l])
           /\ gone[l].calm = lock[l].calm /\ gone[l].due = lock[l].due \ {n}
           /\ gone[l].next = IF lock[l].next = n THEN Behind(s, i) ELSE lock[l].next
  <2>1. /\ gone \in LockType
        /\ \A l \in Locks : ~skip[l].held => gone[l] = skip[l]
        /\ \A l \in Locks : skip[l].held =>
             /\ SameScan(skip[l], gone[l])
             /\ gone[l].calm = skip[l].calm /\ gone[l].next = skip[l].next
             /\ gone[l].due = skip[l].due \ {n}
    BY <1>5, ForgetEffect
  <2> HIDE DEF gone
  <2> QED
    BY <1>5, <1>6, <2>1 DEF SameScan
<1>8. /\ still \in LockType
      /\ \A l \in Locks : ~lock[l].held => still[l] = lock[l]
      /\ \A l \in Locks : lock[l].held =>
           /\ SameScan(lock[l], still[l]) /\ still[l].due = lock[l].due
           /\ l \in on => ~still[l].calm
           /\ l \notin on => still[l].calm = lock[l].calm
           /\ still[l].next = IF lock[l].next = n THEN Behind(s, i) ELSE lock[l].next
  <2>1. /\ still \in LockType
        /\ \A l \in Locks : ~skip[l].held => still[l] = skip[l]
        /\ \A l \in Locks : skip[l].held =>
             /\ SameScan(skip[l], still[l])
             /\ still[l].next = skip[l].next /\ still[l].due = skip[l].due
             /\ l \in on => ~still[l].calm
             /\ l \notin on => still[l].calm = skip[l].calm
    <3> HIDE DEF on
    <3> QED
      BY <1>5, DisturbedEffect
  <2> HIDE DEF still, on
  <2> QED
    BY <1>5, <1>6, <2>1 DEF SameScan
<1> HIDE DEF gone, still
<1>9. SameHolders(lock, gone) /\ SameHolders(lock, still)
  BY <1>7, <1>8 DEF SameHolders
<1>10. Detached(list, d, n)[d] = Without(s, n) /\ \A e \in All : e # d => Detached(list, d, n)[e] = list[e]
  BY <1>1 DEF Detached
<1>11. ASSUME NEW l \in Locks, gone[l].held
       PROVE  ScanOf(gone[l], Detached(list, d, n)[gone[l].node])
  <2> DEFINE k == lock[l]
             e == k.node
  <2>1. k.held
    BY <1>7, <1>11
  <2>2. k \in Lock /\ e \in All /\ ScanOf(k, list[e]) /\ gone[l].node = e
    BY <1>1, <1>7, <2>1, LockFields DEF ScansOf, LockType, SameScan
  <2>3. /\ gone[l] \in Lock /\ gone[l].index = k.index /\ gone[l].key = k.key /\ gone[l].end = k.end
        /\ gone[l].calm = k.calm /\ gone[l].due = k.due \ {n}
        /\ gone[l].next = IF k.next = n THEN Behind(s, i) ELSE k.next
    BY <1>7, <2>1 DEF SameScan
  <2>4. CASE e = d
    <3>1. ScanOf(gone[l], Without(s, s[i]))
      <4> HIDE DEF k, s
      <4>1. ScanOf(k, s)
        BY <2>2, <2>4 DEF s
      <4> QED
        BY <1>2, <1>3, <2>2, <2>3, <4>1, ScanDeleted
    <3> QED
      BY <1>3, <1>10, <2>2, <2>4, <3>1
  <2>5. CASE e # d
    <3>1. ~In(list[e], n)
      BY <1>1, <2>2, <2>5 DEF TreeOf, ListsSound
    <3>2. k.next # n
      BY <2>2, <3>1, NodesAssumption DEF ScanOf
    <3>3. ScanOf(gone[l], list[e])
      BY <2>2, <2>3, <3>2, ScanForgets
    <3> QED
      BY <1>10, <2>2, <2>5, <3>3
  <2> QED
    BY <2>4, <2>5
<1>12. ASSUME NEW l \in Locks, still[l].held
       PROVE  ScanOf(still[l], list[still[l].node])
  <2> DEFINE k == lock[l]
             e == k.node
  <2>1. k.held
    BY <1>8, <1>12
  <2>2. k \in Lock /\ e \in All /\ ScanOf(k, list[e]) /\ still[l].node = e /\ k.key \in Nat
    BY <1>1, <1>8, <2>1, LockFields DEF ScansOf, LockType, SameScan
  <2>3. /\ still[l] \in Lock /\ still[l].index = k.index /\ still[l].key = k.key /\ still[l].end = k.end
        /\ still[l].due = k.due
    BY <1>8, <2>1 DEF SameScan
  <2>4. CASE k.next = n
    <3>1. ~still[l].calm /\ still[l].next = Behind(s, i)
      BY <1>8, <2>1, <2>4
    <3>2. e = d
      <4>1. In(list[e], n)
        BY <2>2, <2>4, NodesAssumption DEF ScanOf
      <4> QED
        BY <1>1, <2>2, <4>1 DEF TreeOf, ListsSound
    <3>3. still[l].next # None => In(list[e], still[l].next)
      BY <1>2, <3>1, <3>2 DEF Behind, In
    <3>4. k.index = k.key /\ k.key > 0
      BY <2>2, <2>4, NodesAssumption DEF ScanOf
    <3>5. ScanOf(still[l], list[e])
      BY <2>3, <3>1, <3>3, <3>4 DEF ScanOf
    <3> QED
      BY <2>2, <3>5
  <2>5. CASE k.next # n
    <3>1. still[l].calm = k.calm /\ still[l].next = k.next
      BY <1>8, <2>1, <2>5
    <3>2. ScanOf(still[l], list[e])
      BY <2>2, <2>3, <3>1, ScanForgets
    <3> QED
      BY <2>2, <3>2
  <2> QED
    BY <2>4, <2>5
<1> QED
  BY <1>9, <1>11, <1>12 DEF ScansOf, gone, still, skip

\* DELETE_OBJECT keeps the invariant, refused or not.
LEMMA DeleteObjectInv ==
  ASSUME "novolume" \notin Allow, NodesInv, NEW d \in Dirs, NEW x \in Names, DeleteObject(d, x)
  PROVE  NodesInv'
<1> DEFINE n == Lookup(d, x)
<1>1. /\ TreeOf(node, list) /\ RefsOf(node, lock, opens) /\ ScansOf(lock, list) /\ bug \in Stops
      /\ n # None /\ node[n].references = 0 /\ UNCHANGED <<opens, bug>>
  BY DEF NodesInv, DeleteObject
<1>2. d \in All /\ n \in Objects /\ In(list[d], n) /\ node[n].live /\ node[n].parent = d
  BY <1>1, DirsSound, LookupEffect
<1> HIDE DEF n
<1>3. \A l \in Locks : lock[l].held => lock[l].node # n
  BY <1>1, <1>2, Unreferenced
<1>4. CASE node[n].dir /\ list[n] # <<>>
  <2> DEFINE k1 == Disturbed(ScanSkipNode(n), {l \in Locks : lock[l].held /\ lock[l].next = n})
  <2>1. lock' = k1 /\ UNCHANGED <<node, list>>
    BY <1>4 DEF DeleteObject, n
  <2>2. SameHolders(lock, k1) /\ ScansOf(k1, list)
    BY <1>2, <1>3, DeletedScans
  <2> HIDE DEF k1
  <2>3. RefsOf(node, k1, opens)
    BY <1>1, <2>2, HoldersKept, ScanRefs
  <2> QED
    BY <1>1, <2>1, <2>2, <2>3 DEF NodesInv
<1>5. CASE ~(node[n].dir /\ list[n] # <<>>)
  <2> DEFINE k1 == Forget(ScanSkipNode(n), n)
  <2>1. lock' = k1 /\ Deleted(n)
    BY <1>5 DEF DeleteObject, n
  <2>2. node' = Removed(node, n) /\ list' = Detached(list, d, n)
    BY <1>2, <2>1 DEF Deleted, Removed, Detached
  <2>3. SameHolders(lock, k1) /\ ScansOf(k1, Detached(list, d, n))
    BY <1>2, <1>3, DeletedScans
  <2> HIDE DEF k1
  <2>4. \A m \in Objects : node[m].live => node[m].parent # n
    <3> SUFFICES ASSUME NEW m \in Objects, node[m].live, node[m].parent = n
                 PROVE  FALSE
      OBVIOUS
    <3>1. node[n].dir /\ In(list[n], m)
      BY <1>1, <1>2 DEF TreeOf, ParentsSound, ListsSound, All
    <3>2. list[n] # <<>>
      BY <3>1 DEF In
    <3> QED
      BY <1>5, <3>1, <3>2
  <2>5. TreeOf(node', list')
    BY <1>1, <1>2, <2>2, <2>4, RemoveTree
  <2>6. RefsOf(node', k1, opens)
    <3>1. RefsOf(node', lock, opens)
      BY <1>1, <1>2, <2>2, RemoveRefs
    <3> QED
      BY <2>3, <3>1, HoldersKept, ScanRefs
  <2> QED
    BY <1>1, <2>1, <2>2, <2>3, <2>5, <2>6 DEF NodesInv
<1> QED
  BY <1>4, <1>5

\* A rename stops the scans of all locks where they are.
LEMMA RenamedScans ==
  ASSUME "novolume" \notin Allow, lock \in LockType, ScansOf(lock, list), NEW n, NEW old, NEW ls
  PROVE  LET k == [l \in Locks |-> IF l \in Chained
                     THEN [lock[l] EXCEPT !.next = None] ELSE lock[l]]
             k1 == Disturbed(Forget(Forget(k, n), old), Locks)
         IN  SameHolders(lock, k1) /\ ScansOf(k1, ls)
<1> DEFINE k == [l \in Locks |-> IF l \in Chained
                   THEN [lock[l] EXCEPT !.next = None] ELSE lock[l]]
           f == Forget(k, n)
           g == Forget(f, old)
           k1 == Disturbed(g, Locks)
<1>1. Chained = {l \in Locks : lock[l].held}
  BY DEF Chained
<1>2. \A l \in Locks : /\ ~lock[l].held => k[l] = lock[l]
                       /\ lock[l].held => SameScan(lock[l], k[l]) /\ k[l].next = None
  <2> SUFFICES ASSUME NEW l \in Locks
               PROVE  /\ ~lock[l].held => k[l] = lock[l]
                      /\ lock[l].held => SameScan(lock[l], k[l]) /\ k[l].next = None
    OBVIOUS
  <2>1. CASE ~lock[l].held
    BY <1>1, <2>1
  <2>2. CASE lock[l].held
    <3>1. lock[l] \in Lock /\ k[l] = [lock[l] EXCEPT !.next = None]
      BY <1>1, <2>2, LockFields DEF LockType
    <3> HIDE DEF k
    <3> QED
      BY <2>2, <3>1 DEF SameScan, Lock
  <2> QED
    BY <2>1, <2>2
<1>3. k \in LockType
  <2>1. \A l \in Locks : k[l] \in Lock \cup {NoLock}
    <3> HIDE DEF k
    <3> QED
      BY <1>2, LockFields DEF SameScan, LockType
  <2>2. k = [l \in Locks |-> k[l]]
    OBVIOUS
  <2> HIDE DEF k
  <2> QED
    BY <2>1, <2>2 DEF LockType
<1> HIDE DEF k
<1>4. SameHolders(lock, k) /\ \A l \in Locks : lock[l].held <=> k[l].held
  <2>1. SameHolders(lock, k)
    BY <1>2, <1>3 DEF SameHolders
  <2> QED
    BY <2>1, HoldersKept
<1>5. /\ f \in LockType /\ \A l \in Locks : ~k[l].held => f[l] = k[l]
      /\ \A l \in Locks : k[l].held => SameScan(k[l], f[l]) /\ f[l].next = k[l].next
  BY <1>3, ForgetEffect
<1> HIDE DEF f
<1>6. \A l \in Locks : k[l].held <=> f[l].held
  <2>1. SameHolders(k, f)
    BY <1>5 DEF SameHolders
  <2> QED
    BY <2>1, HoldersKept
<1>7. /\ g \in LockType /\ \A l \in Locks : ~f[l].held => g[l] = f[l]
      /\ \A l \in Locks : f[l].held => SameScan(f[l], g[l]) /\ g[l].next = f[l].next
  BY <1>5, ForgetEffect
<1> HIDE DEF g
<1>8. \A l \in Locks : f[l].held <=> g[l].held
  <2>1. SameHolders(f, g)
    BY <1>7 DEF SameHolders
  <2> QED
    BY <2>1, HoldersKept
<1>9. /\ k1 \in LockType /\ \A l \in Locks : ~g[l].held => k1[l] = g[l]
      /\ \A l \in Locks : g[l].held => SameScan(g[l], k1[l]) /\ k1[l].next = g[l].next /\ ~k1[l].calm
  BY <1>7, DisturbedEffect
<1> HIDE DEF k1
<1>10. \A l \in Locks : /\ ~lock[l].held => k1[l] = lock[l]
                        /\ lock[l].held => /\ SameScan(lock[l], k1[l]) /\ k1[l].next = None
                                           /\ ~k1[l].calm
  BY <1>2, <1>4, <1>5, <1>6, <1>7, <1>8, <1>9 DEF SameScan
<1>11. SameHolders(lock, k1)
  BY <1>9, <1>10 DEF SameHolders
<1>12. ASSUME NEW l \in Locks, k1[l].held PROVE ScanOf(k1[l], ls[k1[l].node])
  <2>1. lock[l].held /\ ScanOf(lock[l], list[lock[l].node])
    BY <1>10, <1>12 DEF ScansOf
  <2>2. /\ k1[l].next = None /\ ~k1[l].calm
        /\ k1[l].index = lock[l].index /\ k1[l].key = lock[l].key
    BY <1>10, <2>1 DEF SameScan
  <2> QED
    BY <2>1, <2>2 DEF ScanOf
<1> QED
  BY <1>11, <1>12 DEF ScansOf, k1, g, f, k

\* A packet that stops the process leaves all as it was.
LEMMA StopInv ==
  ASSUME NodesInv, bug' \in {"cleanup", "split"}, UNCHANGED <<node, list, lock, opens>>
  PROVE  NodesInv'
BY DEF NodesInv, Stops

\* RENAME_OBJECT that moves something keeps it, with a target to replace or
\* without.
LEMMA RenameObjectInv ==
  ASSUME "novolume" \notin Allow, NodesInv, NEW d \in Dirs, NEW x \in Names, NEW e \in Dirs, NEW y \in Names,
         RenameObject(d, x, e, y), bug' = bug
  PROVE  NodesInv'
<1> DEFINE n == Lookup(d, x)
           there == Lookup(e, y)
           old == IF there = n THEN None ELSE there
           k == [l \in Locks |-> IF l \in Chained
                   THEN [lock[l] EXCEPT !.next = None] ELSE lock[l]]
           k1 == Disturbed(Forget(Forget(k, n), old), Locks)
<1>1. /\ TreeOf(node, list) /\ RefsOf(node, lock, opens) /\ ScansOf(lock, list) /\ bug \in Stops
      /\ lock \in LockType
  BY DEF NodesInv, RefsOf, LockType
<1>2. /\ n # None /\ MayMove(n, e) /\ UNCHANGED opens
      /\ old # None => node[old].references = 0 /\ Replaceable(n, old)
      /\ bug' = bug /\ Moved(n, e, y, old) /\ lock' = k1
  BY NodesAssumption DEF RenameObject, Serving
<1>3. d \in All /\ e \in All /\ node[e].live /\ node[e].dir
  BY DirsSound
<1>4. n \in Objects /\ n \in All /\ node[n].live /\ node[n].parent = d
  BY <1>1, <1>2, <1>3, LookupEffect DEF All
<1>5. old # None => /\ old \in Objects /\ In(list[e], old) /\ node[old].live
                    /\ node[old].parent = e /\ node[old].name = y /\ old # n
  BY <1>1, <1>3, LookupEffect
<1>6. \A m \in Objects : In(list[e], m) /\ m # n /\ m # old => node[m].name # y
  <2> SUFFICES ASSUME NEW m \in Objects, In(list[e], m), m # n, m # old, node[m].name = y
               PROVE  FALSE
    OBVIOUS
  <2>1. there # None /\ there \in Objects /\ In(list[e], there) /\ node[there].name = y
    BY <1>1, <1>3, LookupEffect
  <2>2. m # there
    OBVIOUS
  <2> HIDE DEF there
  <2> QED
    BY <1>1, <1>3, <2>1, <2>2, NamesMeans DEF TreeOf, NamesApart
<1> HIDE DEF n, old, there
<1>7. node[n].dir => \E U \in SUBSET All : e \in U /\ n \notin U /\ ClosedIn(node, U)
  BY <1>2, <1>4 DEF MayMove, Up, Closed, ClosedIn
<1>8. SameHolders(lock, k1) /\ \A ls : ScansOf(k1, ls)
  BY <1>1, RenamedScans
<1> HIDE DEF k1, k
<1>9. CASE old = None
  <2>1. /\ node' = [node EXCEPT ![n].parent = e, ![n].name = y]
        /\ list' = [Detached(list, node[n].parent, n) EXCEPT ![e] = Attached(@, n)]
    BY <1>2, <1>9 DEF Moved, Detached
  <2>2. \A m \in Objects : In(list[e], m) /\ m # n => node[m].name # y
    BY <1>6, <1>9, NodesAssumption
  <2>3. TreeOf(node', list')
    <3>1. TreeOf([node EXCEPT ![n].parent = e, ![n].name = y],
                 [Detached(list, node[n].parent, n) EXCEPT ![e] = Attached(@, n)])
      BY <1>1, <1>3, <1>4, <1>7, <2>2, MoveTree
    <3> QED
      BY <2>1, <3>1
  <2>4. RefsOf(node', lock, opens)
    BY <1>1, <1>4, <2>1, MoveRefs
  <2>5. RefsOf(node', k1, opens)
    BY <1>8, <2>4, HoldersKept, ScanRefs
  <2> QED
    BY <1>1, <1>2, <1>8, <2>3, <2>5 DEF NodesInv
<1>10. CASE old # None
  <2> DEFINE nd1 == Removed(node, old)
             ls1 == Detached(list, e, old)
  <2>1. /\ node' = [nd1 EXCEPT ![n].parent = e, ![n].name = y]
        /\ list' = [Detached(ls1, node[n].parent, n) EXCEPT ![e] = Attached(@, n)]
    BY <1>2, <1>5, <1>10 DEF Moved, Detached, Removed
  <2>2. /\ old \in Objects /\ old \in All /\ old # n /\ node[old].live /\ node[old].parent = e
        /\ node[old].references = 0 /\ list[old] = <<>> /\ node[old].name = y /\ In(list[e], old)
    BY <1>2, <1>5, <1>10 DEF Replaceable, All
  <2>3. \A m \in Objects : node[m].live => node[m].parent # old
    <3>1. \A m : ~In(list[old], m)
      BY <2>2 DEF In
    <3> QED
      BY <1>1, <2>2, <3>1 DEF TreeOf, ListsSound
  <2>4. TreeOf(nd1, ls1) /\ RefsOf(nd1, lock, opens)
    BY <1>1, <2>2, <2>3, RemoveTree, RemoveRefs
  <2>5. e # old
    BY <2>2, <2>3
  <2>6. ~nd1[old].live /\ \A m \in All : m # old => nd1[m] = node[m]
    BY <1>1, <2>2 DEF TreeOf, TreeType, Removed, Freed
  <2>7. \A m : In(ls1[e], m) <=> In(list[e], m) /\ m # old
    <3>1. list \in [All -> Seq(Objects)] /\ Distinct(list[e])
      BY <1>1, <1>3, NamesMeans DEF TreeOf, TreeType
    <3>2. ls1[e] = Without(list[e], old)
      BY <1>3, <3>1 DEF Detached
    <3> QED
      BY <1>3, <2>2, <3>1, <3>2, WithoutHas
  <2> HIDE DEF nd1, ls1
  <2>8. nd1[n].live /\ nd1[n].parent = node[n].parent /\ nd1[e].live /\ nd1[e].dir /\ nd1[n] = node[n]
    BY <1>3, <1>4, <2>2, <2>5, <2>6
  <2>9. \A m \in Objects : In(ls1[e], m) /\ m # n => nd1[m].name # y
    BY <1>6, <2>6, <2>7 DEF All
  <2>10. nd1[n].dir => \E U \in SUBSET All : e \in U /\ n \notin U /\ ClosedIn(nd1, U)
    <3> SUFFICES ASSUME node[n].dir
                 PROVE  \E U \in SUBSET All : e \in U /\ n \notin U /\ ClosedIn(nd1, U)
      BY <2>8
    <3>1. PICK U \in SUBSET All : e \in U /\ n \notin U /\ ClosedIn(node, U)
      BY <1>7
    <3>2. ClosedIn(nd1, U)
      BY <2>6, <3>1 DEF ClosedIn
    <3> QED
      BY <3>1, <3>2
  <2>11. TreeOf(node', list')
    <3>1. TreeOf([nd1 EXCEPT ![n].parent = e, ![n].name = y],
                 [Detached(ls1, nd1[n].parent, n) EXCEPT ![e] = Attached(@, n)])
      BY <1>3, <1>4, <2>4, <2>8, <2>9, <2>10, MoveTree
    <3> QED
      BY <2>1, <2>8, <3>1
  <2>12. RefsOf(node', lock, opens)
    BY <1>4, <2>1, <2>4, <2>8, MoveRefs
  <2>13. RefsOf(node', k1, opens)
    BY <1>8, <2>12, HoldersKept, ScanRefs
  <2> QED
    BY <1>1, <1>2, <1>8, <2>11, <2>13 DEF NodesInv
<1> QED
  BY <1>9, <1>10

-----------------------------------------------------------------------------
(* The theorems *)

\* It holds when the volume has been mounted.
LEMMA InitNodesInv == Init => NodesInv
<1> SUFFICES ASSUME Init PROVE NodesInv
  OBVIOUS
<1>1. /\ Root \in All /\ Root \notin Objects /\ \A n \in Objects : n \in All /\ n # Root
  BY NodesAssumption DEF All
<1> DEFINE r == [live |-> TRUE, dir |-> TRUE, parent |-> None, name |-> None, references |-> 0]
<1>2. r \in Node /\ r.live /\ r.dir /\ r.parent = None /\ r.references = 0
  BY DEF Node
<1>3. /\ node = [n \in All |-> IF n # Root THEN Freed ELSE r]
      /\ list = [n \in All |-> <<>>] /\ lock = [l \in Locks |-> NoLock]
      /\ opens = [n \in Objects |-> 0] /\ bug \in Stops
  BY DEF Init, Stops
<1> HIDE DEF r
<1>4. node[Root] = r /\ \A n \in Objects : node[n] = Freed
  BY <1>1, <1>3
<1>5. ~Freed.live /\ ~NoLock.held
  BY DEF Freed, NoLock
<1>6. TreeType(node, list)
  BY <1>2, <1>3 DEF TreeType
<1>7. RootSound(node) /\ ParentsSound(node) /\ Rooted(node)
  BY <1>2, <1>4, <1>5 DEF RootSound, ParentsSound, Rooted
<1>8. \A d \in All : list[d] = <<>> /\ Len(list[d]) = 0
  BY <1>3
<1>9. ListsSound(node, list) /\ NamesDiffer(node, list)
  BY <1>4, <1>5, <1>8 DEF ListsSound, NamesDiffer, In
<1>10. \A l \in Locks : lock[l] = NoLock
  BY <1>3
<1>11. Balanced(node, lock, opens)
  <2> SUFFICES ASSUME NEW n \in All, node[n].live
               PROVE  node[n].references = Cardinality(HoldersIn(lock, n)) + Extra(opens, n)
    BY DEF Balanced
  <2>1. n = Root
    BY <1>4, <1>5 DEF All
  <2>2. HoldersIn(lock, n) = {}
    BY <1>5, <1>10 DEF HoldersIn
  <2>3. Cardinality(HoldersIn(lock, n)) = 0 /\ Extra(opens, n) = 0
    BY <2>1, <2>2, FS_EmptySet DEF Extra
  <2> QED
    BY <1>2, <1>4, <2>1, <2>3
<1>12. RefsOf(node, lock, opens)
  <2>1. lock \in [Locks -> Lock \cup {NoLock}] /\ opens \in [Objects -> Nat]
    BY <1>3
  <2>2. \A n \in Objects : opens[n] = 0
    BY <1>3
  <2> QED
    BY <1>5, <1>10, <1>11, <2>1, <2>2 DEF RefsOf
<1>13. ScansOf(lock, list)
  BY <1>5, <1>10 DEF ScansOf
<1> QED
  BY <1>3, <1>6, <1>7, <1>9, <1>12, <1>13 DEF NodesInv, TreeOf

\* A rename that does not stop the process is not of the root, nor to its path:
\* every directory is below the root.
LEMMA RenameMoves ==
  ASSUME NodesInv, NEW d \in All, NEW x, NEW e \in Dirs \cup {Root}, NEW y,
         RenameObject(d, x, e, y), bug' = bug
  PROVE  x # None /\ y # None
<1>1. /\ y # None
      /\ x = None => MayMove(Root, e)
  BY DEF RenameObject, Serving
<1>2. Root \in Up(e) /\ node[Root].dir
  <2>1. node[Root].dir /\ Root \in All
    BY DEF NodesInv, TreeOf, RootSound, All
  <2>2. CASE e \in Dirs
    BY <2>1, <2>2 DEF Dirs, InTree
  <2>3. CASE e = Root
    BY <2>1, <2>3 DEF Up
  <2> QED
    BY <2>1, <2>2, <2>3
<1> QED
  BY <1>1, <1>2 DEF MayMove

\* Every packet keeps the invariant.
LEMMA NextNodesInv ==
  ASSUME "novolume" \notin Allow, NodesInv, [Next]_vars
  PROVE  NodesInv'
<1>1. ASSUME UNCHANGED vars PROVE NodesInv'
  BY <1>1 DEF vars, NodesInv
<1>2. ASSUME NEW l \in Locks, NEW n \in All, LocateObject(l, n) PROVE NodesInv'
  BY <1>2, LocateObjectInv
<1>3. ASSUME NEW l \in Locks, NEW m \in Locks \cup {None}, CopyDir(l, m) PROVE NodesInv'
  BY <1>3, CopyDirInv
<1>4. ASSUME NEW l \in Locks, NEW m \in Locks, Parent(l, m) PROVE NodesInv'
  BY <1>4, ParentInv
<1>5. ASSUME NEW l \in Locks, NEW n \in Objects, NEW p \in BOOLEAN, LockFromFh(l, n, p)
      PROVE  NodesInv'
  BY <1>5, LockFromFhInv
<1>6. ASSUME NEW l \in Locks, FreeLock(l) \/ FhFromLock(l) PROVE NodesInv'
  BY <1>6, FreeLockInv, FhFromLockInv
<1>7. ASSUME NEW l \in Scanners, ExamineObject(l) \/ ExamineNext(l) PROVE NodesInv'
  <2>1. l \in Locks
    BY NodesAssumption
  <2> QED
    BY <1>7, <2>1, ExamineObjectInv, ExamineNextInv
<1>8. ASSUME NEW n \in Objects, End(n) PROVE NodesInv'
  BY <1>8, EndInv
<1>9. ASSUME NextPath PROVE NodesInv'
  <2>1. ASSUME NEW d \in Dirs, NEW x \in Names, OpenOld(d, x) \/ DeleteObject(d, x)
        PROVE  NodesInv'
    BY <2>1, OpenOldInv, DeleteObjectInv
  <2>2. ASSUME NEW d \in Dirs, NEW x \in Names, NEW n \in Objects, OpenNew(d, x, n)
        PROVE  NodesInv'
    BY <2>2, OpenNewInv
  <2> DEFINE paths == Dirs \X Names
             all == paths \cup {<<Root, None>>}
  <2>3. ASSUME NEW p \in all, NEW q \in all, RenameObject(p[1], p[2], q[1], q[2])
        PROVE  NodesInv'
    <3>1. CASE bug' # bug
      BY <2>3, <3>1, StopInv DEF RenameObject
    <3>2. CASE bug' = bug
      <4>1. p[2] # None /\ q[2] # None
        <5>1. p[1] \in All /\ q[1] \in Dirs \cup {Root}
          BY DEF Dirs, All
        <5> QED
          BY <2>3, <3>2, <5>1, RenameMoves
      <4>2. p \in paths /\ q \in paths
        BY <4>1
      <4> QED
        BY <2>3, <3>2, <4>2, RenameObjectInv
    <3> QED
      BY <3>1, <3>2
  <2>4. ASSUME NEW p \in all, NEW l \in Locks, NEW n \in Objects, CreateDir(l, p[1], p[2], n)
        PROVE  NodesInv'
    <3>1. CASE p[2] = None
      BY <2>4, <3>1, StopInv DEF CreateDir
    <3>2. CASE p[2] # None
      <4>1. p \in paths
        BY <3>2
      <4> QED
        BY <2>4, <4>1, CreateDirInv
    <3> QED
      BY <3>1, <3>2
  <2> QED
    BY <1>9, <2>1, <2>2, <2>3, <2>4 DEF NextPath
<1> QED
  BY <1>1, <1>2, <1>3, <1>4, <1>5, <1>6, <1>7, <1>8, <1>9 DEF Next

\* It holds always.
LEMMA NodesInvHolds ==
  ASSUME "novolume" \notin Allow
  PROVE  Spec => []NodesInv
BY InitNodesInv, NextNodesInv, PTL DEF Spec

\* What the invariant means for the properties.
LEMMA NodesInvMeans ==
  ASSUME NodesInv
  PROVE  TypeOK /\ RefsSound /\ TreeHolds /\ ScanNotDangling /\ ScanComplete
<1>1. /\ TreeOf(node, list) /\ RefsOf(node, lock, opens) /\ ScansOf(lock, list) /\ bug \in Stops
      /\ lock \in [Locks -> Lock \cup {NoLock}] /\ Objects \subseteq All
  BY DEF NodesInv, RefsOf, All
<1>2. TypeOK
  BY <1>1 DEF TreeOf, TreeType, RefsOf, TypeOK, Stops
<1>3. RefsSound
  BY <1>1 DEF RefsOf, Balanced, HoldersIn, Extra, RefsSound, RefsBalanced, Stops
<1>4. TreeSane
  <2>1. \A d \in All, n \in Objects : (n \in Entries(d)) <=> (node[n].live /\ node[n].parent = d)
    BY <1>1, EntriesHas DEF TreeOf, ListsSound
  <2>2. \A d \in All : \A i, j \in 1..Len(list[d]) :
          i # j => node[list[d][i]].name # node[list[d][j]].name
    BY <1>1 DEF TreeOf, NamesDiffer
  <2>3. \A n \in Objects : node[n].live => InTree(n)
    BY <1>1, LiveInTree
  <2> QED
    BY <2>1, <2>2, <2>3 DEF TreeSane
<1>5. HeldInTree
  <2>1. ASSUME NEW l \in Locks, lock[l].held PROVE InTree(lock[l].node)
    BY <1>1, <2>1, LockFields, LiveInTree DEF RefsOf
  <2>2. ASSUME NEW n \in Objects, opens[n] > 0 PROVE InTree(n)
    BY <1>1, <2>2, LiveInTree DEF RefsOf
  <2> QED
    BY <2>1, <2>2 DEF HeldInTree
<1>6. ScanNotDangling
  <2> SUFFICES ASSUME NEW l \in Locks, lock[l].held, lock[l].next # None
               PROVE  lock[l].next \in Entries(lock[l].node)
    BY DEF ScanNotDangling
  <2>1. lock[l].node \in All /\ ScanOf(lock[l], list[lock[l].node])
    BY <1>1, LockFields DEF ScansOf
  <2>2. In(list[lock[l].node], lock[l].next)
    BY <2>1 DEF ScanOf
  <2> QED
    BY <1>1, <2>1, <2>2, EntriesHas
<1>7. ScanComplete
  BY <1>1 DEF ScansOf, ScanOf, ScanComplete
<1> QED
  BY <1>2, <1>3, <1>4, <1>5, <1>6, <1>7 DEF TreeHolds

\* Counters, lists and pointers of nodes, locks and files keep their types.
THEOREM TypeCorrect ==
  ASSUME "novolume" \notin Allow
  PROVE  Spec => []TypeOK
BY NodesInvHolds, NodesInvMeans, PTL

\* A node's count of references is the number of locks on it and of files open
\* on it, after any packets, up to one that stops the process in one of the two
\* other checks, and exfat_put_node() never finds it at 0; all locks are on the
\* volume's list (add_volume() has not failed).
THEOREM RefsSoundHolds ==
  ASSUME "novolume" \notin Allow
  PROVE  Spec => []RefsSound
BY NodesInvHolds, NodesInvMeans, PTL

\* The cached nodes are a tree after any packets, with lists that have every
\* child once and names that differ, and all that locks and open files refer to
\* is reached from the root.
THEOREM TreeHoldsAlways ==
  ASSUME "novolume" \notin Allow
  PROVE  Spec => []TreeHolds
BY NodesInvHolds, NodesInvMeans, PTL

\* The pointer that EXAMINE_NEXT follows is an entry of the scanned directory,
\* whatever others have created, deleted or moved since the last call.
THEOREM ScanNotDanglingHolds ==
  ASSUME "novolume" \notin Allow
  PROVE  Spec => []ScanNotDangling
BY NodesInvHolds, NodesInvMeans, PTL

\* A scan that no rename and no refused delete came between has returned all
\* that was in the directory from beginning to end.
THEOREM ScanCompleteHolds ==
  ASSUME "novolume" \notin Allow
  PROVE  Spec => []ScanComplete
BY NodesInvHolds, NodesInvMeans, PTL

=============================================================================
