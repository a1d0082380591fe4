--------------------------- MODULE PartitionsProofs ---------------------------
(* Theorems about Partitions, for every number of cards, names and partitions: *)
(* partition tables are as TablesOK says, nobody uses a name of an earlier     *)
(* card, and the handler of name 0 is not ended.                               *)
EXTENDS Partitions, FiniteSetTheorems, SequenceTheorems, WellFoundedInduction, TLAPS

Apart(d, e) == d[2] < e[1] \/ e[2] < d[1]

\* Tables as a partitioning tool makes them: partitions of the card that do not
\* overlap, and behind the first one none at sector 0.
TablesOK ==
  \A c \in Cards :
    /\ Table[c] \in Seq(Extents)
    /\ \A j, k \in DOMAIN Table[c] : j < k => Apart(Table[c][j], Table[c][k]) /\ Table[c][k][1] # 0

\* The device nodes: name 0 is the whole card, any other a partition of its own.
NodesOK(nd) ==
  /\ nd \in [Names -> Extents \cup {None}] /\ nd[0] = Whole
  /\ \A i \in Names \ {0} : nd[i] # None => nd[i][1] # 0
  /\ \A i, j \in Names : nd[i] # None /\ nd[i] = nd[j] => i = j

\* What handler i, in state x, serves or will go on to serve.
ServiceOK(x, i, nd) ==
  x.st \in {"up", "parked"} =>
    /\ x.home \in Cards
    /\ i = 0 => /\ Table[x.home] # <<>> /\ x.at = Table[x.home][1]
                /\ \A a \in 1..Len(x.pub) : x.pub[a] # 0 /\ nd[x.pub[a]] \in Rest(x.home)
    /\ i # 0 => /\ x.at = nd[i] /\ nd[i] # None
                /\ nd[i] \in Rest(x.home) \/ x.by # x.home

\* The names the helper processes have yet to go through belong to the cards
\* they were started for.
JobsOK(hp, nd) ==
  \A k \in 1..MaxHelpers : \A a \in 1..Len(hp[k]) :
    /\ hp[k][a][2] # 0 /\ nd[hp[k][a][2]] # None
    /\ nd[hp[k][a][2]] \in Rest(hp[k][a][3])

\* The mounter inhibits every handler before another card is let in.
SlotOK(c, mt, hs) ==
  /\ c = NoCard <=> mt \in {"gone", "parked"}
  /\ \A i \in Names : hs[i].st = "up" => (hs[i].home = c /\ mt # "parked") \/ mt = "gone"

PartsInv ==
  /\ TypeOK
  /\ NodesOK(node)
  /\ \A i \in Names : ServiceOK(h[i], i, node)
  /\ JobsOK(helper, node)
  /\ SlotOK(slot, mounter, h)
  /\ h[0].st = "down" => \A i \in Names \ {0} : node[i] = None

-----------------------------------------------------------------------------
(* Numbers and folds *)

\* A set of natural numbers has a least one.
LEMMA LeastNumber ==
  ASSUME NEW S \in SUBSET Nat, S # {}
  PROVE  \E m \in S : \A k \in S : m <= k
<1> DEFINE Less == {p \in Nat \X Nat : p[1] < p[2]}
<1>1. OpToRel(<, Nat) = Less
  BY Zenon DEF OpToRel
<1>2. \E m \in S : \A k \in S : <<k, m>> \notin Less
  BY <1>1, NatLessThanWellFounded, WFMin
<1>3. \A k, m \in Nat : <<k, m>> \notin Less => m <= k
  OBVIOUS
<1> HIDE DEF Less
<1> QED
  BY <1>2, <1>3

\* Min of a set of natural numbers is its least one.
LEMMA MinIsLeast ==
  ASSUME NEW S \in SUBSET Nat, S # {}
  PROVE  Min(S) \in S /\ \A k \in S : Min(S) <= k
  BY LeastNumber DEF Min

\* Max of a set of numbers from 1 to n is its greatest one.
LEMMA MaxIsGreatest ==
  ASSUME NEW n \in Nat, NEW S \in SUBSET (1..n), S # {}
  PROVE  Max(S) \in S /\ \A k \in S : k <= Max(S)
<1> DEFINE B == {b \in Nat : \A k \in S : k <= b}
<1>1. B \in SUBSET Nat /\ n \in B
  OBVIOUS
<1>2. PICK b \in B : \A k \in B : b <= k
  <2> HIDE DEF B
  <2> QED
    BY <1>1, LeastNumber
<1>3. b \in S
  <2> SUFFICES ASSUME b \notin S PROVE FALSE
    OBVIOUS
  <2>1. PICK x \in S : TRUE
    OBVIOUS
  <2>2. b \in Nat /\ \A k \in S : k <= b /\ k # b /\ k \in Nat /\ k > 0
    OBVIOUS
  <2>3. b - 1 \in Nat /\ \A k \in S : k <= b - 1
    BY <2>1, <2>2
  <2>4. b - 1 \in B
    BY <2>3
  <2> QED
    BY <1>2, <2>2, <2>4
<1>4. \E x \in S : \A y \in S : x >= y
  BY <1>3
<1> QED
  BY <1>4 DEF Max

\* One step of the fold over the partitions in q.
Folded(n, q, b, w, s) ==
  IF s = {} THEN n ELSE Publish(w[s \ {Max(s)}], q[Max(s)], b)

\* The fold is defined for every number of partitions.
LEMMA FoldExists ==
  ASSUME NEW n, NEW q, NEW b, NEW l \in Nat
  PROVE  \E w : w = [s \in SUBSET (1..l) |-> Folded(n, q, b, w, s)]
<1> DEFINE S == {m \in Nat : ~\E w : w = [s \in SUBSET (1..m) |-> Folded(n, q, b, w, s)]}
<1> SUFFICES ASSUME S # {} PROVE FALSE
  OBVIOUS
<1>1. PICK m \in S : \A k \in S : m <= k
  <2>1. S \in SUBSET Nat
    OBVIOUS
  <2> HIDE DEF S
  <2> QED
    BY <2>1, LeastNumber
<1>2. m \in Nat /\ ~\E w : w = [s \in SUBSET (1..m) |-> Folded(n, q, b, w, s)]
  OBVIOUS
<1>3. CASE m = 0
  <2> DEFINE w == [s \in SUBSET (1..0) |-> n]
  <2>1. \A s \in SUBSET (1..0) : s = {}
    OBVIOUS
  <2>2. \A s \in SUBSET (1..0) : Folded(n, q, b, w, s) = n
    BY <2>1 DEF Folded
  <2>3. w = [s \in SUBSET (1..0) |-> Folded(n, q, b, w, s)]
    BY <2>2
  <2> QED
    BY <1>2, <1>3, <2>3
<1>4. CASE m # 0
  <2>1. m - 1 \in Nat /\ m - 1 \notin S
    <3> HIDE DEF S
    <3> QED
      BY <1>1, <1>2, <1>4
  <2>2. PICK w : w = [s \in SUBSET (1..(m - 1)) |-> Folded(n, q, b, w, s)]
    BY <2>1
  <2>3. \A s \in SUBSET (1..(m - 1)) : w[s] = Folded(n, q, b, w, s)
    BY <2>2
  <2> DEFINE v == [s \in SUBSET (1..m) |-> Folded(n, q, b, w, s)]
  <2>4. \A s \in SUBSET (1..m) : v[s] = Folded(n, q, b, v, s)
    <3> SUFFICES ASSUME NEW s \in SUBSET (1..m), s # {} PROVE v[s] = Folded(n, q, b, v, s)
      BY DEF Folded
    <3> DEFINE r == s \ {Max(s)}
    <3>1. Max(s) \in s /\ \A k \in s : k <= Max(s)
      BY <1>2, MaxIsGreatest
    <3>2. \A k \in r : k \in 1..(m - 1)
      <4> SUFFICES ASSUME NEW k \in r PROVE k \in 1..(m - 1)
        OBVIOUS
      <4>1. k \in 1..m /\ Max(s) \in 1..m /\ k <= Max(s) /\ k # Max(s)
        BY <3>1
      <4> QED
        BY <4>1, <1>2
    <3>3. r \in SUBSET (1..(m - 1)) /\ r \in SUBSET (1..m)
      BY <3>2
    <3> HIDE DEF r
    <3>4. v[r] = w[r]
      BY <2>3, <3>3
    <3>5. v[s] = Folded(n, q, b, w, s)
      OBVIOUS
    <3> HIDE DEF v
    <3> QED
      BY <3>4, <3>5 DEF Folded, r
  <2>5. v = [s \in SUBSET (1..m) |-> v[s]]
    OBVIOUS
  <2> HIDE DEF v
  <2>6. v = [s \in SUBSET (1..m) |-> Folded(n, q, b, v, s)]
    BY <2>4, <2>5
  <2> QED
    BY <1>2, <2>6
<1> QED
  BY <1>3, <1>4

\* The partitions in q are published one after the other.
PublishEach(n, q, b) == FoldLeft(LAMBDA m, part : Publish(m, part, b), n, q)

\* g has what this comes to after each of them.
PublishSteps(n, q, b, l) ==
  \E g : /\ g[0] = n
         /\ \A j \in 1..l : g[j] = Publish(g[j - 1], q[j], b)
         /\ PublishEach(n, q, b) = g[l]

\* What the fold over the partitions in q is after each of them.
LEMMA FoldSteps ==
  ASSUME NEW n, NEW q, NEW b, NEW l \in Nat, DOMAIN q = 1..l
  PROVE  PublishSteps(n, q, b, l)
<1> DEFINE w == CHOOSE w : w = [s \in SUBSET DOMAIN q |-> Folded(n, q, b, w, s)]
           g == [j \in 0..l |-> w[1..j]]
<1>1. PublishEach(n, q, b) = w[DOMAIN q]
  BY DEF PublishEach, FoldLeft, MapThenFoldSet, Folded
<1>2. w = [s \in SUBSET (1..l) |-> Folded(n, q, b, w, s)]
  BY FoldExists
<1> HIDE DEF w
<1>3. \A s \in SUBSET (1..l) : w[s] = Folded(n, q, b, w, s)
  BY <1>2
<1>4. g[0] = n
  <2>1. 1..0 = {} /\ {} \in SUBSET (1..l)
    OBVIOUS
  <2>2. w[{}] = n
    BY <1>3, <2>1 DEF Folded
  <2>3. 0 \in 0..l /\ g[0] = w[1..0]
    OBVIOUS
  <2> QED
    BY <2>1, <2>2, <2>3
<1>5. ASSUME NEW j \in 1..l PROVE g[j] = Publish(g[j - 1], q[j], b)
  <2>1. 1..j \in SUBSET (1..l) /\ 1..j # {} /\ j \in Nat /\ j \in 1..j
    OBVIOUS
  <2>2. Max(1..j) = j
    <3>1. Max(1..j) \in 1..j /\ \A k \in 1..j : k <= Max(1..j)
      BY <2>1, MaxIsGreatest
    <3> QED
      BY <2>1, <3>1
  <2>3. (1..j) \ {j} = 1..(j - 1)
    BY <2>1
  <2>4. w[1..j] = Publish(w[1..(j - 1)], q[j], b)
    BY <1>3, <2>1, <2>2, <2>3 DEF Folded
  <2> QED
    BY <2>4
<1>6. w[DOMAIN q] = g[l]
  OBVIOUS
<1> HIDE DEF g
<1> QED
  BY <1>1, <1>4, <1>5, <1>6 DEF PublishSteps

-----------------------------------------------------------------------------
(* Scanning a card *)

\* What resolve_extent() works on.
ScanType ==
  [node: [Names -> Extents \cup {None}], next: Nat, pub: Seq(Names),
   ok: BOOLEAN, at: Extents \cup {None}]

\* The scan has found the nodes nd, and published the partitions in S.
ScanOK(m, nd, S) ==
  /\ NodesOK(m.node)
  /\ \A i \in Names : nd[i] # None => m.node[i] = nd[i]
  /\ \A i \in Names : m.node[i] # None => nd[i] = m.node[i] \/ m.node[i] \in S
  /\ \A a \in 1..Len(m.pub) : m.pub[a] # 0 /\ m.node[m.pub[a]] \in S

\* The bounds.
LEMMA Bounds ==
  /\ MaxName \in Nat /\ MaxPartitions \in Nat /\ MaxHelpers \in Nat /\ Size \in Nat /\ Size > 0
  /\ NoCard \notin Cards /\ None \notin Extents
  /\ 0 \in Names /\ Names \subseteq Nat
  /\ Whole \in Extents /\ Whole[1] = 0
  BY CardsAssumption DEF Names, Whole, Extents, Sectors

\* A name is put into the list of those published, if there is room for it.
LEMMA NamedOK ==
  ASSUME NEW m \in ScanType, NEW nd, NEW S, ScanOK(m, nd, S),
         NEW i \in Names \ {0}, m.node[i] \in S
  PROVE  Named(m, i) \in ScanType /\ ScanOK(Named(m, i), nd, S)
<1> DEFINE p == IF Len(m.pub) < MaxPartitions THEN Append(m.pub, i) ELSE m.pub
<1>1. Named(m, i) = [m EXCEPT !.pub = p]
  BY DEF Named
<1>2. p \in Seq(Names)
  BY DEF ScanType
<1>3. \A a \in 1..Len(p) : p[a] # 0 /\ m.node[p[a]] \in S
  <2>1. m.pub \in Seq(Names)
    BY DEF ScanType
  <2>2. \A a \in 1..Len(m.pub) : m.pub[a] # 0 /\ m.node[m.pub[a]] \in S
    BY DEF ScanOK
  <2> QED
    BY <2>1, <2>2
<1> HIDE DEF p
<1>4. Named(m, i) \in ScanType /\ Named(m, i).node = m.node /\ Named(m, i).pub = p
  BY <1>1, <1>2 DEF ScanType
<1> QED
  BY <1>3, <1>4 DEF ScanOK

\* A partition is published once: with the node it has, or with a new one.
LEMMA PublishOK ==
  ASSUME NEW m \in ScanType, NEW nd, NEW S, ScanOK(m, nd, S),
         NEW part \in Extents, part[1] # 0, NEW b \in BOOLEAN,
         b \/ \A i \in Names : m.node[i] # part
  PROVE  Publish(m, part, b) \in ScanType /\ ScanOK(Publish(m, part, b), nd, S \cup {part})
<1> DEFINE T == S \cup {part}
           P == Publish(m, part, b)
<1>1. ScanOK(m, nd, T)
  BY DEF ScanOK
<1>2. m.node \in [Names -> Extents \cup {None}] /\ m.next \in Nat
  BY DEF ScanType
<1>3. CASE b /\ Siblings(m, part) # {}
  <2>1. Siblings(m, part) \in SUBSET Nat
    BY Bounds DEF Siblings
  <2>2. Min(Siblings(m, part)) \in Siblings(m, part)
    BY <1>3, <2>1, MinIsLeast
  <2>3. Min(Siblings(m, part)) \in Names \ {0} /\ m.node[Min(Siblings(m, part))] \in T
    BY <2>2 DEF Siblings
  <2>4. P = Named(m, Min(Siblings(m, part)))
    BY <1>3 DEF Publish
  <2> QED
    BY <1>1, <2>3, <2>4, NamedOK
<1>4. CASE ~(b /\ Siblings(m, part) # {}) /\ FreeNames(m) = {}
  <2>1. P = m
    BY <1>4 DEF Publish
  <2> QED
    BY <1>1, <2>1
<1>5. CASE ~(b /\ Siblings(m, part) # {}) /\ FreeNames(m) # {}
  <2> DEFINE i == Min(FreeNames(m))
             nn == [m.node EXCEPT ![i] = part]
             n == [m EXCEPT !.node[i] = part, !.next = i + 1]
  <2>1. FreeNames(m) \in SUBSET Nat
    BY <1>2, Bounds DEF FreeNames
  <2>2. i \in FreeNames(m)
    BY <1>5, <2>1, MinIsLeast
  <2>3. i \in Names /\ m.node[i] = None /\ i \in Nat
    BY <1>2, <2>2, Bounds DEF FreeNames, Names
  <2>4. P = Named(n, i)
    BY <1>5 DEF Publish
  <2> HIDE DEF i
  <2>5. nn \in [Names -> Extents \cup {None}] /\ i # 0
    <3>1. m.node[0] # None
      BY Bounds DEF ScanOK, NodesOK
    <3> QED
      BY <1>2, <2>3, <3>1
  <2>6. n \in ScanType /\ n.node = nn /\ n.pub = m.pub
    <3>1. n = [m EXCEPT !.node = nn, !.next = i + 1]
      BY DEF ScanType
    <3> HIDE DEF n, nn
    <3>2. n = [node |-> nn, next |-> i + 1, pub |-> m.pub, ok |-> m.ok, at |-> m.at]
      BY <3>1 DEF ScanType
    <3>3. m.pub \in Seq(Names) /\ m.ok \in BOOLEAN /\ m.at \in Extents \cup {None}
      BY DEF ScanType
    <3> QED
      BY <2>3, <2>5, <3>2, <3>3 DEF ScanType
  <2>7. \A j \in Names : m.node[j] # part
    <3>1. CASE b
      <4>1. \A j \in Names \ {0} : m.node[j] # part
        BY <1>5, <3>1 DEF Siblings
      <4>2. m.node[0] # part
        BY Bounds DEF ScanOK, NodesOK
      <4> QED
        BY <4>1, <4>2
    <3> QED
      BY <3>1
  <2>8. \A j \in Names : nn[j] = IF j = i THEN part ELSE m.node[j]
    BY <1>2
  <2> HIDE DEF n, nn
  <2>9. NodesOK(nn)
    BY <2>3, <2>5, <2>7, <2>8, Bounds DEF ScanOK, NodesOK
  <2>10. ScanOK(n, nd, T)
    <3>1. \A j \in Names : nd[j] # None => nn[j] = nd[j]
      BY <1>1, <2>3, <2>8 DEF ScanOK
    <3>2. \A j \in Names : nn[j] # None => nd[j] = nn[j] \/ nn[j] \in T
      BY <1>1, <2>3, <2>8 DEF ScanOK
    <3>3. \A a \in 1..Len(m.pub) : m.pub[a] # 0 /\ nn[m.pub[a]] \in T
      <4>1. m.pub \in Seq(Names)
        BY DEF ScanType
      <4>2. \A a \in 1..Len(m.pub) : m.pub[a] \in Names
        BY <4>1
      <4> QED
        BY <1>1, <2>8, <4>2 DEF ScanOK
    <3> QED
      BY <2>6, <2>9, <3>1, <3>2, <3>3 DEF ScanOK
  <2>11. n.node[i] \in T
    BY <2>3, <2>6, <2>8
  <2> QED
    BY <2>3, <2>4, <2>5, <2>6, <2>10, <2>11, NamedOK
<1> QED
  BY <1>3, <1>4, <1>5

\* The partitions in q have a node of their own each when all are published.
LEMMA PublishAll ==
  ASSUME NEW n \in ScanType, NodesOK(n.node), n.pub = <<>>, NEW q \in Seq(Extents),
         NEW b \in BOOLEAN, b \/ \A i \in Names \ {0} : n.node[i] = None,
         \A k \in 1..Len(q) : q[k][1] # 0,
         \A j, k \in 1..Len(q) : j < k => q[j] # q[k]
  PROVE  /\ PublishEach(n, q, b) \in ScanType
         /\ ScanOK(PublishEach(n, q, b), n.node,
                   {q[k] : k \in 1..Len(q)})
<1> DEFINE l == Len(q)
           F == PublishEach(n, q, b)
           Q(j) == {q[k] : k \in 1..j}
<1>1. l \in Nat /\ DOMAIN q = 1..l /\ \A k \in 1..l : q[k] \in Extents
  OBVIOUS
<1>2. PICK g : g[0] = n /\ (\A j \in 1..l : g[j] = Publish(g[j - 1], q[j], b)) /\ F = g[l]
  <2> HIDE DEF l, F, Q
  <2>1. l \in Nat /\ DOMAIN q = 1..l
    BY <1>1
  <2>2. PublishSteps(n, q, b, l)
    BY <2>1, FoldSteps, Zenon
  <2> QED
    BY <2>2, Zenon DEF F, PublishSteps
<1> HIDE DEF F, l
<1> DEFINE Good(j) == g[j] \in ScanType /\ ScanOK(g[j], n.node, Q(j))
           Bad == {j \in Nat : j <= l /\ ~Good(j)}
<1>3. Bad = {}
  <2> SUFFICES ASSUME Bad # {} PROVE FALSE
    OBVIOUS
  <2>1. PICK j \in Bad : \A k \in Bad : j <= k
    <3>1. Bad \in SUBSET Nat
      OBVIOUS
    <3> HIDE DEF Bad
    <3> QED
      BY <3>1, LeastNumber
  <2>2. j \in Nat /\ j <= l /\ ~Good(j)
    OBVIOUS
  <2>3. CASE j = 0
    <3>1. ScanOK(n, n.node, Q(0))
      BY DEF ScanOK
    <3> QED
      BY <1>2, <2>2, <2>3, <3>1
  <2>4. CASE j # 0
    <3>1. j \in 1..l /\ j - 1 \in Nat /\ j - 1 <= l
      BY <1>1, <2>2, <2>4
    <3>2. Good(j - 1)
      <4>1. j - 1 \notin Bad
        <5> HIDE DEF Bad
        <5> QED
          BY <2>1, <2>2, <3>1
      <4> HIDE DEF Good
      <4> QED
        BY <3>1, <4>1
    <3> DEFINE m == g[j - 1]
    <3>3. b \/ \A i \in Names : m.node[i] # q[j]
      <4> SUFFICES ASSUME ~b, NEW i \in Names PROVE m.node[i] # q[j]
        OBVIOUS
      <4>1. q[j][1] # 0 /\ q[j] \in Extents /\ q[j] # None /\ q[j] # Whole
        BY <1>1, <3>1, Bounds DEF l
      <4>2. \A k \in 1..(j - 1) : q[k] # q[j]
        BY <1>1, <3>1 DEF l
      <4>3. m.node[i] # None => n.node[i] = m.node[i] \/ m.node[i] \in Q(j - 1)
        BY <3>2 DEF ScanOK
      <4>4. i = 0 => m.node[i] = Whole
        BY <3>2 DEF ScanOK, NodesOK
      <4> QED
        BY <4>1, <4>2, <4>3, <4>4
    <3>4. Q(j) = Q(j - 1) \cup {q[j]}
      BY <3>1
    <3>5. g[j] = Publish(m, q[j], b)
      BY <1>2, <3>1
    <3>6. q[j] \in Extents /\ q[j][1] # 0
      BY <1>1, <3>1 DEF l
    <3>7. m \in ScanType /\ ScanOK(m, n.node, Q(j - 1))
      BY <3>2
    <3> HIDE DEF Q, m
    <3>8. Publish(m, q[j], b) \in ScanType
          /\ ScanOK(Publish(m, q[j], b), n.node, Q(j - 1) \cup {q[j]})
      BY <3>3, <3>6, <3>7, PublishOK
    <3> QED
      BY <2>2, <3>4, <3>5, <3>8
  <2> QED
    BY <2>3, <2>4
<1>4. Good(l)
  <2>1. l \notin Bad
    BY <1>3
  <2> HIDE DEF Good
  <2> QED
    BY <1>1, <2>1
<1> QED
  BY <1>2, <1>4 DEF F, l

\* The partitions behind the first one.
LEMMA RestOK ==
  ASSUME TablesOK, NEW c \in Cards, Table[c] # <<>>
  PROVE  /\ Tail(Table[c]) \in Seq(Extents) /\ Table[c][1] \in Extents
         /\ {Tail(Table[c])[k] : k \in 1..Len(Tail(Table[c]))} = Rest(c)
         /\ \A k \in 1..Len(Tail(Table[c])) : Tail(Table[c])[k][1] # 0
         /\ \A j, k \in 1..Len(Tail(Table[c])) :
              j < k => Tail(Table[c])[j] # Tail(Table[c])[k]
<1> DEFINE t == Table[c]
           u == Tail(t)
<1>1. t \in Seq(Extents) /\ t # <<>>
  BY DEF TablesOK
<1>2. \A j, k \in DOMAIN t : j < k => Apart(t[j], t[k]) /\ t[k][1] # 0
  BY DEF TablesOK, Apart
<1>3. Rest(c) = {t[j] : j \in DOMAIN t \ {1}}
  BY DEF Rest
<1> HIDE DEF t
<1>4. /\ u \in Seq(Extents) /\ Len(u) = Len(t) - 1 /\ Len(t) \in Nat /\ Len(t) > 0
      /\ DOMAIN t = 1..Len(t)
      /\ \A k \in 1..Len(u) : u[k] = t[k + 1] /\ k + 1 \in 1..Len(t)
      /\ t[1] \in Extents
  BY <1>1
<1> HIDE DEF u
<1>5. {u[k] : k \in 1..Len(u)} = Rest(c)
  <2>1. ASSUME NEW j \in DOMAIN t \ {1} PROVE j - 1 \in 1..Len(u) /\ t[j] = u[j - 1]
    BY <1>4
  <2>2. ASSUME NEW k \in 1..Len(u) PROVE k + 1 \in DOMAIN t \ {1} /\ u[k] = t[k + 1]
    BY <1>4
  <2> QED
    BY <1>3, <2>1, <2>2
<1>6. ASSUME NEW k \in 1..Len(u) PROVE u[k][1] # 0
  <2>1. 1 \in DOMAIN t /\ k + 1 \in DOMAIN t /\ 1 < k + 1 /\ u[k] = t[k + 1]
    BY <1>4
  <2> QED
    BY <1>2, <2>1
<1>7. ASSUME NEW j \in 1..Len(u), NEW k \in 1..Len(u), j < k PROVE u[j] # u[k]
  <2>1. Apart(u[j], u[k]) /\ u[j] \in Extents
    <3>1. j + 1 \in DOMAIN t /\ u[j] = t[j + 1] /\ k + 1 \in DOMAIN t /\ u[k] = t[k + 1]
      BY <1>4
    <3>2. j + 1 < k + 1
      BY <1>7
    <3>3. u[j] \in Extents
      BY <1>4
    <3> QED
      BY <1>2, <3>1, <3>2, <3>3
  <2>2. ~Apart(u[j], u[j])
    BY <2>1, Bounds DEF Apart, Extents, Sectors
  <2> QED
    BY <2>1, <2>2
<1> QED
  BY <1>4, <1>5, <1>6, <1>7 DEF t, u

\* The partitions that name 0 publishes now.
RestNow == IF slot \in Cards THEN Rest(slot) ELSE {}

\* resolve_extent() of the handler of the whole card.
LEMMA ResolveRoot ==
  ASSUME TypeOK, NodesOK(node), TablesOK, NEW b \in BOOLEAN,
         b \/ \A i \in Names \ {0} : node[i] = None
  PROVE  /\ Resolve(0, b) \in ScanType
         /\ ScanOK(Resolve(0, b), node, RestNow)
         /\ Resolve(0, b).ok => /\ slot \in Cards /\ Table[slot] # <<>>
                                /\ Resolve(0, b).at = Table[slot][1]
         /\ ~Resolve(0, b).ok => Resolve(0, b).node = node
<1> DEFINE n == Fresh(0)
           r == Resolve(0, b)
<1>1. Envec(0)[1] = 0
  BY Bounds DEF Envec, NodesOK
<1>2. n = [node |-> node, next |-> h[0].next, pub |-> <<>>, ok |-> FALSE, at |-> h[0].at]
  BY DEF Fresh
<1>3. h[0].next \in Nat /\ h[0].at \in Extents \cup {None}
  BY Bounds DEF TypeOK, HandlerState
<1>4. n \in ScanType /\ n.node = node /\ n.pub = <<>> /\ n.ok = FALSE
  <2>1. node \in [Names -> Extents \cup {None}] /\ <<>> \in Seq(Names) /\ FALSE \in BOOLEAN
    BY DEF TypeOK
  <2> HIDE DEF n
  <2> QED
    BY <1>2, <1>3, <2>1 DEF ScanType
<1> HIDE DEF n
<1>5. CASE slot = NoCard \/ Table[slot] = <<>>
  <2>1. r = n
    BY <1>1, <1>5 DEF Resolve, n
  <2>2. ScanOK(n, node, RestNow)
    BY <1>4 DEF ScanOK
  <2> QED
    BY <1>4, <2>1, <2>2
<1>6. CASE slot # NoCard /\ Table[slot] # <<>>
  <2> DEFINE t == Table[slot]
             F == PublishEach(n, Tail(t), b)
  <2>1. slot \in Cards /\ RestNow = Rest(slot)
    BY <1>6 DEF TypeOK, RestNow
  <2>2. r = [F EXCEPT !.ok = TRUE, !.at = t[1]]
    BY <1>1, <1>6 DEF Resolve, PublishEach, n
  <2>3. /\ Tail(t) \in Seq(Extents) /\ t[1] \in Extents
        /\ {Tail(t)[k] : k \in 1..Len(Tail(t))} = Rest(slot)
        /\ \A k \in 1..Len(Tail(t)) : Tail(t)[k][1] # 0
        /\ \A j, k \in 1..Len(Tail(t)) : j < k => Tail(t)[j] # Tail(t)[k]
    BY <1>6, <2>1, RestOK
  <2> DEFINE q == Tail(t)
  <2>4. F \in ScanType /\ ScanOK(F, n.node, {q[k] : k \in 1..Len(q)})
    <3>1. q \in Seq(Extents) /\ (\A k \in 1..Len(q) : q[k][1] # 0)
          /\ \A j, k \in 1..Len(q) : j < k => q[j] # q[k]
      BY <2>3
    <3>2. b \/ \A i \in Names \ {0} : n.node[i] = None
      BY <1>4
    <3> HIDE DEF q, t
    <3>3. NodesOK(n.node) /\ n.pub = <<>> /\ n \in ScanType
      BY <1>4
    <3>4. PublishEach(n, q, b) \in ScanType
          /\ ScanOK(PublishEach(n, q, b), n.node, {q[k] : k \in 1..Len(q)})
      BY <3>1, <3>2, <3>3, PublishAll
    <3> QED
      BY <3>4 DEF q
  <2>5. F \in ScanType /\ ScanOK(F, node, RestNow)
    BY <1>4, <2>1, <2>3, <2>4
  <2> HIDE DEF F, q, t, r
  <2>6. r \in ScanType /\ r.ok = TRUE /\ r.at = t[1] /\ r.node = F.node /\ r.pub = F.pub
    BY <2>2, <2>3, <2>5 DEF ScanType
  <2>7. ScanOK(r, node, RestNow)
    BY <2>5, <2>6 DEF ScanOK
  <2> QED
    BY <1>6, <2>1, <2>6, <2>7 DEF r, t
<1> QED
  BY <1>5, <1>6

\* A node that starts behind sector 0 is a partition.
LEMMA ResolveSibling ==
  ASSUME TypeOK, NodesOK(node), NEW i \in Names \ {0}, node[i] # None, NEW b \in BOOLEAN
  PROVE  /\ Resolve(i, b) \in ScanType /\ ScanOK(Resolve(i, b), node, RestNow)
         /\ Resolve(i, b).ok /\ Resolve(i, b).at = node[i] /\ Resolve(i, b).pub = <<>>
         /\ Resolve(i, b).node = node
<1> DEFINE n == Fresh(i)
           r == Resolve(i, b)
<1>1. node[i] \in Extents /\ Envec(i)[1] # 0
  BY DEF Envec, NodesOK, TypeOK
<1>2. h[i].next \in Nat /\ h[i].at \in Extents \cup {None}
  BY DEF TypeOK, HandlerState
<1>3. r = [node |-> node, next |-> h[i].next, pub |-> <<>>, ok |-> TRUE, at |-> node[i]]
  BY <1>1 DEF Resolve, Fresh, Envec
<1>4. node \in [Names -> Extents \cup {None}] /\ <<>> \in Seq(Names) /\ TRUE \in BOOLEAN
  BY DEF TypeOK
<1> HIDE DEF r
<1>5. r \in ScanType /\ r.ok = TRUE /\ r.at = node[i] /\ r.pub = <<>> /\ r.node = node
  BY <1>1, <1>2, <1>3, <1>4 DEF ScanType
<1>6. ScanOK(r, node, RestNow)
  BY <1>5 DEF ScanOK
<1> QED
  BY <1>5, <1>6 DEF r

-----------------------------------------------------------------------------
(* The helper processes *)

HelperType == [1..MaxHelpers -> Seq(Jobs)]

\* The steps of activation_proc() go through the published names.
LEMMA TodoOK ==
  ASSUME NEW pub \in Seq(Names), slot \in Cards
  PROVE  /\ Todo(pub) \in Seq(Jobs)
         /\ \A a \in 1..Len(Todo(pub)) :
              Todo(pub)[a][3] = slot /\ \E j \in 1..Len(pub) : Todo(pub)[a][2] = pub[j]
<1> DEFINE n == Len(pub)
           K(a) == IF a % 2 = 1 THEN "inhibit" ELSE "lock"
           X(a) == pub[(a + 1) \div 2]
<1>1. n \in Nat /\ \A j \in 1..n : pub[j] \in Names
  OBVIOUS
<1>2. \A a \in 1..(2 * n) : (a + 1) \div 2 \in 1..n
  BY <1>1
<1>3. \A a \in 1..(2 * n) : K(a) \in {"inhibit", "lock"} /\ X(a) \in Names
  BY <1>1, <1>2
<1>4. Todo(pub) = [a \in 1..(2 * n) |-> <<K(a), X(a), slot>>]
  BY DEF Todo
<1> HIDE DEF K
<1>5. \A a \in 1..(2 * n) : <<K(a), X(a), slot>> \in Jobs
  BY <1>3 DEF Jobs
<1>6. 2 * n \in Nat
  BY <1>1
<1>7. Todo(pub) \in Seq(Jobs) /\ Len(Todo(pub)) = 2 * n
  BY <1>4, <1>5, <1>6
<1>8. \A a \in 1..(2 * n) : Todo(pub)[a][2] = X(a) /\ Todo(pub)[a][3] = slot
  BY <1>4
<1> QED
  BY <1>2, <1>7, <1>8

\* Partitions are extents.
LEMMA RestExtents ==
  ASSUME TablesOK, NEW c \in Cards
  PROVE  \A e \in Rest(c) : e \in Extents /\ e # None
<1>1. Table[c] \in Seq(Extents)
  BY DEF TablesOK
<1>2. \A j \in DOMAIN Table[c] : Table[c][j] \in Extents
  BY <1>1
<1> QED
  BY <1>2, Bounds DEF Rest

\* Names that stay in use keep the jobs of the helpers in order.
LEMMA JobsKept ==
  ASSUME NEW hp \in HelperType, NEW nd, JobsOK(hp, nd),
         NEW m, \A i \in Names : nd[i] # None => m[i] = nd[i]
  PROVE  JobsOK(hp, m)
<1> SUFFICES ASSUME NEW k \in 1..MaxHelpers, NEW a \in 1..Len(hp[k])
             PROVE  /\ hp[k][a][2] # 0 /\ m[hp[k][a][2]] # None
                    /\ m[hp[k][a][2]] \in Rest(hp[k][a][3])
  BY DEF JobsOK
<1>1. hp[k] \in Seq(Jobs)
  BY DEF HelperType
<1>2. hp[k][a] \in Jobs
  BY <1>1
<1>3. hp[k][a][2] \in Names
  BY <1>2 DEF Jobs
<1>4. /\ hp[k][a][2] # 0 /\ nd[hp[k][a][2]] # None
      /\ nd[hp[k][a][2]] \in Rest(hp[k][a][3])
  BY DEF JobsOK
<1> QED
  BY <1>3, <1>4

\* activate_partitions() for names of the card in the slot.
LEMMA ActivateOK ==
  ASSUME TablesOK, NEW rest \in HelperType, NEW nd, slot \in Cards, JobsOK(rest, nd),
         NEW pub \in Seq(Names), \A j \in 1..Len(pub) : pub[j] # 0 /\ nd[pub[j]] \in Rest(slot),
         Activate(pub, rest)
  PROVE  helper' \in HelperType /\ JobsOK(helper', nd)
<1>1. CASE pub = <<>>
  BY <1>1 DEF Activate
<1>2. CASE pub # <<>>
  <2> DEFINE idle == {k \in 1..MaxHelpers : rest[k] = <<>>}
  <2>1. idle # {} /\ helper' = [rest EXCEPT ![Min(idle)] = Todo(pub)]
    BY <1>2 DEF Activate
  <2>2. PICK k \in 1..MaxHelpers : helper' = [rest EXCEPT ![k] = Todo(pub)]
    <3>1. idle \in SUBSET Nat
      OBVIOUS
    <3>2. Min(idle) \in idle
      <4> HIDE DEF idle
      <4> QED
        BY <2>1, <3>1, MinIsLeast
    <3> QED
      BY <2>1, <3>2
  <2> HIDE DEF idle
  <2>3. helper' \in HelperType
    BY <2>2, TodoOK DEF HelperType
  <2>4. ASSUME NEW j \in 1..MaxHelpers, NEW a \in 1..Len(helper'[j])
        PROVE  /\ helper'[j][a][2] # 0 /\ nd[helper'[j][a][2]] # None
               /\ nd[helper'[j][a][2]] \in Rest(helper'[j][a][3])
    <3>1. CASE j = k
      <4>1. helper'[j] = Todo(pub)
        BY <2>2, <3>1 DEF HelperType
      <4>2. PICK i \in 1..Len(pub) : Todo(pub)[a][2] = pub[i] /\ Todo(pub)[a][3] = slot
        BY <4>1, TodoOK
      <4> QED
        BY <4>1, <4>2, RestExtents
    <3>2. CASE j # k
      <4>1. helper'[j] = rest[j]
        BY <2>2, <3>2 DEF HelperType
      <4> QED
        BY <4>1, Bounds DEF JobsOK
    <3> QED
      BY <3>1, <3>2
  <2> QED
    BY <2>3, <2>4 DEF JobsOK
<1> QED
  BY <1>1, <1>2

-----------------------------------------------------------------------------
(* The handlers *)

Kept(nd, m) == \A i \in Names : nd[i] # None => m[i] = nd[i]

\* What a handler serves is not touched when others are published.
LEMMA ServiceKept ==
  ASSUME TablesOK, NEW x \in HandlerState, NEW i \in Names, NEW nd, ServiceOK(x, i, nd),
         NEW m, Kept(nd, m)
  PROVE  ServiceOK(x, i, m)
<1> SUFFICES ASSUME x.st \in {"up", "parked"}
             PROVE  /\ x.home \in Cards
                    /\ i = 0 => /\ Table[x.home] # <<>> /\ x.at = Table[x.home][1]
                                /\ \A a \in 1..Len(x.pub) :
                                     x.pub[a] # 0 /\ m[x.pub[a]] \in Rest(x.home)
                    /\ i # 0 => /\ x.at = m[i] /\ m[i] # None
                                /\ m[i] \in Rest(x.home) \/ x.by # x.home
  BY DEF ServiceOK
<1>1. x.home \in Cards /\ \A e \in Rest(x.home) : e # None
  BY RestExtents DEF ServiceOK
<1>2. x.pub \in Seq(Names)
  BY DEF HandlerState
<1>3. ASSUME i = 0, NEW a \in 1..Len(x.pub) PROVE x.pub[a] # 0 /\ m[x.pub[a]] \in Rest(x.home)
  <2>1. x.pub[a] \in Names
    BY <1>2
  <2>2. x.pub[a] # 0 /\ nd[x.pub[a]] \in Rest(x.home)
    BY <1>3 DEF ServiceOK
  <2> QED
    BY <1>1, <2>1, <2>2 DEF Kept
<1>4. i # 0 => x.at = m[i] /\ m[i] # None /\ (m[i] \in Rest(x.home) \/ x.by # x.home)
  BY <1>1 DEF ServiceOK, Kept
<1>5. i = 0 => Table[x.home] # <<>> /\ x.at = Table[x.home][1]
  BY DEF ServiceOK
<1> QED
  BY <1>1, <1>3, <1>4, <1>5

\* A step of handler i, which has the nodes nd and the state x after it.
LEMMA HandlerChange ==
  ASSUME PartsInv, TablesOK, NEW i \in Names, node[i] # None,
         NEW x \in HandlerState, NEW nd, NodesOK(nd), Kept(node, nd),
         node' = nd, h' = [h EXCEPT ![i] = x], ServiceOK(x, i, nd),
         x.st = "up" => (slot \in Cards /\ x.home = slot) \/ (h[i].st = "up" /\ h[i].home = x.home),
         i # 0 => nd = node,
         i = 0 /\ x.st = "down" => \A j \in Names \ {0} : nd[j] = None,
         helper' \in HelperType, JobsOK(helper', nd),
         slot' = slot, mounter' = mounter \/ (mounter = "wake" /\ mounter' = "present")
  PROVE  PartsInv'
<1> USE DEF PartsInv
<1>1. \A j \in Names : h'[j] = IF j = i THEN x ELSE h[j]
  BY DEF TypeOK
<1>2. h' \in [Names -> HandlerState]
  BY DEF TypeOK
<1>3. TypeOK'
  <2>1. \A j \in Names : nd[j] = None => j # i /\ node[j] = None
    BY DEF Kept
  <2>2. \A j \in Names : node'[j] = None => h'[j] = Down
    BY <1>1, <2>1 DEF TypeOK
  <2>3. mounter' \in {"present", "gone", "parked", "wake"} /\ slot' \in Cards \cup {NoCard}
    BY DEF TypeOK
  <2>4. node' \in [Names -> Extents \cup {None}]
    BY DEF NodesOK
  <2>5. helper' \in [1..MaxHelpers -> Seq(Jobs)]
    BY DEF HelperType
  <2> QED
    BY <1>2, <2>2, <2>3, <2>4, <2>5 DEF TypeOK
<1>4. ASSUME NEW j \in Names PROVE ServiceOK(h'[j], j, node')
  <2>1. CASE j = i
    BY <1>1, <2>1
  <2>2. CASE j # i
    <3>1. h[j] \in HandlerState /\ ServiceOK(h[j], j, node)
      BY DEF TypeOK
    <3>2. ServiceOK(h[j], j, nd)
      BY <3>1, ServiceKept
    <3> QED
      BY <1>1, <2>2, <3>2
  <2> QED
    BY <2>1, <2>2
<1>5. SlotOK(slot', mounter', h')
  BY <1>1, Bounds DEF SlotOK
<1>6. h'[0].st = "down" => \A j \in Names \ {0} : node'[j] = None
  BY <1>1, Bounds
<1> QED
  BY <1>3, <1>4, <1>5, <1>6

\* The name is one of card c.
Usable(i, c) == node[i] # None /\ (i # 0 /\ c \in Cards => node[i] \in Rest(c))

\* What resolve_extent() gives any handler, in a new process or an inhibited one.
LEMMA ResolveOK ==
  ASSUME PartsInv, TablesOK, NEW i \in Names, node[i] # None,
         NEW b \in BOOLEAN, b \/ h[i].st = "down"
  PROVE  /\ Resolve(i, b) \in ScanType /\ ScanOK(Resolve(i, b), node, RestNow)
         /\ ~Resolve(i, b).ok => i = 0 /\ Resolve(i, b).node = node
         /\ i = 0 /\ Resolve(i, b).ok => /\ slot \in Cards /\ Table[slot] # <<>>
                                         /\ Resolve(i, b).at = Table[slot][1]
         /\ i # 0 => Resolve(i, b).at = node[i] /\ Resolve(i, b).node = node
<1>1. TypeOK /\ NodesOK(node)
  BY DEF PartsInv
<1>2. CASE i = 0
  <2>1. b \/ \A j \in Names \ {0} : node[j] = None
    BY <1>2 DEF PartsInv
  <2> QED
    BY <1>1, <1>2, <2>1, ResolveRoot
<1>3. CASE i # 0
  BY <1>1, <1>3, ResolveSibling
<1> QED
  BY <1>2, <1>3

\* A handler that mounts for the card in the slot serves a partition of it.
LEMMA UpOK ==
  ASSUME PartsInv, TablesOK, NEW i \in Names,
         NEW c \in Cards \cup {NoCard}, Usable(i, c),
         NEW b \in BOOLEAN, b \/ h[i].st = "down",
         Resolve(i, b).ok, Mountable(Resolve(i, b).at),
         h' = [h EXCEPT ![i] = Up(i, c, Resolve(i, b))], node' = Resolve(i, b).node,
         NEW rest \in HelperType, JobsOK(rest, node), Activate(Resolve(i, b).pub, rest),
         slot' = slot, mounter' = mounter \/ (mounter = "wake" /\ mounter' = "present")
  PROVE  PartsInv'
<1> DEFINE r == Resolve(i, b)
           x == Up(i, c, r)
<1>1. /\ r \in ScanType /\ ScanOK(r, node, RestNow)
      /\ i = 0 => Table[slot] # <<>> /\ r.at = Table[slot][1]
      /\ i # 0 => r.at = node[i] /\ r.node = node
  BY ResolveOK DEF Usable
<1>2. slot \in Cards /\ RestNow = Rest(slot)
  BY DEF Mountable, PartsInv, TypeOK, RestNow
<1> HIDE DEF r
<1>3. h[i] \in HandlerState
  BY DEF PartsInv, TypeOK
<1>4. r.at \in Extents \cup {None} /\ r.next \in Nat /\ r.pub \in Seq(Names)
  BY <1>1 DEF ScanType
<1>5. x.st = "up" /\ x.at = r.at /\ x.home = slot /\ x.by = c /\ x.pub = r.pub
  BY ONLY <1>3 DEF x, Up, HandlerState
<1>6. x \in HandlerState
  BY ONLY c \in Cards \cup {NoCard}, <1>2, <1>3, <1>4 DEF x, Up, HandlerState
<1> HIDE DEF x
<1>7. \A a \in 1..Len(r.pub) : r.pub[a] # 0 /\ r.node[r.pub[a]] \in Rest(slot)
  BY <1>1, <1>2 DEF ScanOK
<1>8. ServiceOK(x, i, r.node)
  BY <1>1, <1>2, <1>5, <1>7 DEF ServiceOK, Usable
<1>9. NodesOK(r.node) /\ Kept(node, r.node)
  BY <1>1 DEF ScanOK, Kept
<1>10. JobsOK(rest, r.node)
  BY <1>9, JobsKept DEF Kept
<1>11. Activate(r.pub, rest) /\ h' = [h EXCEPT ![i] = x] /\ node' = r.node
  BY DEF r, x
<1>12. helper' \in HelperType /\ JobsOK(helper', r.node)
  BY <1>2, <1>4, <1>7, <1>10, <1>11, ActivateOK
<1>13. node[i] # None
  BY DEF Usable
<1>14. /\ x.st = "up" => (slot \in Cards /\ x.home = slot) \/ (h[i].st = "up" /\ h[i].home = x.home)
       /\ i # 0 => r.node = node
       /\ i = 0 /\ x.st = "down" => \A j \in Names \ {0} : r.node[j] = None
  BY <1>1, <1>2, <1>5
<1> QED
  BY ONLY PartsInv, TablesOK, i \in Names, <1>6, <1>8, <1>9, <1>11, <1>12, <1>13, <1>14,
          slot' = slot,
          mounter' = mounter \/ (mounter = "wake" /\ mounter' = "present"), HandlerChange

\* startup() of a name that may be used.
LEMMA StartupOK ==
  ASSUME PartsInv, TablesOK, NEW i \in Names,
         NEW c \in Cards \cup {NoCard}, Usable(i, c),
         NEW rest \in HelperType, JobsOK(rest, node), Startup(i, c, rest),
         slot' = slot, mounter' = mounter \/ (mounter = "wake" /\ mounter' = "present")
  PROVE  PartsInv'
<1> DEFINE r == Resolve(i, FALSE)
<1>1. h[i].st = "down" /\ node' = r.node
  BY DEF Startup
<1>2. CASE r.ok /\ Mountable(r.at)
  <2>1. h' = [h EXCEPT ![i] = Up(i, c, r)] /\ Activate(r.pub, rest)
    BY <1>2 DEF Startup
  <2>2. FALSE \in BOOLEAN
    OBVIOUS
  <2> QED
    BY <1>1, <1>2, <2>1, <2>2, UpOK
<1>3. CASE ~(r.ok /\ Mountable(r.at))
  <2> DEFINE x == [h[i] EXCEPT !.st = IF r.ok THEN "dead" ELSE "down"]
  <2>1. h' = [h EXCEPT ![i] = x] /\ helper' = rest
    <3>1. h' = [h EXCEPT ![i].st = IF r.ok THEN "dead" ELSE "down"] /\ helper' = rest
      BY <1>3 DEF Startup
    <3> QED
      BY <3>1
  <2>2. /\ r \in ScanType /\ ScanOK(r, node, RestNow)
        /\ ~r.ok => i = 0 /\ r.node = node
        /\ i # 0 => r.node = node
    BY <1>1, ResolveOK DEF Usable
  <2> HIDE DEF r
  <2>3. h[i] \in HandlerState
    BY DEF PartsInv, TypeOK
  <2>4. x \in HandlerState /\ x.st = IF r.ok THEN "dead" ELSE "down"
    BY <2>3 DEF HandlerState
  <2> HIDE DEF x
  <2>5. ServiceOK(x, i, r.node)
    BY <2>4 DEF ServiceOK
  <2>6. NodesOK(r.node) /\ Kept(node, r.node)
    BY <2>2 DEF ScanOK, Kept
  <2>7. JobsOK(rest, r.node)
    BY <2>6, JobsKept DEF Kept
  <2>8. i = 0 /\ x.st = "down" => \A j \in Names \ {0} : r.node[j] = None
    BY <1>1, <2>2, <2>4 DEF PartsInv
  <2>9. node[i] # None /\ x.st # "up"
    BY <2>4 DEF Usable
  <2> QED
    BY <1>1, <2>1, <2>2, <2>4, <2>5, <2>6, <2>7, <2>8, <2>9, HandlerChange
<1> QED
  BY <1>2, <1>3

\* do_inhibit(FALSE) for a name that may be used.
LEMMA UninhibitOK ==
  ASSUME PartsInv, TablesOK, NEW i \in Names,
         NEW c \in Cards \cup {NoCard}, Usable(i, c),
         NEW rest \in HelperType, JobsOK(rest, node), Uninhibit(i, c, rest),
         slot' = slot, mounter' = mounter \/ (mounter = "wake" /\ mounter' = "present")
  PROVE  PartsInv'
<1> DEFINE r == Resolve(i, TRUE)
<1>1. h[i] \in HandlerState /\ ServiceOK(h[i], i, node) /\ NodesOK(node) /\ Kept(node, node)
  BY DEF PartsInv, TypeOK, Kept
<1>2. node[i] # None
  BY DEF Usable
<1>3. CASE h[i].st = "released" /\ node' = r.node /\ r.ok /\ Mountable(r.at)
           /\ h' = [h EXCEPT ![i] = Up(i, c, r)] /\ Activate(r.pub, rest)
  <2>1. TRUE \in BOOLEAN
    OBVIOUS
  <2> QED
    BY <1>3, <2>1, UpOK
<1>4. CASE /\ h[i].st = "released" /\ node' = r.node
           /\ h' = [h EXCEPT ![i].next = r.next, ![i].pub = r.pub, ![i].at = r.at]
           /\ helper' = rest
  <2> DEFINE x == [h[i] EXCEPT !.next = r.next, !.pub = r.pub, !.at = r.at]
  <2>1. h' = [h EXCEPT ![i] = x]
    BY <1>4
  <2>2. r \in ScanType /\ ScanOK(r, node, RestNow) /\ (i # 0 => r.node = node)
    BY <1>2, ResolveOK
  <2> HIDE DEF r
  <2>3. r.at \in Extents \cup {None} /\ r.next \in Nat /\ r.pub \in Seq(Names)
    BY <2>2 DEF ScanType
  <2>4. x \in HandlerState /\ x.st = "released"
    BY ONLY <1>1, <1>4, <2>3 DEF HandlerState
  <2> HIDE DEF x
  <2>5. ServiceOK(x, i, r.node)
    BY <2>4 DEF ServiceOK
  <2>6. NodesOK(r.node) /\ Kept(node, r.node)
    BY <2>2 DEF ScanOK, Kept
  <2>7. JobsOK(rest, r.node)
    BY <2>6, JobsKept DEF Kept
  <2>8. x.st # "up" /\ x.st # "down"
    BY <2>4
  <2> QED
    BY <1>2, <1>4, <2>1, <2>2, <2>4, <2>5, <2>6, <2>7, <2>8, HandlerChange
<1>5. CASE /\ h[i].st = "parked" /\ helper' = rest /\ node' = node
           /\ h' = IF slot = h[i].home THEN [h EXCEPT ![i].st = "up"] ELSE h
  <2> DEFINE x == IF slot = h[i].home THEN [h[i] EXCEPT !.st = "up"] ELSE h[i]
  <2>1. h' = [h EXCEPT ![i] = x]
    BY <1>5 DEF PartsInv, TypeOK
  <2>2. /\ x \in HandlerState /\ x.st \in {"up", "parked"}
        /\ x.home = h[i].home /\ x.by = h[i].by /\ x.at = h[i].at /\ x.pub = h[i].pub
        /\ x.st = "up" => h[i].home = slot
    BY ONLY <1>1, <1>5 DEF HandlerState
  <2> HIDE DEF x
  <2>3. ServiceOK(x, i, node)
    BY <1>1, <1>5, <2>2 DEF ServiceOK
  <2>4. x.st = "up" => slot \in Cards /\ x.home = slot
    BY <1>1, <1>5, <2>2 DEF ServiceOK
  <2>5. x.st # "down"
    BY <2>2
  <2> QED
    BY <1>1, <1>2, <1>5, <2>1, <2>2, <2>3, <2>4, <2>5, HandlerChange
<1>6. CASE h[i].st = "up" /\ helper' = rest /\ node' = node /\ h' = h
  <2>1. h' = [h EXCEPT ![i] = h[i]]
    BY <1>6 DEF PartsInv, TypeOK
  <2>2. h[i].st = "up" /\ h[i].st # "down"
    BY <1>6
  <2> QED
    BY <1>1, <1>2, <1>6, <2>1, <2>2, HandlerChange
<1> QED
  BY <1>3, <1>4, <1>5, <1>6 DEF Uninhibit

\* A handler alone changes: locks, the end of a process, the mounter's ACTION_INHIBIT.
LEMMA AloneOK ==
  ASSUME PartsInv, TablesOK, NEW i \in Names, NEW x \in HandlerState,
         h[i] # Down, h' = [h EXCEPT ![i] = x],
         \/ i # 0 /\ x = Down
         \/ /\ x.st = "down" => h[i].st = "down"
            /\ x.st \in {"up", "parked"} =>
                 /\ x.home = h[i].home /\ x.by = h[i].by
                 /\ x.at = h[i].at /\ x.pub = h[i].pub
            /\ x.st = "up" => h[i].st = "up"
            /\ x.st = "parked" => h[i].st \in {"up", "parked"},
         UNCHANGED <<slot, mounter, node, helper>>
  PROVE  PartsInv'
<1>1. node[i] # None
  BY DEF PartsInv, TypeOK
<1>2. /\ NodesOK(node) /\ Kept(node, node) /\ ServiceOK(h[i], i, node)
      /\ helper \in HelperType /\ JobsOK(helper, node)
  BY DEF PartsInv, TypeOK, Kept, HelperType
<1>3. ServiceOK(x, i, node)
  BY <1>2 DEF ServiceOK, Down
<1>4. /\ x.st = "up" => h[i].st = "up" /\ h[i].home = x.home
      /\ i = 0 /\ x.st = "down" => \A j \in Names \ {0} : node[j] = None
  BY DEF Down, PartsInv
<1> QED
  BY <1>1, <1>2, <1>3, <1>4, HandlerChange

-----------------------------------------------------------------------------
(* The steps *)

\* No card, no handlers, and the one node that was mounted by hand.
LEMMA InitOK ==
  ASSUME TablesOK, Init
  PROVE  PartsInv
<1>1. Down \in HandlerState
  BY Bounds DEF Down, HandlerState
<1>2. node \in [Names -> Extents \cup {None}]
  BY Bounds DEF Init
<1>3. TypeOK
  BY <1>1, <1>2 DEF Init, TypeOK
<1>4. NodesOK(node)
  BY <1>2, Bounds DEF Init, NodesOK
<1>5. \A i \in Names : h[i].st = "down"
  BY DEF Init, Down
<1>6. \A k \in 1..MaxHelpers : 1..Len(helper[k]) = {}
  BY DEF Init
<1>7. SlotOK(slot, mounter, h)
  BY <1>5 DEF Init, SlotOK
<1>8. JobsOK(helper, node)
  BY <1>6 DEF JobsOK
<1>9. \A i \in Names : ServiceOK(h[i], i, node)
  BY <1>5 DEF ServiceOK
<1>10. \A i \in Names \ {0} : node[i] = None
  BY DEF Init
<1> QED
  BY <1>3, <1>4, <1>7, <1>8, <1>9, <1>10 DEF PartsInv

\* The next name of a helper process may be used.
LEMMA HelperStepOK ==
  ASSUME PartsInv, TablesOK, NEW k \in 1..MaxHelpers, HelperStep(k)
  PROVE  PartsInv'
<1> DEFINE job == Head(helper[k])
           rest == [helper EXCEPT ![k] = Tail(@)]
<1>1. helper \in HelperType /\ JobsOK(helper, node) /\ helper[k] # <<>>
  BY DEF PartsInv, TypeOK, HelperType, HelperStep
<1>2. helper[k] \in Seq(Jobs)
  BY <1>1 DEF HelperType
<1>3. /\ job = helper[k][1] /\ 1 \in 1..Len(helper[k]) /\ job \in Jobs
      /\ Tail(helper[k]) \in Seq(Jobs)
      /\ \A a \in 1..Len(Tail(helper[k])) :
           a + 1 \in 1..Len(helper[k]) /\ Tail(helper[k])[a] = helper[k][a + 1]
  BY <1>1, <1>2
<1>4. rest \in HelperType
  BY <1>1, <1>3 DEF HelperType
<1>5. \A j \in 1..MaxHelpers : rest[j] = IF j = k THEN Tail(helper[k]) ELSE helper[j]
  BY <1>1 DEF HelperType
<1>6. JobsOK(rest, node)
  <2> HIDE DEF rest
  <2> SUFFICES ASSUME NEW j \in 1..MaxHelpers, NEW a \in 1..Len(rest[j])
               PROVE  /\ rest[j][a][2] # 0 /\ node[rest[j][a][2]] # None
                      /\ node[rest[j][a][2]] \in Rest(rest[j][a][3])
    BY DEF JobsOK
  <2>1. \E d \in 1..Len(helper[j]) : rest[j][a] = helper[j][d]
    <3>1. CASE j = k
      <4>1. a \in 1..Len(Tail(helper[k])) /\ rest[j] = Tail(helper[k])
        BY <1>5, <3>1
      <4>2. a + 1 \in 1..Len(helper[k]) /\ Tail(helper[k])[a] = helper[k][a + 1]
        BY <1>3, <4>1
      <4> QED
        BY <3>1, <4>1, <4>2
    <3>2. CASE j # k
      BY <1>5, <3>2
    <3> QED
      BY <3>1, <3>2
  <2> QED
    BY <1>1, <2>1 DEF JobsOK
<1>7. job[2] \in Names /\ job[3] \in Cards \cup {NoCard} /\ Usable(job[2], job[3])
  <2>1. job[2] \in Names /\ job[3] \in Cards
    BY <1>3 DEF Jobs
  <2>2. node[job[2]] # None /\ node[job[2]] \in Rest(job[3])
    BY <1>1, <1>3 DEF JobsOK
  <2> QED
    BY <2>1, <2>2, Bounds DEF Usable
<1>8. /\ IF job[1] = "inhibit" THEN Inhibit(job[2], job[3], rest)
         ELSE LockName(job[2], job[3], rest)
      /\ slot' = slot /\ mounter' = mounter
  BY DEF HelperStep
<1> HIDE DEF job, rest
<1>9. CASE Startup(job[2], job[3], rest)
  BY <1>4, <1>6, <1>7, <1>8, <1>9, StartupOK
<1>10. CASE Uninhibit(job[2], job[3], rest)
  BY <1>4, <1>6, <1>7, <1>8, <1>10, UninhibitOK
<1>11. CASE helper' = rest /\ UNCHANGED <<node, h>>
  <2>1. TypeOK'
    BY <1>4, <1>8, <1>11 DEF PartsInv, TypeOK, HelperType
  <2>2. JobsOK(helper', node')
    BY <1>6, <1>8, <1>11
  <2>3. SlotOK(slot', mounter', h')
    BY <1>8, <1>11 DEF PartsInv
  <2> QED
    BY <1>11, <2>1, <2>2, <2>3 DEF PartsInv
<1> QED
  BY <1>8, <1>9, <1>10, <1>11 DEF Inhibit, LockName

\* The mounter wakes the handler of name 0.
LEMMA MounterUninhibitOK ==
  ASSUME PartsInv, TablesOK, MounterUninhibit
  PROVE  PartsInv'
<1>1. /\ slot' = slot /\ mounter = "wake" /\ (mounter' = mounter \/ mounter' = "present")
      /\ Startup(0, slot, helper) \/ Uninhibit(0, slot, helper)
  BY DEF MounterUninhibit, Inhibit
<1>2. helper \in HelperType /\ JobsOK(helper, node)
  BY DEF PartsInv, TypeOK, HelperType
<1>3. 0 \in Names /\ slot \in Cards \cup {NoCard} /\ Usable(0, slot)
  BY Bounds DEF Usable, PartsInv, TypeOK, NodesOK
<1>4. mounter' = mounter \/ (mounter = "wake" /\ mounter' = "present")
  BY <1>1
<1> QED
  BY <1>1, <1>2, <1>3, <1>4, StartupOK, UninhibitOK

\* A client uses a name of the card in the slot.
LEMMA TouchOK ==
  ASSUME PartsInv, TablesOK, Allow = {}, NEW i \in Names, Touch(i)
  PROVE  PartsInv'
<1>1. /\ slot # NoCard /\ node[i] # None /\ Startup(i, slot, helper)
      /\ slot' = slot /\ mounter' = mounter
      /\ i = 0 \/ (h[0].st = "up" /\ i \in ToSet(h[0].pub))
  BY DEF Touch
<1>2. helper \in HelperType /\ JobsOK(helper, node)
  BY DEF PartsInv, TypeOK, HelperType
<1>3. ASSUME i # 0 PROVE node[i] \in Rest(slot)
  <2>1. h[0] \in HandlerState /\ h[0].pub \in Seq(Names)
    BY Bounds DEF PartsInv, TypeOK, HandlerState
  <2>2. PICK a \in 1..Len(h[0].pub) : i = h[0].pub[a]
    BY <1>1, <1>3, <2>1 DEF ToSet
  <2>3. h[0].home = slot
    BY <1>1, <1>3, Bounds DEF PartsInv, SlotOK
  <2>4. ServiceOK(h[0], 0, node)
    BY Bounds DEF PartsInv
  <2> QED
    BY <1>1, <1>3, <2>2, <2>3, <2>4 DEF ServiceOK
<1>4. slot \in Cards \cup {NoCard} /\ Usable(i, slot)
  BY <1>1, <1>3 DEF Usable, PartsInv, TypeOK
<1> QED
  BY <1>1, <1>2, <1>4, StartupOK

\* The card is taken out, or the mounter has inhibited every handler, or another
\* card is put in, even while helper processes of the last one run.
LEMMA CardOK ==
  ASSUME PartsInv, Pull \/ MounterInhibited \/ \E c \in Cards : Insert(c)
  PROVE  PartsInv'
<1>1. UNCHANGED <<node, h, helper>>
  BY DEF Pull, MounterInhibited, Insert
<1>2. TypeOK'
  BY <1>1 DEF PartsInv, TypeOK, Pull, MounterInhibited, Insert
<1>3. CASE Pull
  <2>1. SlotOK(NoCard, "gone", h)
    BY DEF SlotOK
  <2> QED
    BY <1>1, <1>2, <1>3, <2>1 DEF PartsInv, Pull
<1>4. CASE MounterInhibited
  <2>1. slot = NoCard /\ slot' = slot
    BY <1>4 DEF MounterInhibited, PartsInv, SlotOK
  <2>2. SlotOK(NoCard, "parked", h)
    <3>1. \A i \in Names : h[i].st # "up"
      BY <1>4 DEF MounterInhibited
    <3> QED
      BY <3>1 DEF SlotOK
  <2> QED
    BY <1>1, <1>2, <1>4, <2>1, <2>2 DEF PartsInv, MounterInhibited
<1>5. CASE \E c \in Cards : Insert(c)
  <2>1. PICK c \in Cards : Insert(c)
    BY <1>5
  <2>2. SlotOK(c, "wake", h)
    <3>1. \A i \in Names : h[i].st # "up"
      BY <2>1 DEF Insert, PartsInv, SlotOK
    <3> QED
      BY <3>1, Bounds DEF SlotOK
  <2> QED
    BY <1>1, <1>2, <2>1, <2>2 DEF PartsInv, Insert
<1> QED
  BY <1>3, <1>4, <1>5

\* release_mount() leaves nothing mounted.
LEMMA ReleasedOK ==
  ASSUME NEW x \in HandlerState
  PROVE  Released(x) \in HandlerState /\ Released(x).st = "released"
  BY DEF Released, HandlerState

\* Every step keeps the invariant.
LEMMA NextOK ==
  ASSUME PartsInv, TablesOK, Allow = {}, 0 \notin Mortal, [Next]_vars
  PROVE  PartsInv'
<1>1. CASE UNCHANGED vars
  BY <1>1 DEF vars, PartsInv, TypeOK
<1>2. CASE Pull \/ MounterInhibited \/ \E c \in Cards : Insert(c)
  BY <1>2, CardOK
<1>3. CASE MounterUninhibit
  BY <1>3, MounterUninhibitOK
<1>4. ASSUME NEW k \in 1..MaxHelpers, HelperStep(k) PROVE PartsInv'
  BY <1>4, HelperStepOK
<1>5. ASSUME NEW i \in Names, Touch(i) PROVE PartsInv'
  BY <1>5, TouchOK
<1>6. ASSUME NEW i \in Names PROVE h[i] \in HandlerState
  BY DEF PartsInv, TypeOK
<1>7. ASSUME NEW i \in Names, Hold(i) PROVE PartsInv'
  <2> DEFINE x == [h[i] EXCEPT !.held = TRUE]
  <2>1. /\ h' = [h EXCEPT ![i] = x] /\ h[i].st = "up" /\ h[i] # Down
        /\ UNCHANGED <<slot, mounter, node, helper>>
    BY <1>7 DEF Hold, Down
  <2>2. /\ x \in HandlerState /\ x.st = h[i].st
        /\ x.home = h[i].home /\ x.by = h[i].by /\ x.at = h[i].at /\ x.pub = h[i].pub
    BY <1>6 DEF HandlerState
  <2> HIDE DEF x
  <2> QED
    BY <2>1, <2>2, AloneOK
<1>8. ASSUME NEW i \in Names, Free(i) PROVE PartsInv'
  <2> DEFINE y == [h[i] EXCEPT !.held = FALSE]
             x == IF y.st = "parked" THEN Released(y) ELSE y
  <2>1. h' = [h EXCEPT ![i] = x] /\ h[i].held /\ UNCHANGED <<slot, mounter, node, helper>>
    BY <1>8 DEF Free
  <2>2. /\ y \in HandlerState /\ y.st = h[i].st
        /\ y.home = h[i].home /\ y.by = h[i].by /\ y.at = h[i].at /\ y.pub = h[i].pub
    BY <1>6 DEF HandlerState
  <2> HIDE DEF y
  <2>3. /\ x \in HandlerState /\ x.st = IF h[i].st = "parked" THEN "released" ELSE h[i].st
        /\ x.st \in {"up", "parked"} => x = y
    BY <2>2, ReleasedOK
  <2> HIDE DEF x
  <2>4. h[i] # Down
    BY <2>1 DEF Down
  <2> QED
    BY <2>1, <2>2, <2>3, <2>4, AloneOK
<1>9. ASSUME NEW i \in Names, Die(i) PROVE PartsInv'
  <2>1. /\ h' = [h EXCEPT ![i] = Down] /\ h[i] # Down /\ i # 0
        /\ UNCHANGED <<slot, mounter, node, helper>>
    BY <1>9 DEF Die, Down
  <2>2. Down \in HandlerState
    BY Bounds DEF Down, HandlerState
  <2> QED
    BY <2>1, <2>2, AloneOK
<1>10. ASSUME NEW i \in Names, MounterInhibit(i) PROVE PartsInv'
  <2> DEFINE y == [h[i] EXCEPT !.st = "parked"]
             x == IF h[i].held THEN y ELSE Released(h[i])
  <2>1. /\ h' = [h EXCEPT ![i] = x] /\ h[i].st = "up" /\ h[i] # Down
        /\ UNCHANGED <<slot, mounter, node, helper>>
    BY <1>10 DEF MounterInhibit, Down
  <2>2. /\ y \in HandlerState /\ y.st = "parked"
        /\ y.home = h[i].home /\ y.by = h[i].by /\ y.at = h[i].at /\ y.pub = h[i].pub
    BY <1>6 DEF HandlerState
  <2> HIDE DEF y
  <2>3. x \in HandlerState /\ x.st \in {"parked", "released"} /\ (x.st = "parked" => x = y)
    BY <1>6, <2>2, ReleasedOK
  <2> HIDE DEF x
  <2> QED
    BY <2>1, <2>2, <2>3, AloneOK
<1> QED
  BY <1>1, <1>2, <1>3, <1>4, <1>5, <1>7, <1>8, <1>9, <1>10 DEF Next, MounterStep

-----------------------------------------------------------------------------
(* Theorems *)

\* The invariant holds for tables as TablesOK says, if nobody uses names of
\* earlier cards, and the handler of name 0 is not ended.
THEOREM PartsInvHolds ==
  ASSUME TablesOK, Allow = {}, 0 \notin Mortal
  PROVE  Spec => []PartsInv
<1>1. Init => PartsInv
  BY InitOK
<1>2. PartsInv /\ [Next]_vars => PartsInv'
  BY NextOK
<1> QED
  BY <1>1, <1>2, PTL DEF Spec

\* What a handler serves is a partition of its card, if none has sent it astray.
LEMMA ServesListed ==
  ASSUME PartsInv, TablesOK, NEW i \in Names, h[i].st = "up", ~Astray(i)
  PROVE  \E a \in DOMAIN Table[h[i].home] :
           /\ h[i].at = Table[h[i].home][a] /\ (i = 0 <=> a = 1)
           /\ h[i].home \in Cards
<1> DEFINE c == h[i].home
<1>1. ServiceOK(h[i], i, node) /\ h[i].st \in {"up", "parked"}
  BY DEF PartsInv
<1>2. c \in Cards
  BY <1>1 DEF ServiceOK
<1>3. Table[c] \in Seq(Extents)
  BY <1>2 DEF TablesOK
<1>4. CASE i = 0
  <2>1. Table[c] # <<>> /\ h[i].at = Table[c][1]
    BY <1>1, <1>4 DEF ServiceOK
  <2>2. 1 \in DOMAIN Table[c]
    BY <1>3, <2>1
  <2> QED
    BY <1>2, <1>4, <2>1, <2>2
<1>5. CASE i # 0
  <2>1. h[i].at \in Rest(c)
    BY <1>1, <1>5 DEF ServiceOK, Astray
  <2> QED
    BY <1>2, <1>5, <2>1 DEF Rest
<1> QED
  BY <1>4, <1>5

\* However cards come and go, also while a helper process runs, a partition has
\* one device node and, handlers gone astray apart, at most one handler at work:
\* publish_partition() uses the node again that an earlier card left, and a
\* helper goes through names of the card it was started for.
THEOREM ServedOnceHolds ==
  ASSUME TablesOK, Allow = {}, 0 \notin Mortal
  PROVE  Spec => []ServedOnce
<1>1. ASSUME PartsInv PROVE NoDoubleService
  <2> SUFFICES ASSUME NEW i \in Names, NEW j \in Names, i # j,
                      h[i].st = "up", h[j].st = "up", ~Astray(i), ~Astray(j),
                      h[i].home = h[j].home
               PROVE  h[i].at[2] < h[j].at[1] \/ h[j].at[2] < h[i].at[1]
    BY DEF NoDoubleService
  <2> DEFINE c == h[i].home
  <2>1. PICK a \in DOMAIN Table[c] : h[i].at = Table[c][a] /\ (i = 0 <=> a = 1) /\ c \in Cards
    BY <1>1, ServesListed
  <2>2. PICK b \in DOMAIN Table[c] : h[j].at = Table[c][b] /\ (j = 0 <=> b = 1)
    BY <1>1, ServesListed
  <2>3. a # b
    <3> SUFFICES ASSUME a = b PROVE FALSE
      OBVIOUS
    <3>1. i # 0 /\ j # 0 /\ h[i].at = h[j].at
      BY <2>1, <2>2
    <3>2. h[i].at = node[i] /\ h[j].at = node[j]
      BY <1>1, <3>1 DEF PartsInv, ServiceOK
    <3>3. node[i] # None
      BY <1>1 DEF PartsInv, TypeOK, Down
    <3> QED
      BY <1>1, <3>1, <3>2, <3>3 DEF PartsInv, NodesOK
  <2>4. Table[c] \in Seq(Extents)
    BY <2>1 DEF TablesOK
  <2>5. a \in Nat /\ b \in Nat
    BY <2>4
  <2>6. a < b \/ b < a
    BY <2>3, <2>5
  <2> QED
    BY <2>1, <2>2, <2>6 DEF TablesOK, Apart
<1>2. PartsInv => ServedOnce
  BY <1>1 DEF ServedOnce, OneNodeEach, PartsInv, NodesOK
<1> QED
  BY <1>2, PartsInvHolds, PTL

\* A handler serves only what the partition table of its card lists, or was woken
\* by a helper process of another card: resolve_extent() derives the extent again.
THEOREM OnlyListedHolds ==
  ASSUME TablesOK, Allow = {}, 0 \notin Mortal
  PROVE  Spec => []OnlyListed
<1>1. PartsInv => OnlyListed
  <2> SUFFICES ASSUME PartsInv, NEW i \in Names, h[i].st = "up", ~Astray(i)
               PROVE  h[i].at \in ToSet(Table[h[i].home])
    BY DEF OnlyListed, Listed
  <2>1. PICK a \in DOMAIN Table[h[i].home] : h[i].at = Table[h[i].home][a]
    BY ServesListed
  <2> QED
    BY <2>1 DEF ToSet
<1> QED
  BY <1>1, PartsInvHolds, PTL

\* The types hold, and no handler runs for a name without a node.
THEOREM TypeCorrect ==
  ASSUME TablesOK, Allow = {}, 0 \notin Mortal
  PROVE  Spec => []TypeOK
<1>1. PartsInv => TypeOK
  BY DEF PartsInv
<1> QED
  BY <1>1, PartsInvHolds, PTL

===============================================================================
