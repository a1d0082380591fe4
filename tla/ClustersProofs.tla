---------------------------- MODULE ClustersProofs ----------------------------
(* Theorems about Clusters, for every number of files and clusters, as long as *)
(* no access to the FAT fails.                                                 *)
EXTENDS Clusters, FiniteSetTheorems, WellFoundedInduction, TLAPS

\* The chain of each file, counted from 0: the first k clusters are the file's,
\* those from lo to hi - 1 are cut off and not free yet.
Chains == [c: [Files -> [Nat -> Int]], k: [Files -> Nat], lo: [Files -> Nat], hi: [Files -> Nat]]

Owns(g, f, i) == i < g.k[f] \/ (g.lo[f] <= i /\ i < g.hi[f])

\* Nothing owns a cluster twice, and the bitmap has what is owned.
OwnedOnce(g, us) ==
  /\ \A f \in Files, i \in Nat : Owns(g, f, i) => g.c[f][i] \in Data \ Reserved
  /\ \A f, h \in Files, i, j \in Nat :
       Owns(g, f, i) /\ Owns(g, h, j) /\ g.c[f][i] = g.c[h][j] => f = h /\ i = j
  /\ us \subseteq Data
  /\ \A c \in Data : c \in us <=>
       c \in Reserved \/ \E f \in Files, i \in Nat : Owns(g, f, i) /\ g.c[f][i] = c

\* The chain of f is what its node x and the FAT say, except for its end.
Chained(g, ft, x, f) ==
  \A i \in Nat : Owns(g, f, i) /\ Owns(g, f, i + 1) /\ i + 1 # g.k[f] =>
    IF x.contig THEN g.c[f][i + 1] = g.c[f][i] + 1 ELSE ft[g.c[f][i]] = g.c[f][i + 1]

\* The cached position is one of the chain, and the start cluster its first.
Pointed(g, x, f) ==
  /\ g.k[f] = 0 => x.start = FREE /\ x.fi = 0 /\ x.fc = FREE
  /\ g.k[f] > 0 => x.start = g.c[f][0] /\ x.fi < g.k[f] /\ x.fc = g.c[f][x.fi]

FileOK(g, ft, x, f) ==
  /\ x \in Node /\ x.valid <= x.size
  /\ g.lo[f] < g.hi[f] => g.k[f] <= g.lo[f]
  /\ Pointed(g, x, f)
  /\ Chained(g, ft, x, f)

NoRest(g, f) == g.hi[f] <= g.lo[f]
Ended(g, ft, x, f) == ~x.contig /\ g.k[f] > 0 => ft[g.c[f][g.k[f] - 1]] = END

\* A file that no call is changing.
Settled(g, ft, x, f) == NoRest(g, f) /\ g.k[f] = x.size /\ Ended(g, ft, x, f)

\* The free clusters are fewer than a growth of x that was given up needs, also
\* when left more are freed.
TooFew(us, x, t, left) == Cardinality(Data \ us) + left < t.n - x.size

\* The call in progress, at each of its stages.
GrowOK(g, ft, x, t) ==
  /\ t.op = "grow" /\ x.size < t.n /\ t.left = t.n - x.size
  /\ Settled(g, ft, x, t.f)

LinkOK(g, ft, x, t) ==
  /\ t.op = "link" /\ t.new \in Nat
  /\ NoRest(g, t.f)
  /\ x.size < t.n /\ g.k[t.f] = x.size + t.new /\ g.k[t.f] + t.left = t.n
  /\ g.k[t.f] > 0 /\ t.prev = g.c[t.f][g.k[t.f] - 1]
  /\ t.new = 0 => Ended(g, ft, x, t.f)

ShrinkOK(g, us, ft, x, t) ==
  /\ t.op = "shrink" /\ NoRest(g, t.f) /\ t.left > 0
  /\ t.rc = "ok" => t.left = x.size - t.n /\ Settled(g, ft, x, t.f)
  /\ t.rc = "ENOSPC" => g.k[t.f] = x.size + t.left /\ TooFew(us, x, t, t.left)

FreeOK(g, us, ft, x, t) ==
  /\ t.op = "free"
  /\ g.hi[t.f] = g.lo[t.f] + t.left
  /\ t.left > 0 => t.prev = g.c[t.f][g.lo[t.f]]
  /\ Ended(g, ft, x, t.f)
  /\ t.rc = "ok" => g.k[t.f] = t.n
  /\ t.rc = "ENOSPC" => g.k[t.f] = x.size /\ TooFew(us, x, t, t.left)

EraseOK(g, ft, x, t) ==
  /\ t.op = "erase" /\ NoRest(g, t.f) /\ g.k[t.f] = t.n /\ Ended(g, ft, x, t.f)

CallOK(g, us, ft, nd, t) ==
  t # NoTask =>
    /\ t.f \in Files /\ t.n \in 0..ClusterCount /\ t.left \in Nat
    /\ t.erase \in BOOLEAN /\ t.rc \in {"ok", "ENOSPC"}
    /\ \/ GrowOK(g, ft, nd[t.f], t) \/ LinkOK(g, ft, nd[t.f], t)
       \/ ShrinkOK(g, us, ft, nd[t.f], t) \/ FreeOK(g, us, ft, nd[t.f], t)
       \/ EraseOK(g, ft, nd[t.f], t)

Others(t) == IF t = NoTask THEN Files ELSE Files \ {t.f}

\* Bitmap, FAT, nodes and call agree on the chains g.
Agree(g, us, ft, nd, t) ==
  /\ ft \in [Data -> Data \cup {FREE, END}] /\ nd \in [Files -> Node]
  /\ OwnedOnce(g, us)
  /\ \A f \in Files : FileOK(g, ft, nd[f], f)
  /\ \A f \in Others(t) : Settled(g, ft, nd[f], f)
  /\ CallOK(g, us, ft, nd, t)

RefusedOK(rs, us, nd, t) ==
  /\ rs.f \in Files /\ rs.n \in Nat
  /\ t = NoTask /\ rs.rc = "ENOSPC" => rs.n - nd[rs.f].size > Cardinality(Data \ us)

ClustersInv ==
  /\ bug = FALSE
  /\ RefusedOK(result, used, node, task)
  /\ \E g \in Chains : Agree(g, used, fat, node, task)

-----------------------------------------------------------------------------
(* Numbers and walks *)

\* A set of numbers that is not empty has a least element.
LEMMA LeastNatural ==
  ASSUME NEW S \in SUBSET Nat, S # {}
  PROVE  \E m \in S : \A k \in S : m <= k
<1> DEFINE Less == {p \in Nat \X Nat : p[1] < p[2]}
<1>1. OpToRel(<, Nat) = Less
  BY Zenon DEF OpToRel
<1>2. IsWellFoundedOn(Less, Nat)
  BY <1>1, NatLessThanWellFounded
<1>3. \E m \in S : \A k \in S : <<k, m>> \notin Less
  BY <1>2, WFMin
<1>4. \A k, m \in Nat : <<k, m>> \notin Less => m <= k
  OBVIOUS
<1> HIDE DEF Less
<1> QED
  BY <1>3, <1>4

\* The sizes of the volume.
LEMMA ClusterNumbers ==
  /\ ClusterCount \in Nat /\ ClusterCount > 0 /\ Wrapped \in Nat /\ Wrapped = ClusterCount + 1
  /\ \A c \in Data : c \in Nat /\ c >= 2
  /\ FREE \notin Data /\ END \notin Data /\ BAD \notin Data
  BY ClustersAssumption DEF Wrapped, Data, FREE, END, BAD

\* One step of a walk from c, after steps that have led to w.
Stride(x, c, w, i) ==
  IF i = 0 THEN c
  ELSE IF i > 1 /\ Invalid(w[i - 1]) THEN w[i - 1]
  ELSE NextCluster(x, w[i - 1])

\* There are walks of every length.
LEMMA WalkExists ==
  ASSUME NEW x, NEW c, NEW n \in Nat
  PROVE  \E w : w = [i \in 0..n |-> Stride(x, c, w, i)]
<1> DEFINE S == {m \in Nat : ~\E w : w = [i \in 0..m |-> Stride(x, c, w, i)]}
<1> SUFFICES ASSUME S # {} PROVE FALSE
  OBVIOUS
<1>1. PICK m \in S : \A k \in S : m <= k
  <2>1. S \in SUBSET Nat
    OBVIOUS
  <2> HIDE DEF S
  <2> QED
    BY <2>1, LeastNatural
<1>2. m \in Nat /\ ~\E w : w = [i \in 0..m |-> Stride(x, c, w, i)]
  OBVIOUS
<1>3. CASE m = 0
  <2> DEFINE w == [i \in 0..0 |-> c]
  <2>1. \A i \in 0..0 : Stride(x, c, w, i) = c
    BY DEF Stride
  <2>2. [i \in 0..0 |-> Stride(x, c, w, i)] = [i \in 0..0 |-> c]
    BY <2>1
  <2> QED
    BY <1>2, <1>3, <2>2
<1>4. CASE m # 0
  <2>1. m - 1 \in Nat /\ m - 1 \notin S
    BY <1>1, <1>2, <1>4
  <2>2. PICK w : w = [i \in 0..(m - 1) |-> Stride(x, c, w, i)]
    BY <2>1
  <2> DEFINE v == [i \in 0..m |-> IF i < m THEN w[i] ELSE Stride(x, c, w, m)]
  <2>3. \A i \in 0..(m - 1) : w[i] = Stride(x, c, w, i)
    BY <2>2
  <2>4. \A i \in 0..m : v[i] = Stride(x, c, v, i)
    <3> SUFFICES ASSUME NEW i \in 0..m PROVE v[i] = Stride(x, c, v, i)
      OBVIOUS
    <3>1. v[i] = Stride(x, c, w, i)
      BY <1>2, <2>3
    <3>2. i # 0 => i - 1 \in 0..m /\ v[i - 1] = w[i - 1]
      BY <1>2
    <3> HIDE DEF v
    <3> QED
      BY <3>1, <3>2 DEF Stride
  <2>5. v = [i \in 0..m |-> v[i]]
    OBVIOUS
  <2>6. v = [i \in 0..m |-> Stride(x, c, v, i)]
    <3> HIDE DEF v
    <3> QED
      BY <2>4, <2>5
  <2> QED
    BY <1>2, <2>6
<1> QED
  BY <1>3, <1>4

\* exfat_advance_cluster() steps along a chain.
LEMMA WalkSteps ==
  ASSUME NEW x, NEW c
  PROVE  /\ Walk(x, c, 0) = c
         /\ \A i \in 1..Wrapped : Walk(x, c, i) =
              IF i > 1 /\ Invalid(Walk(x, c, i - 1)) THEN Walk(x, c, i - 1)
              ELSE NextCluster(x, Walk(x, c, i - 1))
<1> DEFINE w == CHOOSE w : w = [i \in 0..Wrapped |-> Stride(x, c, w, i)]
<1>1. w = [i \in 0..Wrapped |-> Stride(x, c, w, i)]
  BY WalkExists, ClusterNumbers
<1>2. \A i : Walk(x, c, i) = w[i]
  BY DEF Walk, Stride
<1> HIDE DEF w
<1>3. \A i \in 0..Wrapped : w[i] = Stride(x, c, w, i)
  BY <1>1
<1>4. w[0] = c
  BY <1>3, ClusterNumbers DEF Stride
<1>5. \A i \in 1..Wrapped : w[i] = IF i > 1 /\ Invalid(w[i - 1]) THEN w[i - 1]
                                   ELSE NextCluster(x, w[i - 1])
  BY <1>3, ClusterNumbers DEF Stride
<1> QED
  BY <1>2, <1>4, <1>5

\* The types of the chains.
LEMMA ChainFields ==
  ASSUME NEW g \in Chains, NEW f \in Files
  PROVE  /\ g.k[f] \in Nat /\ g.lo[f] \in Nat /\ g.hi[f] \in Nat
         /\ g.c[f] \in [Nat -> Int] /\ \A i \in Nat : g.c[f][i] \in Int
  BY DEF Chains

\* exfat_next_cluster() follows the chain.
LEMMA NextInChain ==
  ASSUME NEW g \in Chains, NEW us, OwnedOnce(g, us), NEW f \in Files, NEW x,
         Chained(g, fat, x, f), NEW i \in Nat,
         Owns(g, f, i), Owns(g, f, i + 1), i + 1 # g.k[f]
  PROVE  NextCluster(x, g.c[f][i]) = g.c[f][i + 1]
<1>1. g.c[f][i] \in Data
  BY DEF OwnedOnce
<1> QED
  BY <1>1 DEF NextCluster, Chained, Invalid

\* A walk from a cluster of the chain stays in it.
LEMMA WalkInChain ==
  ASSUME NEW g \in Chains, NEW us, OwnedOnce(g, us), NEW f \in Files, NEW x,
         Chained(g, fat, x, f), NEW a \in Nat, NEW n \in Nat, a + n < g.k[f], n <= Wrapped
  PROVE  Walk(x, g.c[f][a], n) = g.c[f][a + n]
<1> DEFINE W(i) == Walk(x, g.c[f][a], i)
           S == {i \in Nat : i <= Wrapped /\ a + i < g.k[f] /\ W(i) # g.c[f][a + i]}
<1> SUFFICES ASSUME S # {} PROVE FALSE
  OBVIOUS
<1>1. PICK i \in S : \A j \in S : i <= j
  <2>1. S \in SUBSET Nat
    OBVIOUS
  <2> HIDE DEF S
  <2> QED
    BY <2>1, LeastNatural
<1>2. i \in Nat /\ i <= Wrapped /\ a + i < g.k[f] /\ W(i) # g.c[f][a + i] /\ Wrapped \in Nat
      /\ g.k[f] \in Nat
  BY ClusterNumbers, ChainFields
<1>3. i # 0
  <2>1. W(0) = g.c[f][a]
    BY WalkSteps
  <2>2. a + 0 = a
    OBVIOUS
  <2> QED
    BY <1>2, <2>1, <2>2
<1> DEFINE b == a + (i - 1)
<1>4. i - 1 \in Nat /\ i - 1 \notin S /\ b \in Nat /\ b + 1 = a + i /\ b + 1 < g.k[f] /\ i \in 1..Wrapped
  BY <1>1, <1>2, <1>3
<1>5. W(i - 1) = g.c[f][b]
  <2>1. i - 1 <= Wrapped /\ a + (i - 1) < g.k[f]
    BY <1>2, <1>3
  <2> QED
    BY <1>4, <2>1
<1>6. W(i) = IF i > 1 /\ Invalid(W(i - 1)) THEN W(i - 1) ELSE NextCluster(x, W(i - 1))
  BY <1>4, WalkSteps
<1> HIDE DEF b, S, W
<1>7. Owns(g, f, b) /\ Owns(g, f, b + 1) /\ b + 1 # g.k[f]
  BY <1>2, <1>4 DEF Owns
<1>8. g.c[f][b] \in Data
  BY <1>4, <1>7 DEF OwnedOnce
<1>9. NextCluster(x, g.c[f][b]) = g.c[f][b + 1]
  BY <1>4, <1>7, NextInChain
<1>10. W(i) = g.c[f][b + 1]
  BY <1>5, <1>6, <1>8, <1>9 DEF Invalid
<1> QED
  BY <1>2, <1>4, <1>10

\* The node x with another position.
Moved(x, i, c) == [x EXCEPT !.fi = i, !.fc = c]

\* exfat_advance_cluster() finds the cluster with index i of the chain, and no
\* internal check of it fails.
LEMMA AdvanceEffect ==
  ASSUME NEW g \in Chains, NEW us, OwnedOnce(g, us), NEW f \in Files, NEW x,
         FileOK(g, fat, x, f), NEW i \in Nat, i < g.k[f], i <= Wrapped,
         Faults = {}, NEW p
  PROVE  /\ ~AdvanceBug(x, i)
         /\ Advance(x, i, p \in Faults) = {Moved(x, i, g.c[f][i])}
<1> DEFINE q == IF x.fi > i THEN [fi |-> 0, fc |-> x.start] ELSE [fi |-> x.fi, fc |-> x.fc]
<1>1. /\ x.start = g.c[f][0] /\ x.fi < g.k[f] /\ x.fc = g.c[f][x.fi] /\ x.fi \in Nat
      /\ Chained(g, fat, x, f) /\ g.k[f] \in Nat
  BY ChainFields, ClusterNumbers DEF FileOK, Pointed, Node
<1>2. q.fi \in Nat /\ q.fi <= i /\ q.fc = g.c[f][q.fi]
  BY <1>1
<1>3. q.fc \in Data
  <2>1. Owns(g, f, q.fi)
    BY <1>1, <1>2 DEF Owns
  <2> QED
    BY <1>2, <2>1 DEF OwnedOnce
<1>4. ~AdvanceBug(x, i)
  BY <1>3, ClusterNumbers DEF AdvanceBug
<1>5. Advance(x, i, p \in Faults) = {[x EXCEPT !.fi = i, !.fc = Walk(x, q.fc, i - q.fi)]}
  BY DEF Advance
<1> HIDE DEF q
<1>6. Walk(x, g.c[f][q.fi], i - q.fi) = g.c[f][i]
  <2>1. i - q.fi \in Nat /\ q.fi + (i - q.fi) = i /\ i - q.fi <= Wrapped
    BY <1>2, ClusterNumbers
  <2>2. q.fi + (i - q.fi) < g.k[f]
    BY <2>1
  <2> QED
    BY <1>1, <1>2, <2>1, <2>2, WalkInChain
<1> QED
  BY <1>2, <1>4, <1>5, <1>6 DEF Moved

\* allocate_cluster() finds a free cluster if there is one.
LEMMA AllocateEffect ==
  ASSUME NEW hint
  PROVE  \/ Allocate(hint) \in Data \ used
         \/ Allocate(hint) = END /\ Data \ used = {}
<1> DEFINE free == Data \ used
           from == IF Invalid(hint) THEN free ELSE {c \in free : c >= hint}
           pool == IF from = {} THEN free ELSE from
<1>1. Allocate(hint) = IF pool = {} THEN END ELSE CHOOSE c \in pool : \A d \in pool : c <= d
  BY DEF Allocate
<1>2. pool \in SUBSET Nat /\ pool \subseteq free /\ (pool = {} => free = {})
  BY ClusterNumbers
<1> HIDE DEF pool, from
<1>3. CASE pool = {}
  BY <1>1, <1>2, <1>3
<1>4. CASE pool # {}
  <2>1. \E c \in pool : \A d \in pool : c <= d
    BY <1>2, <1>4, LeastNatural
  <2>2. Allocate(hint) \in pool
    BY <1>1, <1>4, <2>1
  <2> QED
    BY <1>2, <2>2
<1> QED
  BY <1>3, <1>4

-----------------------------------------------------------------------------
(* Steps *)

\* A file that a step leaves alone.
LEMMA SameFile ==
  ASSUME NEW g \in Chains, NEW g2 \in Chains, NEW h \in Files, NEW x, NEW ft, NEW ft2,
         g2.c[h] = g.c[h], g2.k[h] = g.k[h], g2.lo[h] = g.lo[h], g2.hi[h] = g.hi[h],
         \A i \in Nat : Owns(g, h, i) => ft2[g.c[h][i]] = ft[g.c[h][i]]
  PROVE  /\ FileOK(g, ft, x, h) => FileOK(g2, ft2, x, h)
         /\ Settled(g, ft, x, h) => Settled(g2, ft2, x, h)
<1>1. /\ g.k[h] \in Nat /\ g.lo[h] \in Nat /\ g.hi[h] \in Nat
      /\ \A i : Owns(g2, h, i) <=> Owns(g, h, i)
  BY ChainFields DEF Owns
<1>2. Chained(g, ft, x, h) => Chained(g2, ft2, x, h)
  BY <1>1 DEF Chained
<1>3. Pointed(g, x, h) => Pointed(g2, x, h)
  BY DEF Pointed
<1>4. Ended(g, ft, x, h) => Ended(g2, ft2, x, h)
  <2> SUFFICES ASSUME Ended(g, ft, x, h), ~x.contig, g.k[h] > 0
               PROVE  ft2[g.c[h][g.k[h] - 1]] = END
    BY DEF Ended
  <2>1. g.k[h] - 1 \in Nat /\ Owns(g, h, g.k[h] - 1)
    BY <1>1 DEF Owns
  <2> QED
    BY <2>1 DEF Ended
<1> QED
  BY <1>2, <1>3, <1>4 DEF FileOK, Settled, NoRest

\* What a step of a call for f has to keep.
LEMMA AgreeStep ==
  ASSUME NEW g \in Chains, NEW us, NEW ft, NEW nd, NEW t, Agree(g, us, ft, nd, t),
         NEW f \in Files, t = NoTask \/ t.f = f,
         NEW g2 \in Chains, NEW us2, NEW ft2, NEW nd2, NEW t2, t2 = NoTask \/ t2.f = f,
         ft2 \in [Data -> Data \cup {FREE, END}], nd2 \in [Files -> Node],
         OwnedOnce(g2, us2),
         \A h \in Files : h # f =>
           /\ nd2[h] = nd[h] /\ g2.c[h] = g.c[h] /\ g2.k[h] = g.k[h]
           /\ g2.lo[h] = g.lo[h] /\ g2.hi[h] = g.hi[h]
           /\ \A i \in Nat : Owns(g, h, i) => ft2[g.c[h][i]] = ft[g.c[h][i]],
         FileOK(g2, ft2, nd2[f], f),
         t2 = NoTask => Settled(g2, ft2, nd2[f], f),
         CallOK(g2, us2, ft2, nd2, t2)
  PROVE  Agree(g2, us2, ft2, nd2, t2)
<1>1. ASSUME NEW h \in Files, h # f
      PROVE  FileOK(g2, ft2, nd2[h], h) /\ Settled(g2, ft2, nd2[h], h)
  <2>1. h \in Others(t)
    BY <1>1 DEF Others
  <2>2. FileOK(g, ft, nd[h], h) /\ Settled(g, ft, nd[h], h)
    BY <2>1 DEF Agree
  <2>3. /\ nd2[h] = nd[h] /\ g2.c[h] = g.c[h] /\ g2.k[h] = g.k[h]
        /\ g2.lo[h] = g.lo[h] /\ g2.hi[h] = g.hi[h]
        /\ \A i \in Nat : Owns(g, h, i) => ft2[g.c[h][i]] = ft[g.c[h][i]]
    BY <1>1
  <2>4. /\ FileOK(g, ft, nd[h], h) => FileOK(g2, ft2, nd[h], h)
        /\ Settled(g, ft, nd[h], h) => Settled(g2, ft2, nd[h], h)
    BY <2>3, SameFile
  <2> QED
    BY <2>2, <2>3, <2>4
<1>2. \A h \in Files : FileOK(g2, ft2, nd2[h], h)
  BY <1>1
<1>3. \A h \in Others(t2) : Settled(g2, ft2, nd2[h], h)
  BY <1>1 DEF Others
<1> QED
  BY <1>2, <1>3 DEF Agree

\* The stage of a call is told by its op.
LEMMA CallStage ==
  ASSUME NEW g, NEW us, NEW ft, NEW nd, NEW t, CallOK(g, us, ft, nd, t), t.op # "none"
  PROVE  /\ t # NoTask
         /\ t.f \in Files /\ t.n \in 0..ClusterCount /\ t.left \in Nat
         /\ t.erase \in BOOLEAN /\ t.rc \in {"ok", "ENOSPC"}
         /\ t.op = "grow" => GrowOK(g, ft, nd[t.f], t)
         /\ t.op = "link" => LinkOK(g, ft, nd[t.f], t)
         /\ t.op = "shrink" => ShrinkOK(g, us, ft, nd[t.f], t)
         /\ t.op = "free" => FreeOK(g, us, ft, nd[t.f], t)
         /\ t.op = "erase" => EraseOK(g, ft, nd[t.f], t)
<1>1. t # NoTask
  BY DEF NoTask
<1> QED
  BY <1>1 DEF CallOK, GrowOK, LinkOK, ShrinkOK, FreeOK, EraseOK

\* Without a call there is none.
LEMMA NoStage ==
  ASSUME NEW g, NEW us, NEW ft, NEW nd, NEW t, CallOK(g, us, ft, nd, t), t.op = "none"
  PROVE  t = NoTask
  BY DEF CallOK, GrowOK, LinkOK, ShrinkOK, FreeOK, EraseOK

\* What is known of a call in progress.
LEMMA CallFacts ==
  ASSUME NEW g \in Chains, Agree(g, used, fat, node, task), Running
  PROVE  /\ task # NoTask /\ task.f \in Files
         /\ task.n \in 0..ClusterCount /\ task.n \in Nat /\ task.n <= ClusterCount /\ task.left \in Nat
         /\ task.erase \in BOOLEAN /\ task.rc \in {"ok", "ENOSPC"}
         /\ node \in [Files -> Node] /\ fat \in [Data -> Data \cup {FREE, END}]
         /\ OwnedOnce(g, used)
         /\ FileOK(g, fat, node[task.f], task.f)
         /\ node[task.f] \in Node /\ node[task.f].size \in Nat
         /\ node[task.f].size <= ClusterCount
         /\ g.k[task.f] \in Nat /\ g.lo[task.f] \in Nat /\ g.hi[task.f] \in Nat
<1>1. CallOK(g, used, fat, node, task) /\ task.op # "none"
  BY DEF Agree, Running
<1>2. task # NoTask /\ task.f \in Files
      /\ task.n \in 0..ClusterCount /\ task.left \in Nat
      /\ task.erase \in BOOLEAN /\ task.rc \in {"ok", "ENOSPC"}
  BY <1>1, CallStage
<1>3. node[task.f] \in Node
  BY <1>2 DEF Agree
<1> QED
  BY <1>2, <1>3, ChainFields, ClusterNumbers DEF Agree, Node

\* exfat_truncate() begins.
LEMMA TruncateStep ==
  ASSUME ClustersInv, NEW f \in Files, NEW n \in 0..ClusterCount, NEW erase \in BOOLEAN,
         Truncate(f, n, erase)
  PROVE  ClustersInv'
<1>1. PICK g \in Chains : Agree(g, used, fat, node, task)
  BY DEF ClustersInv
<1> DEFINE x == node[f]
<1>2. /\ task.op = "none" /\ n # x.size
      /\ task' = [op |-> IF n > x.size THEN "grow" ELSE "shrink",
                  f |-> f, n |-> n, erase |-> erase, rc |-> "ok",
                  left |-> IF n > x.size THEN n - x.size ELSE x.size - n]
      /\ used' = used /\ fat' = fat /\ node' = node /\ result' = result /\ bug' = bug
  BY DEF Truncate
<1>3. task = NoTask
  BY <1>1, <1>2, NoStage DEF Agree
<1>4. /\ x \in Node /\ x.size \in Nat /\ n \in Nat /\ Settled(g, fat, x, f) /\ FileOK(g, fat, x, f)
  BY <1>1, <1>3, ClusterNumbers DEF Agree, Others, Node
<1>5. node \in [Files -> Node] /\ fat \in [Data -> Data \cup {FREE, END}] /\ OwnedOnce(g, used)
  BY <1>1 DEF Agree
<1> HIDE DEF x
<1>6. /\ task'.f = f /\ task'.n = n /\ task'.erase = erase /\ task'.rc = "ok"
      /\ task'.op # "none" /\ task'.left \in Nat /\ task'.left > 0
      /\ n > x.size => task'.op = "grow" /\ task'.left = n - x.size
      /\ n < x.size => task'.op = "shrink" /\ task'.left = x.size - n
  BY <1>2, <1>4
<1>7. task' # NoTask
  BY <1>6 DEF NoTask
<1>8. CallOK(g, used, fat, node, task')
  <2>1. CASE n > x.size
    <3>1. GrowOK(g, fat, node[task'.f], task')
      BY <1>4, <1>6, <2>1 DEF GrowOK, x
    <3> QED
      BY <1>6, <3>1 DEF CallOK
  <2>2. CASE n < x.size
    <3>1. ShrinkOK(g, used, fat, node[task'.f], task')
      BY <1>4, <1>6, <2>2 DEF ShrinkOK, Settled, x
    <3> QED
      BY <1>6, <3>1 DEF CallOK
  <2> QED
    BY <1>2, <1>4, <2>1, <2>2
<1>9. Agree(g, used, fat, node, task')
  BY <1>1, <1>3, <1>4, <1>5, <1>6, <1>7, <1>8, AgreeStep DEF x
<1>10. RefusedOK(result, used, node, task')
  BY <1>7 DEF ClustersInv, RefusedOK
<1> QED
  BY <1>2, <1>9, <1>10 DEF ClustersInv

\* The answer to an earlier call stays as it was while one is in progress.
LEMMA ResultKept ==
  ASSUME ClustersInv, result' = result, task' # NoTask
  PROVE  RefusedOK(result', used', node', task')
  BY DEF ClustersInv, RefusedOK

-----------------------------------------------------------------------------
(* Growing *)

\* The chain of f with one more cluster.
Grown(g, f, c) ==
  [c |-> [g.c EXCEPT ![f] = [g.c[f] EXCEPT ![g.k[f]] = c]],
   k |-> [g.k EXCEPT ![f] = g.k[f] + 1], lo |-> g.lo, hi |-> g.hi]

\* The chains after that.
LEMMA GrownFields ==
  ASSUME NEW g \in Chains, NEW f \in Files, NEW c \in Data
  PROVE  /\ Grown(g, f, c) \in Chains
         /\ Grown(g, f, c).k[f] = g.k[f] + 1
         /\ Grown(g, f, c).lo = g.lo /\ Grown(g, f, c).hi = g.hi
         /\ Grown(g, f, c).c[f][g.k[f]] = c
         /\ \A i \in Nat : i # g.k[f] => Grown(g, f, c).c[f][i] = g.c[f][i]
         /\ \A h \in Files : h # f =>
              Grown(g, f, c).c[h] = g.c[h] /\ Grown(g, f, c).k[h] = g.k[h]
<1>1. c \in Int /\ g.k[f] \in Nat /\ g.k[f] + 1 \in Nat /\ g.c[f] \in [Nat -> Int]
  BY ChainFields, ClusterNumbers
<1>2. [g.c[f] EXCEPT ![g.k[f]] = c] \in [Nat -> Int]
  BY <1>1
<1> QED
  BY <1>1, <1>2 DEF Chains, Grown

\* A free cluster can be appended.
LEMMA GrownOwned ==
  ASSUME NEW g \in Chains, NEW us, OwnedOnce(g, us), NEW f \in Files, NoRest(g, f),
         NEW c \in Data \ us
  PROVE  OwnedOnce(Grown(g, f, c), us \cup {c})
<1> DEFINE g2 == Grown(g, f, c)
           k == g.k[f]
<1>1. /\ g2.k[f] = k + 1 /\ g2.lo = g.lo /\ g2.hi = g.hi /\ g2.c[f][k] = c
      /\ \A i \in Nat : i # k => g2.c[f][i] = g.c[f][i]
      /\ \A h \in Files : h # f => g2.c[h] = g.c[h] /\ g2.k[h] = g.k[h]
  BY GrownFields
<1>2. k \in Nat /\ g.lo[f] \in Nat /\ g.hi[f] \in Nat /\ g.hi[f] <= g.lo[f]
  BY ChainFields DEF NoRest
<1> HIDE DEF g2, k
<1>3. \A i \in Nat : Owns(g2, f, i) <=> Owns(g, f, i) \/ i = k
  BY <1>1, <1>2 DEF Owns, k
<1>4. \A h \in Files, i \in Nat : h # f => (Owns(g2, h, i) <=> Owns(g, h, i))
  BY <1>1 DEF Owns
<1>5. ~Owns(g, f, k)
  BY <1>2 DEF Owns, k
<1>6. c \in Data \ Reserved
  BY DEF OwnedOnce
<1>7. \A h \in Files, i \in Nat : Owns(g2, h, i) =>
        \/ h = f /\ i = k /\ g2.c[h][i] = c
        \/ Owns(g, h, i) /\ g2.c[h][i] = g.c[h][i] /\ g.c[h][i] # c
  BY <1>1, <1>3, <1>4, <1>5 DEF OwnedOnce
<1>8. \A h \in Files, i \in Nat : Owns(g, h, i) => Owns(g2, h, i) /\ g2.c[h][i] = g.c[h][i]
  BY <1>1, <1>3, <1>4, <1>5
<1>9. Owns(g2, f, k) /\ k \in Nat
  BY <1>2, <1>3
<1>10. \A h \in Files, i \in Nat : Owns(g2, h, i) => g2.c[h][i] \in Data \ Reserved
  BY <1>6, <1>7 DEF OwnedOnce
<1>11. \A h1, h2 \in Files, i, j \in Nat :
         Owns(g2, h1, i) /\ Owns(g2, h2, j) /\ g2.c[h1][i] = g2.c[h2][j] => h1 = h2 /\ i = j
  BY <1>7 DEF OwnedOnce
<1>12. us \cup {c} \subseteq Data
  BY DEF OwnedOnce
<1>13. \A d \in Data : d \in us \cup {c} <=>
         d \in Reserved \/ \E h \in Files, i \in Nat : Owns(g2, h, i) /\ g2.c[h][i] = d
  <2> TAKE d \in Data
  <2>1. CASE d = c
    BY <1>1, <1>9, <2>1
  <2>2. CASE d # c
    BY <1>7, <1>8, <2>2 DEF OwnedOnce
  <2> QED
    BY <2>1, <2>2
<1> QED
  BY <1>10, <1>11, <1>12, <1>13 DEF OwnedOnce, g2

\* What the start cluster tells about the chain.
LEMMA StartTells ==
  ASSUME NEW g \in Chains, NEW us, OwnedOnce(g, us), NEW f \in Files, NEW ft, NEW x,
         FileOK(g, ft, x, f)
  PROVE  (x.start = FREE) <=> (g.k[f] = 0)
<1>1. g.k[f] \in Nat
  BY ChainFields
<1>2. g.k[f] > 0 => x.start = g.c[f][0] /\ Owns(g, f, 0)
  BY DEF FileOK, Pointed, Owns
<1>3. g.k[f] > 0 => x.start \in Data
  BY <1>2 DEF OwnedOnce
<1> QED
  BY <1>1, <1>3, ClusterNumbers DEF FileOK, Pointed

\* A full volume has no free clusters.
LEMMA EmptySpace ==
  ASSUME NEW us, Data \ us = {}
  PROVE  Cardinality(Data \ us) = 0
  BY FS_EmptySet

\* grow_file() on an empty file.
LEMMA GrowFirstStep ==
  ASSUME ClustersInv, GrowFirst
  PROVE  ClustersInv'
<1>1. PICK g \in Chains : Agree(g, used, fat, node, task)
  BY DEF ClustersInv
<1> DEFINE f == task.f
           x == node[f]
           c == Allocate(0)
<1>2. Running /\ task.op = "grow" /\ x.start = FREE
  BY DEF GrowFirst
<1>3. /\ task # NoTask /\ f \in Files /\ task.n \in 0..ClusterCount /\ task.n \in Nat
      /\ task.left \in Nat /\ task.erase \in BOOLEAN
      /\ node \in [Files -> Node] /\ fat \in [Data -> Data \cup {FREE, END}]
      /\ OwnedOnce(g, used) /\ FileOK(g, fat, x, f) /\ x \in Node /\ x.size \in Nat
  BY <1>1, <1>2, CallFacts
<1>4. GrowOK(g, fat, x, task)
  BY <1>1, <1>2, CallStage DEF Agree
<1>5. g.k[f] = 0
  BY <1>2, <1>3, StartTells
<1>6. x.fi = 0 /\ x.fc = FREE /\ x.size = 0 /\ task.left = task.n /\ task.n > 0 /\ NoRest(g, f)
      /\ Settled(g, fat, x, f)
  BY <1>3, <1>4, <1>5 DEF GrowOK, FileOK, Pointed, Settled
<1>7. CASE c = END
  <2>1. /\ task' = NoTask /\ result' = [rc |-> "ENOSPC", f |-> f, n |-> task.n]
        /\ used' = used /\ fat' = fat /\ node' = node /\ bug' = bug
    BY <1>6, <1>7 DEF GrowFirst, Return
  <2>2. Data \ used = {}
    BY <1>7, AllocateEffect, ClusterNumbers
  <2>3. Cardinality(Data \ used) = 0
    BY <2>2, EmptySpace
  <2>4. RefusedOK(result', used', node', task')
    BY <1>3, <1>6, <2>1, <2>3 DEF RefusedOK
  <2>5. Agree(g, used, fat, node, NoTask)
    <3>1. CallOK(g, used, fat, node, NoTask)
      BY DEF CallOK
    <3> QED
      BY <1>1, <1>3, <1>6, <3>1, AgreeStep
  <2> QED
    BY <1>1, <2>1, <2>4, <2>5 DEF ClustersInv
<1>8. CASE c # END
  <2> DEFINE g2 == Grown(g, f, c)
             y == [x EXCEPT !.start = c, !.fc = c, !.contig = TRUE]
  <2>1. /\ used' = used \cup {c}
        /\ node' = [node EXCEPT ![f].start = c, ![f].fc = c, ![f].contig = TRUE]
        /\ task' = [op |-> "link", f |-> f, n |-> task.n, erase |-> task.erase, rc |-> "ok",
                    left |-> task.left - 1, prev |-> c, new |-> 1]
        /\ fat' = fat /\ result' = result /\ bug' = bug
    BY <1>6, <1>8 DEF GrowFirst
  <2>2. c \in Data \ used
    BY <1>8, AllocateEffect
  <2>3. node' = [node EXCEPT ![f] = y]
    BY <1>3, <2>1
  <2>4. /\ y \in Node /\ y.start = c /\ y.fc = c /\ y.contig = TRUE /\ y.fi = 0
        /\ y.size = 0 /\ y.valid = x.valid
    BY <1>3, <1>6, <2>2 DEF Node
  <2> HIDE DEF c, y
  <2>5. /\ g2 \in Chains /\ g2.k[f] = 1 /\ g2.lo = g.lo /\ g2.hi = g.hi /\ g2.c[f][0] = c
        /\ \A h \in Files : h # f => g2.c[h] = g.c[h] /\ g2.k[h] = g.k[h]
    BY <1>3, <1>5, <2>2, GrownFields
  <2>6. OwnedOnce(g2, used \cup {c})
    BY <1>3, <1>6, <2>2, GrownOwned
  <2> HIDE DEF g2
  <2>7. FileOK(g2, fat, y, f)
    <3>1. Pointed(g2, y, f)
      BY <2>4, <2>5 DEF Pointed
    <3>2. NoRest(g2, f)
      BY <1>6, <2>5 DEF NoRest
    <3>3. Chained(g2, fat, y, f)
      <4>1. g.lo[f] \in Nat /\ g.hi[f] \in Nat
        BY <1>3, ChainFields
      <4>2. \A i \in Nat : ~Owns(g2, f, i + 1)
        BY <2>5, <3>2, <4>1 DEF Owns, NoRest
      <4> QED
        BY <4>2 DEF Chained
    <3>4. g.lo[f] \in Nat /\ g.hi[f] \in Nat /\ ~(g2.lo[f] < g2.hi[f])
      BY <1>3, <2>5, <3>2, ChainFields DEF NoRest
    <3>5. y.valid <= y.size
      BY <1>3, <1>6, <2>4 DEF FileOK
    <3> QED
      BY <2>4, <3>1, <3>3, <3>4, <3>5 DEF FileOK
  <2>8. /\ node'[f] = y /\ node' \in [Files -> Node]
        /\ \A h \in Files : h # f => node'[h] = node[h]
    BY <1>3, <2>3, <2>4
  <2>9. task' # NoTask /\ task'.f = f
    BY <2>1 DEF NoTask
  <2>10. LinkOK(g2, fat, y, task')
    <3>1. task'.op = "link" /\ task'.new = 1 /\ task'.prev = c /\ task'.n = task.n /\ task'.left = task.left - 1
      BY <2>1
    <3> QED
      BY <1>3, <1>6, <2>4, <2>5, <2>9, <3>1 DEF LinkOK, NoRest
  <2>11. CallOK(g2, used', fat', node', task')
    <3>1. task'.left \in Nat /\ task'.erase = task.erase /\ task'.rc = "ok" /\ task'.n = task.n
      BY <1>3, <1>6, <2>1
    <3> QED
      BY <1>3, <2>1, <2>8, <2>9, <2>10, <3>1 DEF CallOK
  <2>12. Agree(g2, used', fat', node', task')
    <3>1. \A h \in Files : h # f =>
            /\ node'[h] = node[h] /\ g2.c[h] = g.c[h] /\ g2.k[h] = g.k[h]
            /\ g2.lo[h] = g.lo[h] /\ g2.hi[h] = g.hi[h]
            /\ \A i \in Nat : Owns(g, h, i) => fat'[g.c[h][i]] = fat[g.c[h][i]]
      BY <2>1, <2>5, <2>8
    <3>2. OwnedOnce(g2, used') /\ FileOK(g2, fat', node'[f], f)
          /\ fat' \in [Data -> Data \cup {FREE, END}]
      BY <1>3, <2>1, <2>6, <2>7, <2>8
    <3> HIDE DEF f
    <3> QED
      BY <1>1, <1>3, <2>5, <2>8, <2>9, <2>11, <3>1, <3>2, AgreeStep DEF f
  <2>13. RefusedOK(result', used', node', task')
    BY <2>1, <2>9, ResultKept
  <2> QED
    BY <2>1, <2>5, <2>12, <2>13 DEF ClustersInv
<1> QED
  BY <1>7, <1>8

\* Another position in the same chain.
LEMMA Repositioned ==
  ASSUME NEW g \in Chains, NEW us, OwnedOnce(g, us), NEW f \in Files, NEW ft, NEW x,
         FileOK(g, ft, x, f), NEW i \in Nat, i < g.k[f], i <= Wrapped,
         NEW y, y = Moved(x, i, g.c[f][i])
  PROVE  /\ FileOK(g, ft, y, f) /\ y.fc = g.c[f][i] /\ y.fc \in Data /\ y.fi = i
         /\ y.start = x.start /\ y.contig = x.contig /\ y.size = x.size /\ y.valid = x.valid
         /\ Settled(g, ft, x, f) => Settled(g, ft, y, f)
         /\ Ended(g, ft, x, f) => Ended(g, ft, y, f)
<1>1. Owns(g, f, i)
  BY DEF Owns
<1>2. g.c[f][i] \in Data
  BY <1>1 DEF OwnedOnce
<1>3. x \in Node /\ x.valid <= x.size
  BY DEF FileOK
<1>4. i \in 0..Wrapped
  BY ClusterNumbers
<1>5. /\ y \in Node /\ y.fi = i /\ y.fc = g.c[f][i]
      /\ y.start = x.start /\ y.contig = x.contig /\ y.size = x.size /\ y.valid = x.valid
  BY <1>2, <1>3, <1>4 DEF Node, Moved
<1>6. Pointed(g, y, f)
  BY <1>5, ChainFields DEF FileOK, Pointed
<1>7. Chained(g, ft, y, f)
  BY <1>5 DEF FileOK, Chained
<1> QED
  BY <1>2, <1>3, <1>5, <1>6, <1>7 DEF FileOK, Settled, Ended

\* grow_file() on a file that has clusters.
LEMMA GrowFromLastStep ==
  ASSUME Faults = {}, ClustersInv, GrowFromLast
  PROVE  ClustersInv'
<1>1. PICK g \in Chains : Agree(g, used, fat, node, task)
  BY DEF ClustersInv
<1> DEFINE f == task.f
           x == node[f]
           last == g.k[f] - 1
           y == Moved(x, last, g.c[f][last])
<1>2. Running /\ task.op = "grow" /\ x.start # FREE
  BY DEF GrowFromLast
<1>3. /\ task # NoTask /\ f \in Files /\ task.n \in 0..ClusterCount /\ task.n \in Nat
      /\ task.left \in Nat /\ task.erase \in BOOLEAN
      /\ node \in [Files -> Node] /\ fat \in [Data -> Data \cup {FREE, END}]
      /\ OwnedOnce(g, used) /\ FileOK(g, fat, x, f) /\ x \in Node /\ x.size \in Nat
      /\ x.size <= ClusterCount /\ g.k[f] \in Nat
  BY <1>1, <1>2, CallFacts
<1>4. GrowOK(g, fat, x, task)
  BY <1>1, <1>2, CallStage DEF Agree
<1>5. g.k[f] # 0
  BY <1>2, <1>3, StartTells
<1>6. /\ g.k[f] = x.size /\ x.size > 0 /\ last \in Nat /\ last < g.k[f] /\ last <= Wrapped
      /\ last = x.size - 1 /\ x.size # 0
  BY <1>3, <1>4, <1>5, ClusterNumbers DEF GrowOK, Settled
<1>7. /\ x.size < task.n /\ task.left = task.n - x.size /\ Settled(g, fat, x, f)
  BY <1>4 DEF GrowOK
<1> HIDE DEF last, x, f
<1>8. ~AdvanceBug(x, last) /\ Advance(x, last, "grow" \in Faults) = {y}
  <2>1. g \in Chains /\ OwnedOnce(g, used) /\ f \in Files /\ FileOK(g, fat, x, f)
    BY <1>3
  <2>2. last \in Nat /\ last < g.k[f] /\ last <= Wrapped
    BY <1>6
  <2>3. Faults = {}
    OBVIOUS
  <2>4. ~AdvanceBug(x, last)
    BY <2>1, <2>2, <2>3, AdvanceEffect
  <2>5. Advance(x, last, "grow" \in Faults) = {Moved(x, last, g.c[f][last])}
    BY <2>1, <2>2, <2>3, AdvanceEffect
  <2> QED
    BY <2>4, <2>5
<1>9. /\ FileOK(g, fat, y, f) /\ y.fc = g.c[f][last] /\ y.fc \in Data /\ y.size = x.size
      /\ Settled(g, fat, y, f)
  <2> HIDE DEF y
  <2>1. y = Moved(x, last, g.c[f][last])
    BY DEF y
  <2>2. g \in Chains /\ OwnedOnce(g, used) /\ f \in Files /\ FileOK(g, fat, x, f)
    BY <1>3
  <2>3. last \in Nat /\ last < g.k[f] /\ last <= Wrapped
    BY <1>6
  <2>4. FileOK(g, fat, y, f) /\ y.fc = g.c[f][last] /\ y.fc \in Data /\ y.size = x.size
    BY <2>1, <2>2, <2>3, Repositioned
  <2> QED
    BY <1>7, <2>1, <2>2, <2>3, <2>4, Repositioned
<1> USE DEF f, x
<1>10. /\ node' = [node EXCEPT ![f] = y]
       /\ task' = [op |-> "link", f |-> f, n |-> task.n, erase |-> task.erase, rc |-> "ok",
                   left |-> task.left, prev |-> y.fc, new |-> 0]
       /\ result' = result /\ used' = used /\ fat' = fat /\ bug' = bug
  <2> HIDE DEF y
  <2> QED
    BY <1>6, <1>8, <1>9 DEF GrowFromLast, Invalid
<1> HIDE DEF y
<1>11. y \in Node
  BY <1>9 DEF FileOK
<1>12. /\ node'[f] = y /\ node' \in [Files -> Node]
       /\ \A h \in Files : h # f => node'[h] = node[h]
  BY <1>3, <1>10, <1>11
<1>13. task' # NoTask /\ task'.f = f
  BY <1>10 DEF NoTask
<1>14. LinkOK(g, fat, y, task')
  <2>1. task'.op = "link" /\ task'.new = 0 /\ task'.prev = y.fc /\ task'.n = task.n /\ task'.left = task.left
    BY <1>10
  <2>2. NoRest(g, f) /\ Ended(g, fat, y, f)
    BY <1>9 DEF Settled
  <2> QED
    BY <1>3, <1>6, <1>7, <1>9, <1>13, <2>1, <2>2 DEF LinkOK, last
<1>15. CallOK(g, used', fat', node', task')
  <2>1. task'.left \in Nat /\ task'.erase = task.erase /\ task'.rc = "ok" /\ task'.n = task.n
    BY <1>3, <1>10
  <2> QED
    BY <1>3, <1>10, <1>12, <1>13, <1>14, <2>1 DEF CallOK
<1>16. Agree(g, used', fat', node', task')
  <2>1. \A h \in Files : h # f =>
          /\ node'[h] = node[h] /\ g.c[h] = g.c[h] /\ g.k[h] = g.k[h]
          /\ g.lo[h] = g.lo[h] /\ g.hi[h] = g.hi[h]
          /\ \A j \in Nat : Owns(g, h, j) => fat'[g.c[h][j]] = fat[g.c[h][j]]
    BY <1>10, <1>12
  <2>2. OwnedOnce(g, used') /\ FileOK(g, fat', node'[f], f)
        /\ fat' \in [Data -> Data \cup {FREE, END}]
    BY <1>3, <1>9, <1>10, <1>12
  <2> HIDE DEF f
  <2> QED
    BY <1>1, <1>3, <1>12, <1>13, <1>15, <2>1, <2>2, AgreeStep DEF f
<1>17. RefusedOK(result', used', node', task')
  BY <1>10, <1>13, ResultKept
<1> QED
  BY <1>10, <1>16, <1>17 DEF ClustersInv

\* The clusters of a contiguous file follow one another.
LEMMA ContiguousChain ==
  ASSUME NEW g \in Chains, NEW f \in Files, NEW ft, NEW x, Chained(g, ft, x, f), x.contig,
         NEW n \in Nat, n < g.k[f]
  PROVE  g.c[f][n] = g.c[f][0] + n
<1> DEFINE S == {i \in Nat : i < g.k[f] /\ g.c[f][i] # g.c[f][0] + i}
<1> SUFFICES ASSUME S # {} PROVE FALSE
  OBVIOUS
<1>1. PICK i \in S : \A j \in S : i <= j
  <2>1. S \in SUBSET Nat
    OBVIOUS
  <2> HIDE DEF S
  <2> QED
    BY <2>1, LeastNatural
<1>2. g.k[f] \in Nat /\ \A j \in Nat : g.c[f][j] \in Int
  BY ChainFields
<1>3. i \in Nat /\ i < g.k[f] /\ g.c[f][i] # g.c[f][0] + i /\ i # 0
  BY <1>2
<1> DEFINE b == i - 1
<1>4. b \in Nat /\ b + 1 = i /\ b \notin S /\ b < g.k[f]
  BY <1>1, <1>2, <1>3
<1>5. g.c[f][b] = g.c[f][0] + b
  BY <1>4
<1> HIDE DEF b, S
<1>6. Owns(g, f, b) /\ Owns(g, f, b + 1) /\ b + 1 # g.k[f]
  BY <1>2, <1>3, <1>4 DEF Owns
<1>7. g.c[f][b + 1] = g.c[f][b] + 1
  BY <1>4, <1>6 DEF Chained
<1>8. g.c[f][i] = g.c[f][b] + 1
  BY <1>4, <1>7
<1> QED
  BY <1>2, <1>3, <1>4, <1>5, <1>8

\* A file whose chain got one more cluster, linked to the others.
LEMMA GrownFile ==
  ASSUME NEW g \in Chains, NEW us, OwnedOnce(g, us), NEW f \in Files, NoRest(g, f),
         NEW ft, NEW x, FileOK(g, ft, x, f), g.k[f] > 0, NEW c \in Data \ us,
         NEW p, p = g.c[f][g.k[f] - 1],
         NEW ft2, NEW y \in Node,
         y.start = x.start, y.fi = x.fi, y.fc = x.fc, y.size = x.size, y.valid = x.valid,
         y.contig => x.contig /\ c = p + 1,
         ~y.contig => /\ ft2[p] = c
                      /\ \A i \in Nat : i + 1 < g.k[f] => ft2[g.c[f][i]] = g.c[f][i + 1]
  PROVE  FileOK(Grown(g, f, c), ft2, y, f)
<1> DEFINE g2 == Grown(g, f, c)
           k == g.k[f]
<1>1. /\ g2.k[f] = k + 1 /\ g2.lo = g.lo /\ g2.hi = g.hi /\ g2.c[f][k] = c
      /\ \A i \in Nat : i # k => g2.c[f][i] = g.c[f][i]
  BY GrownFields
<1>2. k \in Nat /\ k > 0 /\ g.lo[f] \in Nat /\ g.hi[f] \in Nat /\ g.hi[f] <= g.lo[f]
  BY ChainFields DEF NoRest
<1>3. Pointed(g, x, f) /\ Chained(g, ft, x, f) /\ x.fi \in Nat /\ x.valid <= x.size
  BY ClusterNumbers DEF FileOK, Node
<1>4. /\ \A i \in Nat : i + 1 < k => Owns(g, f, i) /\ Owns(g, f, i + 1) /\ i + 1 # k
      /\ \A i \in Nat : i + 1 < k =>
           IF y.contig THEN g.c[f][i + 1] = g.c[f][i] + 1 ELSE ft2[g.c[f][i]] = g.c[f][i + 1]
  <2>1. \A i \in Nat : i + 1 < k => Owns(g, f, i) /\ Owns(g, f, i + 1) /\ i + 1 # k
    BY <1>2 DEF Owns
  <2> QED
    BY <1>3, <2>1 DEF Chained
<1>5. \A i \in Nat : i + 1 = k =>
        IF y.contig THEN c = g.c[f][i] + 1 ELSE ft2[g.c[f][i]] = c
  <2>1. \A i \in Nat : i + 1 = k => i = k - 1
    BY <1>2
  <2> QED
    BY <2>1
<1> HIDE DEF g2
<1>6. Pointed(g2, y, f)
  <2>1. x.fi < k /\ x.start = g.c[f][0] /\ x.fc = g.c[f][x.fi] /\ 0 # k
    BY <1>2, <1>3 DEF Pointed
  <2> HIDE DEF k
  <2>2. y.fi < k + 1
    BY <1>2, <1>3, <2>1
  <2>3. g2.c[f][0] = g.c[f][0] /\ g2.c[f][x.fi] = g.c[f][x.fi]
    BY <1>1, <1>2, <1>3, <2>1
  <2> QED
    BY <1>1, <1>2, <2>1, <2>2, <2>3 DEF Pointed
<1>7. Chained(g2, ft2, y, f)
  <2> SUFFICES ASSUME NEW i \in Nat, Owns(g2, f, i), Owns(g2, f, i + 1), i + 1 # k + 1
               PROVE  IF y.contig THEN g2.c[f][i + 1] = g2.c[f][i] + 1
                      ELSE ft2[g2.c[f][i]] = g2.c[f][i + 1]
    BY <1>1 DEF Chained
  <2>1. i + 1 < k \/ i + 1 = k
    BY <1>1, <1>2 DEF Owns
  <2> HIDE DEF k
  <2> DEFINE j == i + 1
  <2>2. j \in Nat /\ i # k
    BY <1>2, <2>1
  <2>3. g2.c[f][i] = g.c[f][i]
    BY <1>1, <2>2
  <2>4. CASE j < k
    <3>1. IF y.contig THEN g.c[f][j] = g.c[f][i] + 1 ELSE ft2[g.c[f][i]] = g.c[f][j]
      BY <1>4, <2>4
    <3>2. j # k
      BY <1>2, <2>4
    <3> HIDE DEF j
    <3>3. g2.c[f][j] = g.c[f][j]
      BY <1>1, <2>2, <3>2
    <3>4. IF y.contig THEN g2.c[f][j] = g2.c[f][i] + 1 ELSE ft2[g2.c[f][i]] = g2.c[f][j]
      BY <2>3, <3>1, <3>3
    <3> QED
      BY <3>4 DEF j
  <2>5. CASE j = k
    <3>1. IF y.contig THEN c = g.c[f][i] + 1 ELSE ft2[g.c[f][i]] = c
      BY <1>5, <2>5
    <3> QED
      BY <1>1, <2>3, <2>5, <3>1
  <2> QED
    BY <2>1, <2>4, <2>5
<1> QED
  BY <1>1, <1>2, <1>3, <1>6, <1>7 DEF FileOK, g2

\* make_noncontiguous() links the clusters of f, and touches no others.
LEMMA LinkedChain ==
  ASSUME NEW g \in Chains, NEW us, OwnedOnce(g, us), NEW f \in Files, NEW x,
         FileOK(g, fat, x, f), g.k[f] > 0, NEW p, p = g.c[f][g.k[f] - 1],
         x.contig, fat \in [Data -> Data \cup {FREE, END}]
  PROVE  /\ Linked(x.start, p) \in [Data -> Data \cup {FREE, END}]
         /\ \A i \in Nat : i + 1 < g.k[f] => Linked(x.start, p)[g.c[f][i]] = g.c[f][i + 1]
         /\ \A d \in Data : (\A i \in Nat : i < g.k[f] => g.c[f][i] # d) =>
              Linked(x.start, p)[d] = fat[d]
<1> DEFINE k == g.k[f]
           s == g.c[f][0]
           L == Linked(x.start, p)
<1>1. /\ k \in Nat /\ k > 0 /\ k - 1 \in Nat /\ x.start = s /\ Chained(g, fat, x, f)
      /\ \A i \in Nat : i < k => g.c[f][i] \in Data
  <2>1. \A i \in Nat : i < k => Owns(g, f, i)
    BY DEF Owns
  <2> QED
    BY <2>1, ChainFields DEF FileOK, Pointed, OwnedOnce
<1>2. \A i \in Nat : i < k => g.c[f][i] = s + i
  BY <1>1, ContiguousChain
<1> HIDE DEF k, s
<1>3. s \in Data /\ p \in Data /\ p = s + (k - 1)
  BY <1>1, <1>2 DEF k, s
<1>4. \A d \in s..(p - 1) : d + 1 \in Data
  BY <1>3, ClusterNumbers DEF Data
<1>5. L = [d \in Data |-> IF d \in s..(p - 1) THEN d + 1 ELSE fat[d]]
  BY <1>1 DEF Linked
<1> HIDE DEF L
<1>6. L \in [Data -> Data \cup {FREE, END}]
  BY <1>4, <1>5
<1>7. ASSUME NEW i \in Nat, i + 1 < k
      PROVE  L[g.c[f][i]] = g.c[f][i + 1]
  <2>1. i < k /\ i + 1 \in Nat
    BY <1>1, <1>7
  <2>2. g.c[f][i] = s + i /\ g.c[f][i + 1] = s + (i + 1) /\ g.c[f][i] \in Data
    BY <1>1, <1>2, <1>7, <2>1
  <2>3. s \in Int /\ s + i \in s..(p - 1) /\ (s + i) + 1 = s + (i + 1)
    BY <1>1, <1>3, <1>7, ClusterNumbers
  <2> QED
    BY <1>5, <2>2, <2>3
<1>8. ASSUME NEW d \in Data, \A i \in Nat : i < k => g.c[f][i] # d
      PROVE  L[d] = fat[d]
  <2>1. d \notin s..(p - 1)
    <3> SUFFICES ASSUME d \in s..(p - 1) PROVE FALSE
      OBVIOUS
    <3>1. s \in Int /\ d - s \in Nat /\ d - s < k /\ s + (d - s) = d
      BY <1>1, <1>3, ClusterNumbers
    <3> QED
      BY <1>2, <1>8, <3>1
  <2> QED
    BY <1>5, <2>1
<1> QED
  BY <1>6, <1>7, <1>8 DEF L, k

\* The FAT after one more cluster c behind p in the chain of x.
GrownFat(x, p, c) ==
  LET breaks == x.contig /\ c # p + 1
      linked == IF breaks THEN Linked(x.start, p) ELSE fat
  IN  IF x.contig /\ ~breaks THEN fat ELSE [linked EXCEPT ![p] = c]

\* It has the links of the chain, and those of all other files.
LEMMA GrownLinks ==
  ASSUME NEW g \in Chains, NEW us, OwnedOnce(g, us), NEW f \in Files, NEW x,
         FileOK(g, fat, x, f), g.k[f] > 0, NEW p, p = g.c[f][g.k[f] - 1], NEW c \in Data,
         fat \in [Data -> Data \cup {FREE, END}]
  PROVE  /\ GrownFat(x, p, c) \in [Data -> Data \cup {FREE, END}]
         /\ ~(x.contig /\ c = p + 1) =>
              /\ GrownFat(x, p, c)[p] = c
              /\ \A i \in Nat : i + 1 < g.k[f] => GrownFat(x, p, c)[g.c[f][i]] = g.c[f][i + 1]
         /\ \A d \in Data : (\A i \in Nat : i < g.k[f] => g.c[f][i] # d) =>
              GrownFat(x, p, c)[d] = fat[d]
<1> DEFINE k == g.k[f]
           G == GrownFat(x, p, c)
<1>1. /\ k \in Nat /\ k > 0 /\ k - 1 \in Nat /\ k - 1 < k /\ Chained(g, fat, x, f)
      /\ \A i \in Nat : i < k => Owns(g, f, i) /\ g.c[f][i] \in Data
  <2>1. \A i \in Nat : i < k => Owns(g, f, i)
    BY DEF Owns
  <2> QED
    BY <2>1, ChainFields DEF FileOK, OwnedOnce
<1>2. p \in Data
  BY <1>1
<1>3. \A i \in Nat : i + 1 < k => i < k /\ g.c[f][i] # p /\ g.c[f][i] \in Data
  <2>1. \A i \in Nat : i + 1 < k => i < k /\ i # k - 1
    BY <1>1
  <2> QED
    BY <1>1, <2>1 DEF OwnedOnce
<1>4. CASE x.contig /\ c = p + 1
  BY <1>4 DEF GrownFat
<1>5. CASE x.contig /\ c # p + 1
  <2> DEFINE L == Linked(x.start, p)
  <2>1. G = [L EXCEPT ![p] = c]
    BY <1>5 DEF GrownFat
  <2>2. /\ L \in [Data -> Data \cup {FREE, END}]
        /\ \A i \in Nat : i + 1 < k => L[g.c[f][i]] = g.c[f][i + 1]
        /\ \A d \in Data : (\A i \in Nat : i < k => g.c[f][i] # d) => L[d] = fat[d]
    BY <1>5, LinkedChain
  <2> HIDE DEF L, G
  <2>3. G[p] = c /\ \A d \in Data : d # p => G[d] = L[d]
    BY <1>2, <2>1, <2>2
  <2>4. \A d \in Data : (\A i \in Nat : i < k => g.c[f][i] # d) => d # p
    BY <1>1
  <2>5. G \in [Data -> Data \cup {FREE, END}]
    BY <2>1, <2>2
  <2>6. \A i \in Nat : i + 1 < k => G[g.c[f][i]] = g.c[f][i + 1]
    BY <1>3, <2>2, <2>3
  <2>7. \A d \in Data : (\A i \in Nat : i < k => g.c[f][i] # d) => G[d] = fat[d]
    BY <2>2, <2>3, <2>4
  <2> QED
    BY <2>3, <2>5, <2>6, <2>7 DEF G
<1>6. CASE ~x.contig
  <2>1. G = [fat EXCEPT ![p] = c]
    BY <1>6 DEF GrownFat
  <2>2. \A i \in Nat : i + 1 < k => fat[g.c[f][i]] = g.c[f][i + 1]
    <3>1. \A i \in Nat : i + 1 < k => Owns(g, f, i) /\ Owns(g, f, i + 1) /\ i + 1 # k
      BY <1>1, <1>3
    <3> QED
      BY <1>1, <1>6, <3>1 DEF Chained
  <2> HIDE DEF G
  <2>3. G[p] = c /\ \A d \in Data : d # p => G[d] = fat[d]
    BY <1>2, <2>1
  <2>4. \A d \in Data : (\A i \in Nat : i < k => g.c[f][i] # d) => d # p
    BY <1>1
  <2>5. G \in [Data -> Data \cup {FREE, END}]
    BY <2>1
  <2>6. \A i \in Nat : i + 1 < k => G[g.c[f][i]] = g.c[f][i + 1]
    BY <1>3, <2>2, <2>3
  <2>7. \A d \in Data : (\A i \in Nat : i < k => g.c[f][i] # d) => G[d] = fat[d]
    BY <2>3, <2>4
  <2> QED
    BY <2>3, <2>5, <2>6, <2>7 DEF G
<1> QED
  BY <1>4, <1>5, <1>6

\* A change of the FAT at clusters of f changes no other chain.
LEMMA OthersUntouched ==
  ASSUME NEW g \in Chains, NEW us, OwnedOnce(g, us), NEW f \in Files, NEW ft, NEW ft2,
         \A d \in Data : (\A i \in Nat : Owns(g, f, i) => g.c[f][i] # d) => ft2[d] = ft[d]
  PROVE  \A h \in Files : h # f =>
           \A i \in Nat : Owns(g, h, i) => ft2[g.c[h][i]] = ft[g.c[h][i]]
<1> SUFFICES ASSUME NEW h \in Files, h # f, NEW i \in Nat, Owns(g, h, i)
             PROVE  ft2[g.c[h][i]] = ft[g.c[h][i]]
  OBVIOUS
<1>1. g.c[h][i] \in Data
  BY DEF OwnedOnce
<1>2. \A j \in Nat : Owns(g, f, j) => g.c[f][j] # g.c[h][i]
  BY DEF OwnedOnce
<1> QED
  BY <1>1, <1>2

\* grow_file() appends one more cluster.
LEMMA GrowNextStep ==
  ASSUME Faults = {}, ClustersInv, GrowNext
  PROVE  ClustersInv'
<1>1. PICK g \in Chains : Agree(g, used, fat, node, task)
  BY DEF ClustersInv
<1> DEFINE f == task.f
           x == node[f]
           p == task.prev
           c == Allocate(p + 1)
           y == [x EXCEPT !.contig = x.contig /\ c = p + 1]
           g2 == Grown(g, f, c)
<1>2. Running /\ task.op = "link" /\ task.left > 0 /\ c # END
  BY DEF GrowNext
<1>3. /\ task # NoTask /\ f \in Files /\ task.n \in 0..ClusterCount /\ task.n \in Nat
      /\ task.left \in Nat /\ task.erase \in BOOLEAN /\ task.rc \in {"ok", "ENOSPC"}
      /\ node \in [Files -> Node] /\ fat \in [Data -> Data \cup {FREE, END}]
      /\ OwnedOnce(g, used) /\ FileOK(g, fat, x, f) /\ x \in Node /\ x.size \in Nat
      /\ g.k[f] \in Nat
  BY <1>1, <1>2, CallFacts
<1>4. LinkOK(g, fat, x, task)
  BY <1>1, <1>2, CallStage DEF Agree
<1>5. /\ NoRest(g, f) /\ task.new \in Nat /\ x.size < task.n /\ g.k[f] = x.size + task.new
      /\ g.k[f] + task.left = task.n /\ g.k[f] > 0 /\ p = g.c[f][g.k[f] - 1]
  BY <1>4 DEF LinkOK
<1>6. c \in Data \ used
  BY <1>2, AllocateEffect
<1>7. /\ used' = used \cup {c}
      /\ node' = [node EXCEPT ![f].contig = @ /\ ~(x.contig /\ c # p + 1)]
      /\ fat' = GrownFat(x, p, c)
      /\ task' = [task EXCEPT !.left = @ - 1, !.prev = c, !.new = @ + 1]
      /\ result' = result /\ bug' = bug
  BY DEF GrowNext, GrownFat
<1> HIDE DEF c, p
<1>8. /\ y \in Node /\ y.start = x.start /\ y.fi = x.fi /\ y.fc = x.fc /\ y.size = x.size
      /\ y.valid = x.valid /\ (y.contig <=> x.contig /\ c = p + 1)
  BY <1>3 DEF Node
<1>9. /\ node'[f] = y /\ node' \in [Files -> Node]
      /\ \A h \in Files : h # f => node'[h] = node[h]
  <2>1. node' = [node EXCEPT ![f] = [x EXCEPT !.contig = x.contig /\ ~(x.contig /\ c # p + 1)]]
    BY <1>3, <1>7
  <2>2. (x.contig /\ ~(x.contig /\ c # p + 1)) = (x.contig /\ c = p + 1)
    OBVIOUS
  <2>3. node' = [node EXCEPT ![f] = y]
    BY <2>1, <2>2
  <2> HIDE DEF y, x
  <2> QED
    BY <1>3, <1>8, <2>3
<1> HIDE DEF y, x, f
<1>10. /\ GrownFat(x, p, c) \in [Data -> Data \cup {FREE, END}]
       /\ ~(x.contig /\ c = p + 1) =>
              /\ GrownFat(x, p, c)[p] = c
              /\ \A i \in Nat : i + 1 < g.k[f] => GrownFat(x, p, c)[g.c[f][i]] = g.c[f][i + 1]
       /\ \A d \in Data : (\A i \in Nat : i < g.k[f] => g.c[f][i] # d) =>
              GrownFat(x, p, c)[d] = fat[d]
  BY <1>3, <1>5, <1>6, GrownLinks
<1>11. FileOK(g2, fat', y, f)
  <2>1. y.contig => x.contig /\ c = p + 1
    BY <1>8
  <2>2. ~y.contig => /\ fat'[p] = c
                     /\ \A i \in Nat : i + 1 < g.k[f] => fat'[g.c[f][i]] = g.c[f][i + 1]
    BY <1>7, <1>8, <1>10
  <2> QED
    BY <1>3, <1>5, <1>6, <1>8, <2>1, <2>2, GrownFile
<1>12. /\ g2 \in Chains /\ g2.k[f] = g.k[f] + 1 /\ g2.lo = g.lo /\ g2.hi = g.hi
       /\ g2.c[f][g.k[f]] = c
       /\ \A h \in Files : h # f => g2.c[h] = g.c[h] /\ g2.k[h] = g.k[h]
  BY <1>3, <1>6, GrownFields
<1>13. OwnedOnce(g2, used')
  BY <1>3, <1>5, <1>6, <1>7, GrownOwned
<1> HIDE DEF g2
<1>14. \A h \in Files : h # f =>
         \A i \in Nat : Owns(g, h, i) => fat'[g.c[h][i]] = fat[g.c[h][i]]
  <2>1. \A i \in Nat : i < g.k[f] => Owns(g, f, i)
    BY DEF Owns
  <2>2. \A d \in Data : (\A i \in Nat : Owns(g, f, i) => g.c[f][i] # d) => fat'[d] = fat[d]
    BY <1>7, <1>10, <2>1
  <2> QED
    BY <1>3, <2>2, OthersUntouched
<1>15. /\ task'.op = "link" /\ task'.f = f /\ task'.n = task.n /\ task'.erase = task.erase
       /\ task'.rc = task.rc /\ task'.left = task.left - 1 /\ task'.prev = c
       /\ task'.new = task.new + 1
  BY <1>2, <1>4, <1>7 DEF f, LinkOK
<1>16. task' # NoTask
  BY <1>15 DEF NoTask
<1>17. LinkOK(g2, fat', y, task')
  <2>1. g2.k[f] = x.size + task'.new /\ g2.k[f] + task'.left = task.n /\ task'.new \in Nat
        /\ g2.k[f] > 0 /\ task'.new # 0 /\ g2.k[f] - 1 = g.k[f]
    BY <1>2, <1>3, <1>5, <1>12, <1>15
  <2>2. NoRest(g2, f)
    BY <1>5, <1>12 DEF NoRest
  <2> QED
    BY <1>5, <1>8, <1>12, <1>15, <2>1, <2>2 DEF LinkOK
<1>18. CallOK(g2, used', fat', node', task')
  <2>1. task'.left \in Nat
    BY <1>2, <1>3, <1>15
  <2> QED
    BY <1>3, <1>9, <1>15, <1>17, <2>1 DEF CallOK
<1>19. Agree(g2, used', fat', node', task')
  <2>1. \A h \in Files : h # f =>
          /\ node'[h] = node[h] /\ g2.c[h] = g.c[h] /\ g2.k[h] = g.k[h]
          /\ g2.lo[h] = g.lo[h] /\ g2.hi[h] = g.hi[h]
          /\ \A i \in Nat : Owns(g, h, i) => fat'[g.c[h][i]] = fat[g.c[h][i]]
    BY <1>9, <1>12, <1>14
  <2>2. FileOK(g2, fat', node'[f], f) /\ fat' \in [Data -> Data \cup {FREE, END}]
    BY <1>7, <1>9, <1>10, <1>11
  <2>3. task.f = f
    BY DEF f
  <2> QED
    BY <1>1, <1>3, <1>9, <1>12, <1>13, <1>15, <1>16, <1>18, <2>1, <2>2, <2>3, AgreeStep
<1>20. RefusedOK(result', used', node', task')
  BY <1>7, <1>16, ResultKept
<1> QED
  BY <1>7, <1>12, <1>19, <1>20 DEF ClustersInv

\* The FAT with the chain of x terminated at p.
EndedFat(x, p) == IF x.contig THEN fat ELSE [fat EXCEPT ![p] = END]

\* A chain can be terminated at its last cluster.
LEMMA Terminated ==
  ASSUME NEW g \in Chains, NEW us, OwnedOnce(g, us), NEW f \in Files, NEW x,
         FileOK(g, fat, x, f), g.k[f] > 0, NEW p, p = g.c[f][g.k[f] - 1],
         fat \in [Data -> Data \cup {FREE, END}]
  PROVE  /\ EndedFat(x, p) \in [Data -> Data \cup {FREE, END}]
         /\ FileOK(g, EndedFat(x, p), x, f)
         /\ Ended(g, EndedFat(x, p), x, f)
         /\ \A h \in Files : h # f =>
              \A i \in Nat : Owns(g, h, i) => EndedFat(x, p)[g.c[h][i]] = fat[g.c[h][i]]
<1> DEFINE G == EndedFat(x, p)
           k == g.k[f]
<1>1. k \in Nat /\ k > 0 /\ k - 1 \in Nat /\ Owns(g, f, k - 1) /\ Chained(g, fat, x, f)
  BY ChainFields DEF FileOK, Owns
<1>2. p \in Data
  BY <1>1 DEF OwnedOnce
<1>3. G \in [Data -> Data \cup {FREE, END}] /\ (~x.contig => G[p] = END)
      /\ \A d \in Data : d # p => G[d] = fat[d]
  BY <1>2 DEF EndedFat
<1>4. x.contig => G = fat
  BY DEF EndedFat
<1> HIDE DEF G
<1>5. \A i \in Nat : Owns(g, f, i) /\ i + 1 # k => G[g.c[f][i]] = fat[g.c[f][i]]
  <2>1. \A i \in Nat : i + 1 # k => i # k - 1
    BY <1>1
  <2>2. \A i \in Nat : Owns(g, f, i) /\ i + 1 # k => g.c[f][i] \in Data /\ g.c[f][i] # p
    BY <1>1, <2>1 DEF OwnedOnce
  <2> QED
    BY <1>3, <2>2
<1>6. Chained(g, G, x, f)
  BY <1>1, <1>5 DEF Chained
<1>7. FileOK(g, G, x, f)
  BY <1>6 DEF FileOK
<1>8. Ended(g, G, x, f)
  BY <1>3 DEF Ended
<1>9. \A h \in Files : h # f => \A i \in Nat : Owns(g, h, i) => G[g.c[h][i]] = fat[g.c[h][i]]
  <2>1. \A d \in Data : (\A i \in Nat : Owns(g, f, i) => g.c[f][i] # d) => G[d] = fat[d]
    BY <1>1, <1>3
  <2> QED
    BY <2>1, OthersUntouched
<1> QED
  BY <1>3, <1>7, <1>8, <1>9 DEF G

\* A step that changes only the call itself.
LEMMA OnlyCall ==
  ASSUME ClustersInv, NEW g \in Chains, Agree(g, used, fat, node, task), task # NoTask,
         task.f \in Files, used' = used, fat' = fat, node' = node, bug' = bug,
         task' = NoTask => Settled(g, fat, node[task.f], task.f),
         task' # NoTask => task'.f = task.f,
         CallOK(g, used, fat, node, task'), RefusedOK(result', used, node, task')
  PROVE  ClustersInv'
<1> DEFINE f == task.f
<1>1. /\ node \in [Files -> Node] /\ fat \in [Data -> Data \cup {FREE, END}]
      /\ OwnedOnce(g, used) /\ FileOK(g, fat, node[f], f)
  BY DEF Agree
<1>2. Agree(g, used, fat, node, task')
  BY <1>1, AgreeStep
<1> QED
  BY <1>2 DEF ClustersInv

\* grow_file() runs out of space.
LEMMA GrowFullStep ==
  ASSUME ClustersInv, GrowFull
  PROVE  ClustersInv'
<1>1. PICK g \in Chains : Agree(g, used, fat, node, task)
  BY DEF ClustersInv
<1> DEFINE f == task.f
           x == node[f]
<1>2. Running /\ task.op = "link" /\ task.left > 0 /\ Allocate(task.prev + 1) = END
      /\ used' = used /\ fat' = fat /\ node' = node /\ bug' = bug
  BY DEF GrowFull
<1>3. /\ task # NoTask /\ f \in Files /\ task.n \in 0..ClusterCount /\ task.n \in Nat
      /\ task.left \in Nat /\ task.erase \in BOOLEAN
      /\ x \in Node /\ x.size \in Nat /\ g.k[f] \in Nat
  BY <1>1, <1>2, CallFacts
<1>4. LinkOK(g, fat, x, task)
  BY <1>1, <1>2, CallStage DEF Agree
<1>5. /\ NoRest(g, f) /\ task.new \in Nat /\ x.size < task.n /\ g.k[f] = x.size + task.new
      /\ g.k[f] + task.left = task.n /\ (task.new = 0 => Ended(g, fat, x, f))
  BY <1>4 DEF LinkOK
<1>6. Cardinality(Data \ used) = 0
  <2>1. Data \ used = {}
    BY <1>2, AllocateEffect, ClusterNumbers
  <2> QED
    BY <2>1, EmptySpace
<1>7. CASE task.new = 0
  <2>1. task' = NoTask /\ result' = [rc |-> "ENOSPC", f |-> f, n |-> task.n]
    BY <1>7 DEF GrowFull, Return
  <2>2. Settled(g, fat, x, f)
    BY <1>3, <1>5, <1>7 DEF Settled
  <2>3. RefusedOK(result', used, node, task')
    BY <1>3, <1>5, <1>6, <2>1 DEF RefusedOK
  <2>4. CallOK(g, used, fat, node, task')
    BY <2>1 DEF CallOK
  <2> QED
    BY <1>1, <1>2, <1>3, <2>1, <2>2, <2>3, <2>4, OnlyCall
<1>8. CASE task.new # 0
  <2>1. /\ task' = [op |-> "shrink", f |-> f, n |-> task.n, erase |-> task.erase,
                    rc |-> "ENOSPC", left |-> task.new]
        /\ result' = result
    BY <1>8 DEF GrowFull
  <2>2. /\ task'.op = "shrink" /\ task'.f = f /\ task'.n = task.n /\ task'.erase = task.erase
        /\ task'.rc = "ENOSPC" /\ task'.left = task.new
    BY <2>1
  <2>3. task' # NoTask
    BY <2>2 DEF NoTask
  <2>4. TooFew(used, x, task', task'.left)
    BY <1>2, <1>3, <1>5, <1>6, <2>2 DEF TooFew
  <2>5. ShrinkOK(g, used, fat, x, task')
    BY <1>3, <1>5, <1>8, <2>2, <2>4 DEF ShrinkOK
  <2>6. CallOK(g, used, fat, node, task')
    BY <1>3, <1>5, <2>2, <2>5 DEF CallOK
  <2>7. RefusedOK(result', used, node, task')
    BY <1>2, <2>1, <2>3, ResultKept
  <2> QED
    BY <1>1, <1>2, <1>3, <2>2, <2>3, <2>6, <2>7, OnlyCall
<1> QED
  BY <1>7, <1>8

\* grow_file() terminates the chain.
LEMMA GrowEndStep ==
  ASSUME Faults = {}, ClustersInv, GrowEnd
  PROVE  ClustersInv'
<1>1. PICK g \in Chains : Agree(g, used, fat, node, task)
  BY DEF ClustersInv
<1> DEFINE f == task.f
           x == node[f]
           p == task.prev
<1>2. Running /\ task.op = "link" /\ task.left = 0
      /\ used' = used /\ node' = node /\ bug' = bug /\ result' = result
      /\ fat' = EndedFat(x, p)
      /\ task' = [op |-> "erase", f |-> f, n |-> task.n, erase |-> task.erase, rc |-> "ok", left |-> 0]
  BY DEF GrowEnd, EndedFat
<1>3. /\ task # NoTask /\ f \in Files /\ task.n \in 0..ClusterCount /\ task.n \in Nat
      /\ task.left \in Nat /\ task.erase \in BOOLEAN
      /\ node \in [Files -> Node] /\ fat \in [Data -> Data \cup {FREE, END}]
      /\ OwnedOnce(g, used) /\ FileOK(g, fat, x, f) /\ x.size \in Nat /\ g.k[f] \in Nat
  BY <1>1, <1>2, CallFacts
<1>4. LinkOK(g, fat, x, task)
  BY <1>1, <1>2, CallStage DEF Agree
<1>5. NoRest(g, f) /\ g.k[f] = task.n /\ g.k[f] > 0 /\ p = g.c[f][g.k[f] - 1]
  BY <1>2, <1>3, <1>4 DEF LinkOK
<1> HIDE DEF p, x, f
<1>6. /\ fat' \in [Data -> Data \cup {FREE, END}]
      /\ FileOK(g, fat', x, f) /\ Ended(g, fat', x, f)
      /\ \A h \in Files : h # f =>
           \A i \in Nat : Owns(g, h, i) => fat'[g.c[h][i]] = fat[g.c[h][i]]
  BY <1>2, <1>3, <1>5, Terminated
<1>7. /\ task'.op = "erase" /\ task'.f = f /\ task'.n = task.n /\ task'.erase = task.erase
      /\ task'.rc = "ok" /\ task'.left = 0
  BY <1>2
<1>8. task' # NoTask
  BY <1>7 DEF NoTask
<1>9. EraseOK(g, fat', x, task')
  BY <1>5, <1>6, <1>7 DEF EraseOK
<1>10. node'[f] = x
  BY <1>2 DEF x
<1>11. CallOK(g, used', fat', node', task')
  BY <1>3, <1>7, <1>9, <1>10 DEF CallOK
<1>12. Agree(g, used', fat', node', task')
  <2>1. \A h \in Files : h # f =>
          /\ node'[h] = node[h] /\ g.c[h] = g.c[h] /\ g.k[h] = g.k[h]
          /\ g.lo[h] = g.lo[h] /\ g.hi[h] = g.hi[h]
          /\ \A i \in Nat : Owns(g, h, i) => fat'[g.c[h][i]] = fat[g.c[h][i]]
    BY <1>2, <1>6
  <2>2. FileOK(g, fat', node'[f], f) /\ OwnedOnce(g, used') /\ node' \in [Files -> Node]
    BY <1>2, <1>3, <1>6, <1>10
  <2>3. task.f = f
    BY DEF f
  <2> QED
    BY <1>1, <1>3, <1>6, <1>7, <1>8, <1>11, <2>1, <2>2, <2>3, AgreeStep
<1>13. RefusedOK(result', used', node', task')
  BY <1>2, <1>8, ResultKept
<1> QED
  BY <1>2, <1>12, <1>13 DEF ClustersInv

-----------------------------------------------------------------------------
(* Shrinking *)

\* The chain of f cut off after its first m clusters.
Cut(g, f, m) ==
  [c |-> g.c, k |-> [g.k EXCEPT ![f] = m], lo |-> [g.lo EXCEPT ![f] = m],
   hi |-> [g.hi EXCEPT ![f] = g.k[f]]]

\* The chains after that: the same clusters are owned.
LEMMA CutFields ==
  ASSUME NEW g \in Chains, NEW f \in Files, NoRest(g, f), NEW m \in Nat, m <= g.k[f]
  PROVE  /\ Cut(g, f, m) \in Chains
         /\ Cut(g, f, m).c = g.c
         /\ Cut(g, f, m).k[f] = m /\ Cut(g, f, m).lo[f] = m /\ Cut(g, f, m).hi[f] = g.k[f]
         /\ \A h \in Files : h # f =>
              /\ Cut(g, f, m).k[h] = g.k[h] /\ Cut(g, f, m).lo[h] = g.lo[h]
              /\ Cut(g, f, m).hi[h] = g.hi[h]
         /\ \A h \in Files, i \in Nat : Owns(Cut(g, f, m), h, i) <=> Owns(g, h, i)
<1> DEFINE g2 == Cut(g, f, m)
<1>1. g.k[f] \in Nat /\ g.lo[f] \in Nat /\ g.hi[f] \in Nat /\ g.hi[f] <= g.lo[f]
  BY ChainFields DEF NoRest
<1>2. /\ g2 \in Chains /\ g2.c = g.c /\ g2.k[f] = m /\ g2.lo[f] = m /\ g2.hi[f] = g.k[f]
      /\ \A h \in Files : h # f =>
           g2.k[h] = g.k[h] /\ g2.lo[h] = g.lo[h] /\ g2.hi[h] = g.hi[h]
  BY <1>1 DEF Cut, Chains
<1> HIDE DEF g2
<1>3. \A i \in Nat : Owns(g2, f, i) <=> Owns(g, f, i)
  BY <1>1, <1>2 DEF Owns
<1>4. \A h \in Files, i \in Nat : h # f => (Owns(g2, h, i) <=> Owns(g, h, i))
  BY <1>2 DEF Owns
<1> QED
  BY <1>2, <1>3, <1>4 DEF g2

\* What is owned stays so.
LEMMA CutOwned ==
  ASSUME NEW g \in Chains, NEW us, OwnedOnce(g, us), NEW f \in Files, NoRest(g, f),
         NEW m \in Nat, m <= g.k[f]
  PROVE  OwnedOnce(Cut(g, f, m), us)
<1> DEFINE g2 == Cut(g, f, m)
<1>1. g2.c = g.c /\ \A h \in Files, i \in Nat : Owns(g2, h, i) <=> Owns(g, h, i)
  BY CutFields
<1> HIDE DEF g2
<1>2. OwnedOnce(g2, us)
  BY <1>1 DEF OwnedOnce
<1> QED
  BY <1>2 DEF g2

\* The rest of the chain is still linked, and the position goes to its start.
LEMMA CutFile ==
  ASSUME NEW g \in Chains, NEW us, OwnedOnce(g, us), NEW f \in Files, NoRest(g, f),
         NEW ft, NEW x, FileOK(g, ft, x, f), NEW m \in Nat, m <= g.k[f],
         NEW y \in Node, y.contig = x.contig, y.size = x.size, y.valid = x.valid, y.fi = 0,
         y.fc = y.start, y.start = IF m = 0 THEN FREE ELSE x.start
  PROVE  FileOK(Cut(g, f, m), ft, y, f)
<1> DEFINE g2 == Cut(g, f, m)
<1>1. /\ g2.c = g.c /\ g2.k[f] = m /\ g2.lo[f] = m /\ g2.hi[f] = g.k[f]
      /\ \A i \in Nat : Owns(g2, f, i) <=> Owns(g, f, i)
  BY CutFields
<1>2. g.k[f] \in Nat /\ g.lo[f] \in Nat /\ g.hi[f] \in Nat /\ g.hi[f] <= g.lo[f]
  BY ChainFields DEF NoRest
<1> HIDE DEF g2
<1>3. Pointed(g2, y, f)
  BY <1>1, <1>2 DEF FileOK, Pointed
<1>4. Chained(g2, ft, y, f)
  <2>1. \A i \in Nat : Owns(g, f, i + 1) => i + 1 # g.k[f]
    BY <1>2 DEF Owns
  <2>2. Chained(g, ft, x, f)
    BY DEF FileOK
  <2> QED
    BY <1>1, <2>1, <2>2 DEF Chained
<1>5. FileOK(g2, ft, y, f)
  BY <1>1, <1>2, <1>3, <1>4 DEF FileOK
<1> QED
  BY <1>5 DEF g2

\* What a shrinking call is about: the file has Current clusters.
LEMMA ShrinkFacts ==
  ASSUME NEW g \in Chains, Agree(g, used, fat, node, task), Running, task.op = "shrink"
  PROVE  /\ NoRest(g, task.f) /\ task.left > 0 /\ g.k[task.f] = Current /\ task.left <= Current
         /\ task.rc = "ok" => Current - task.left = task.n
         /\ task.rc = "ENOSPC" => /\ Current - task.left = node[task.f].size
                                  /\ TooFew(used, node[task.f], task, task.left)
<1>1. /\ task.n \in Nat /\ task.left \in Nat /\ node[task.f].size \in Nat
      /\ task.rc \in {"ok", "ENOSPC"} /\ g.k[task.f] \in Nat
  BY CallFacts
<1>2. ShrinkOK(g, used, fat, node[task.f], task)
  BY CallStage DEF Agree
<1>3. CASE task.rc = "ok"
  BY <1>1, <1>2, <1>3 DEF ShrinkOK, Current, Settled
<1>4. CASE task.rc = "ENOSPC"
  BY <1>1, <1>2, <1>4 DEF ShrinkOK, Current
<1> QED
  BY <1>1, <1>3, <1>4

\* The part that ShrinkAll and ShrinkCrop have in common.
LEMMA CutStep ==
  ASSUME ClustersInv, NEW g \in Chains, Agree(g, used, fat, node, task), Running,
         task.op = "shrink", NEW m \in Nat, m = Current - task.left,
         NEW y \in Node, y.size = node[task.f].size,
         FileOK(Cut(g, task.f, m), fat', y, task.f), Ended(Cut(g, task.f, m), fat', y, task.f),
         fat' \in [Data -> Data \cup {FREE, END}],
         \A h \in Files : h # task.f =>
           \A i \in Nat : Owns(g, h, i) => fat'[g.c[h][i]] = fat[g.c[h][i]],
         node' = [node EXCEPT ![task.f] = y],
         task' = [op |-> "free", f |-> task.f, n |-> task.n, prev |-> g.c[task.f][m],
                  erase |-> task.erase, rc |-> task.rc, left |-> task.left],
         used' = used, result' = result, bug' = bug
  PROVE  ClustersInv'
<1> DEFINE f == task.f
           x == node[f]
           g2 == Cut(g, f, m)
<1>1. /\ task # NoTask /\ f \in Files /\ task.n \in 0..ClusterCount /\ task.n \in Nat
      /\ task.left \in Nat /\ task.erase \in BOOLEAN /\ task.rc \in {"ok", "ENOSPC"}
      /\ node \in [Files -> Node] /\ OwnedOnce(g, used) /\ x.size \in Nat /\ g.k[f] \in Nat
  BY CallFacts
<1>2. /\ NoRest(g, f) /\ task.left > 0 /\ g.k[f] = Current /\ task.left <= Current
      /\ task.rc = "ok" => Current - task.left = task.n
      /\ task.rc = "ENOSPC" => Current - task.left = x.size /\ TooFew(used, x, task, task.left)
  BY ShrinkFacts
<1>3. m <= g.k[f] /\ g.k[f] = m + task.left
  BY <1>1, <1>2
<1>4. /\ g2 \in Chains /\ g2.c = g.c /\ g2.k[f] = m /\ g2.lo[f] = m /\ g2.hi[f] = g.k[f]
      /\ \A h \in Files : h # f =>
           g2.k[h] = g.k[h] /\ g2.lo[h] = g.lo[h] /\ g2.hi[h] = g.hi[h]
  BY <1>1, <1>2, <1>3, CutFields
<1>5. OwnedOnce(g2, used)
  BY <1>1, <1>2, <1>3, CutOwned
<1> HIDE DEF g2, x
<1>6. FileOK(g2, fat', y, f) /\ Ended(g2, fat', y, f)
  BY DEF g2
<1>7. /\ node'[f] = y /\ node' \in [Files -> Node]
      /\ \A h \in Files : h # f => node'[h] = node[h]
  BY <1>1
<1>8. /\ task'.op = "free" /\ task'.f = f /\ task'.n = task.n /\ task'.prev = g.c[f][m]
      /\ task'.erase = task.erase /\ task'.rc = task.rc /\ task'.left = task.left
  OBVIOUS
<1>9. task' # NoTask
  BY <1>8 DEF NoTask
<1>10. FreeOK(g2, used, fat', y, task')
  <2>1. task'.rc = "ENOSPC" => g2.k[f] = y.size /\ TooFew(used, y, task', task'.left)
    BY <1>2, <1>4, <1>8 DEF TooFew, x
  <2>2. task'.rc = "ok" => g2.k[f] = task'.n
    BY <1>2, <1>4, <1>8
  <2> HIDE DEF f
  <2> QED
    BY <1>3, <1>4, <1>6, <1>8, <2>1, <2>2 DEF FreeOK
<1>11. CallOK(g2, used', fat', node', task')
  BY <1>1, <1>7, <1>8, <1>10 DEF CallOK
<1>12. Agree(g2, used', fat', node', task')
  <2>1. \A h \in Files : h # f =>
          /\ node'[h] = node[h] /\ g2.c[h] = g.c[h] /\ g2.k[h] = g.k[h]
          /\ g2.lo[h] = g.lo[h] /\ g2.hi[h] = g.hi[h]
          /\ \A i \in Nat : Owns(g, h, i) => fat'[g.c[h][i]] = fat[g.c[h][i]]
    BY <1>4, <1>7
  <2>2. FileOK(g2, fat', node'[f], f) /\ OwnedOnce(g2, used')
    BY <1>5, <1>6, <1>7
  <2>3. /\ task.f = f /\ f \in Files /\ Agree(g, used, fat, node, task) /\ g \in Chains
        /\ g2 \in Chains /\ task'.f = f /\ task' # NoTask
        /\ fat' \in [Data -> Data \cup {FREE, END}] /\ node' \in [Files -> Node]
    BY <1>1, <1>4, <1>7, <1>8, <1>9
  <2> HIDE DEF f
  <2> QED
    BY ONLY <1>11, <2>1, <2>2, <2>3, AgreeStep
<1>13. RefusedOK(result', used', node', task')
  BY <1>9, ResultKept
<1> QED
  BY <1>4, <1>12, <1>13 DEF ClustersInv

\* shrink_file() drops the whole file.
LEMMA ShrinkAllStep ==
  ASSUME ClustersInv, ShrinkAll
  PROVE  ClustersInv'
<1>1. PICK g \in Chains : Agree(g, used, fat, node, task)
  BY DEF ClustersInv
<1> DEFINE f == task.f
           x == node[f]
           y == [x EXCEPT !.start = FREE, !.fi = 0, !.fc = FREE]
<1>2. Running /\ task.op = "shrink" /\ Current = task.left
  BY DEF ShrinkAll
<1>3. /\ f \in Files /\ task.left \in Nat
      /\ node \in [Files -> Node] /\ fat \in [Data -> Data \cup {FREE, END}]
      /\ OwnedOnce(g, used) /\ FileOK(g, fat, x, f) /\ x \in Node /\ g.k[f] \in Nat
  BY <1>1, <1>2, CallFacts
<1>4. NoRest(g, f) /\ task.left > 0 /\ g.k[f] = Current /\ 0 <= g.k[f]
  BY <1>1, <1>2, <1>3, ShrinkFacts
<1>5. g.k[f] > 0 /\ g.k[f] # 0 /\ 0 = Current - task.left
  BY <1>2, <1>3, <1>4
<1>6. x.start # FREE /\ x.start = g.c[f][0]
  BY <1>3, <1>5, StartTells DEF FileOK, Pointed
<1>7. /\ node' = [node EXCEPT ![f].start = FREE, ![f].fi = 0, ![f].fc = FREE]
      /\ task' = [op |-> "free", f |-> f, n |-> task.n, prev |-> g.c[f][0],
                  erase |-> task.erase, rc |-> task.rc, left |-> task.left]
      /\ used' = used /\ fat' = fat /\ result' = result /\ bug' = bug
  BY <1>6 DEF ShrinkAll
<1>8. /\ y \in Node /\ y.contig = x.contig /\ y.size = x.size /\ y.valid = x.valid /\ y.fi = 0
      /\ y.fc = FREE /\ y.start = FREE
  <2>1. 0 \in 0..Wrapped
    BY ClusterNumbers
  <2> HIDE DEF x
  <2> QED
    BY <1>3, <2>1 DEF Node
<1>9. node' = [node EXCEPT ![f] = y]
  BY <1>3, <1>7
<1> HIDE DEF x, y
<1>10. FileOK(Cut(g, f, 0), fat, y, f)
  BY <1>3, <1>4, <1>8, CutFile
<1>11. Ended(Cut(g, f, 0), fat, y, f)
  <2>1. Cut(g, f, 0).k[f] = 0
    BY <1>3, <1>4, CutFields
  <2> QED
    BY <2>1 DEF Ended
<1>12. y.size = node[f].size
  BY <1>8 DEF x
<1> QED
  BY <1>1, <1>2, <1>3, <1>5, <1>7, <1>8, <1>9, <1>10, <1>11, <1>12, CutStep

\* shrink_file() crops the file.
LEMMA ShrinkCropStep ==
  ASSUME Faults = {}, ClustersInv, ShrinkCrop
  PROVE  ClustersInv'
<1>1. PICK g \in Chains : Agree(g, used, fat, node, task)
  BY DEF ClustersInv
<1> DEFINE f == task.f
           x == node[f]
           m == Current - task.left
           last == m - 1
           p == g.c[f][last]
           y == [x EXCEPT !.fi = 0, !.fc = x.start]
<1>2. Running /\ task.op = "shrink" /\ Current > task.left
  BY DEF ShrinkCrop
<1>3. /\ f \in Files /\ task.left \in Nat
      /\ node \in [Files -> Node] /\ fat \in [Data -> Data \cup {FREE, END}]
      /\ OwnedOnce(g, used) /\ FileOK(g, fat, x, f) /\ x \in Node /\ x.size \in Nat
      /\ x.size <= ClusterCount /\ task.n <= ClusterCount /\ task.n \in Nat
      /\ task.rc \in {"ok", "ENOSPC"} /\ g.k[f] \in Nat
  BY <1>1, <1>2, CallFacts
<1>4. /\ NoRest(g, f) /\ task.left > 0 /\ g.k[f] = Current
      /\ task.rc = "ok" => m = task.n
      /\ task.rc = "ENOSPC" => m = x.size
  BY <1>1, <1>2, <1>3, ShrinkFacts
<1>5. /\ m \in Nat /\ last \in Nat /\ last + 1 = m /\ m > 0 /\ last < m /\ m < g.k[f]
      /\ last < g.k[f] /\ last <= Wrapped /\ g.k[f] # 0 /\ m <= g.k[f]
      /\ last = Current - task.left - 1
  BY <1>2, <1>3, <1>4, ClusterNumbers
<1> HIDE DEF f, x, last, m
<1>6. x.start # FREE /\ x.start = g.c[f][0]
  BY <1>3, <1>5, StartTells DEF FileOK, Pointed
<1>7. ~AdvanceBug(x, last) /\ Advance(x, last, "shrink" \in Faults) = {Moved(x, last, p)}
  BY <1>3, <1>5, AdvanceEffect
<1>8. Moved(x, last, p).fc = p /\ p \in Data
  BY <1>3, <1>5, Repositioned
<1>9. NextCluster(x, p) = g.c[f][m]
  <2>1. Owns(g, f, last) /\ Owns(g, f, last + 1) /\ last + 1 # g.k[f] /\ Chained(g, fat, x, f)
    BY <1>3, <1>5 DEF Owns, FileOK
  <2>2. NextCluster(x, g.c[f][last]) = g.c[f][last + 1]
    BY <1>3, <1>5, <2>1, NextInChain
  <2> QED
    BY <1>5, <2>2
<1>10. /\ task' = [op |-> "free", f |-> f, n |-> task.n, prev |-> g.c[f][m],
                   erase |-> task.erase, rc |-> task.rc, left |-> task.left]
       /\ fat' = EndedFat(x, p)
       /\ node' = [node EXCEPT ![f].fi = 0, ![f].fc = x.start]
       /\ used' = used /\ result' = result /\ bug' = bug
  <2> HIDE DEF p
  <2>1. ~Invalid(p)
    BY <1>8 DEF Invalid
  <2>2. x = node[task.f] /\ f = task.f /\ last = Current - task.left - 1
    BY <1>5 DEF x, f
  <2> QED
    BY <1>6, <1>7, <1>8, <1>9, <2>1, <2>2 DEF ShrinkCrop, EndedFat
<1>11. /\ y \in Node /\ y.contig = x.contig /\ y.size = x.size /\ y.valid = x.valid /\ y.fi = 0
       /\ y.fc = x.start /\ y.start = x.start
  <2>1. 0 \in 0..Wrapped
    BY ClusterNumbers
  <2> QED
    BY <1>3, <2>1 DEF Node
<1>12. node' = [node EXCEPT ![f] = y]
  BY <1>3, <1>10 DEF x
<1> HIDE DEF y
<1> DEFINE g2 == Cut(g, f, m)
<1>13. g2 \in Chains /\ g2.c = g.c /\ g2.k[f] = m /\ OwnedOnce(g2, used)
       /\ \A h \in Files, i \in Nat : Owns(g2, h, i) <=> Owns(g, h, i)
  BY <1>3, <1>4, <1>5, CutFields, CutOwned
<1>14. FileOK(g2, fat, y, f)
  BY <1>3, <1>4, <1>5, <1>11, CutFile
<1> HIDE DEF g2
<1>15. p = g2.c[f][g2.k[f] - 1] /\ g2.k[f] > 0
  BY <1>5, <1>13 DEF last
<1>16. EndedFat(y, p) = fat'
  BY <1>10, <1>11 DEF EndedFat
<1> HIDE DEF p
<1>17. /\ fat' \in [Data -> Data \cup {FREE, END}]
       /\ FileOK(g2, fat', y, f) /\ Ended(g2, fat', y, f)
       /\ \A h \in Files : h # f =>
            \A i \in Nat : Owns(g2, h, i) => fat'[g2.c[h][i]] = fat[g2.c[h][i]]
  BY <1>3, <1>13, <1>14, <1>15, <1>16, Terminated
<1>18. \A h \in Files : h # f =>
         \A i \in Nat : Owns(g, h, i) => fat'[g.c[h][i]] = fat[g.c[h][i]]
  BY <1>13, <1>17
<1>19. /\ y.size = node[task.f].size /\ f = task.f /\ m = Current - task.left
       /\ FileOK(Cut(g, task.f, m), fat', y, task.f) /\ Ended(Cut(g, task.f, m), fat', y, task.f)
  BY <1>11, <1>17 DEF x, f, m, g2
<1>20. /\ node' = [node EXCEPT ![task.f] = y]
       /\ task' = [op |-> "free", f |-> task.f, n |-> task.n, prev |-> g.c[task.f][m],
                   erase |-> task.erase, rc |-> task.rc, left |-> task.left]
       /\ \A h \in Files : h # task.f =>
            \A i \in Nat : Owns(g, h, i) => fat'[g.c[h][i]] = fat[g.c[h][i]]
  BY <1>10, <1>12, <1>18 DEF f
<1>21. /\ ClustersInv /\ g \in Chains /\ m \in Nat /\ y \in Node
       /\ used' = used /\ result' = result /\ bug' = bug
       /\ fat' \in [Data -> Data \cup {FREE, END}]
  BY <1>5, <1>10, <1>11, <1>17
<1> QED
  BY ONLY <1>1, <1>2, <1>19, <1>20, <1>21, CutStep

\* The chains after the first cluster of what was cut off from f is freed.
Freed(g, f) == [c |-> g.c, k |-> g.k, lo |-> [g.lo EXCEPT ![f] = g.lo[f] + 1], hi |-> g.hi]

\* The FAT after that.
FreedFat(x, p) == IF x.contig THEN fat ELSE [fat EXCEPT ![p] = FREE]

\* All but that cluster stay owned.
LEMMA FreedFields ==
  ASSUME NEW g \in Chains, NEW f \in Files, g.lo[f] < g.hi[f], g.k[f] <= g.lo[f]
  PROVE  /\ Freed(g, f) \in Chains
         /\ Freed(g, f).c = g.c /\ Freed(g, f).k = g.k /\ Freed(g, f).hi = g.hi
         /\ Freed(g, f).lo[f] = g.lo[f] + 1
         /\ \A h \in Files : h # f => Freed(g, f).lo[h] = g.lo[h]
         /\ \A h \in Files, i \in Nat :
              Owns(Freed(g, f), h, i) <=> Owns(g, h, i) /\ ~(h = f /\ i = g.lo[f])
<1> DEFINE g2 == Freed(g, f)
<1>1. g.k[f] \in Nat /\ g.lo[f] \in Nat /\ g.lo[f] + 1 \in Nat /\ g.hi[f] \in Nat
  BY ChainFields
<1>2. /\ g2 \in Chains /\ g2.c = g.c /\ g2.k = g.k /\ g2.hi = g.hi /\ g2.lo[f] = g.lo[f] + 1
      /\ \A h \in Files : h # f => g2.lo[h] = g.lo[h]
  BY <1>1 DEF Freed, Chains
<1> HIDE DEF g2
<1>3. \A i \in Nat : Owns(g2, f, i) <=> Owns(g, f, i) /\ i # g.lo[f]
  BY <1>1, <1>2 DEF Owns
<1>4. \A h \in Files, i \in Nat : h # f => (Owns(g2, h, i) <=> Owns(g, h, i))
  BY <1>2 DEF Owns
<1> QED
  BY <1>2, <1>3, <1>4 DEF g2

\* The bitmap loses that cluster and no other.
LEMMA FreedOwned ==
  ASSUME NEW g \in Chains, NEW us, OwnedOnce(g, us), NEW f \in Files,
         g.lo[f] < g.hi[f], g.k[f] <= g.lo[f], NEW p, p = g.c[f][g.lo[f]]
  PROVE  OwnedOnce(Freed(g, f), us \ {p}) /\ p \in us
<1> DEFINE g2 == Freed(g, f)
           l == g.lo[f]
<1>1. /\ g2.c = g.c
      /\ \A h \in Files, i \in Nat : Owns(g2, h, i) <=> Owns(g, h, i) /\ ~(h = f /\ i = l)
  BY FreedFields
<1>2. l \in Nat /\ Owns(g, f, l)
  BY ChainFields DEF Owns
<1> HIDE DEF g2, l
<1>3. p = g.c[f][l]
  BY DEF l
<1>4. p \in Data \ Reserved /\ p \in us
  BY <1>2, <1>3 DEF OwnedOnce
<1>5. \A h \in Files, i \in Nat : Owns(g2, h, i) <=> Owns(g, h, i) /\ g.c[h][i] # p
  BY <1>1, <1>2, <1>3 DEF OwnedOnce
<1>6. \A d \in Data : d \in us \ {p} <=>
        d \in Reserved \/ \E h \in Files, i \in Nat : Owns(g2, h, i) /\ g2.c[h][i] = d
  BY <1>1, <1>4, <1>5 DEF OwnedOnce
<1>7. OwnedOnce(g2, us \ {p})
  <2>1. \A h \in Files, i \in Nat : Owns(g2, h, i) => g2.c[h][i] \in Data \ Reserved
    BY <1>1 DEF OwnedOnce
  <2>2. \A h1, h2 \in Files, i, j \in Nat :
          Owns(g2, h1, i) /\ Owns(g2, h2, j) /\ g2.c[h1][i] = g2.c[h2][j] => h1 = h2 /\ i = j
    BY <1>1 DEF OwnedOnce
  <2>3. us \ {p} \subseteq Data
    BY DEF OwnedOnce
  <2> QED
    BY <1>6, <2>1, <2>2, <2>3 DEF OwnedOnce
<1> QED
  BY <1>4, <1>7 DEF g2

\* The links of what is left stay.
LEMMA FreedFile ==
  ASSUME NEW g \in Chains, NEW us, OwnedOnce(g, us), NEW f \in Files, NEW x,
         FileOK(g, fat, x, f), g.lo[f] < g.hi[f], NEW p, p = g.c[f][g.lo[f]],
         fat \in [Data -> Data \cup {FREE, END}]
  PROVE  /\ FreedFat(x, p) \in [Data -> Data \cup {FREE, END}]
         /\ FileOK(Freed(g, f), FreedFat(x, p), x, f)
         /\ Ended(g, fat, x, f) => Ended(Freed(g, f), FreedFat(x, p), x, f)
         /\ \A h \in Files : h # f =>
              \A i \in Nat : Owns(g, h, i) => FreedFat(x, p)[g.c[h][i]] = fat[g.c[h][i]]
<1> DEFINE g2 == Freed(g, f)
           G == FreedFat(x, p)
           l == g.lo[f]
<1>1. l \in Nat /\ g.hi[f] \in Nat /\ g.k[f] \in Nat /\ g.k[f] <= l /\ Owns(g, f, l)
      /\ Chained(g, fat, x, f) /\ Pointed(g, x, f)
  BY ChainFields DEF FileOK, Owns
<1>2. /\ g2.c = g.c /\ g2.k = g.k /\ g2.hi = g.hi /\ g2.lo[f] = l + 1
      /\ \A i \in Nat : Owns(g2, f, i) <=> Owns(g, f, i) /\ i # l
  BY <1>1, FreedFields
<1>3. p \in Data
  BY <1>1 DEF OwnedOnce
<1>4. /\ G \in [Data -> Data \cup {FREE, END}] /\ (x.contig => G = fat)
      /\ \A d \in Data : d # p => G[d] = fat[d]
  BY <1>3 DEF FreedFat
<1> HIDE DEF G, g2, l
<1>5. \A i \in Nat : Owns(g, f, i) /\ i # l => g.c[f][i] \in Data /\ g.c[f][i] # p
  <2>1. p = g.c[f][l]
    BY DEF l
  <2> QED
    BY <1>1, <2>1 DEF OwnedOnce
<1>6. \A i \in Nat : Owns(g, f, i) /\ i # l => G[g.c[f][i]] = fat[g.c[f][i]]
  BY <1>4, <1>5
<1>7. Chained(g2, G, x, f)
  BY <1>1, <1>2, <1>4, <1>6 DEF Chained
<1>8. Pointed(g2, x, f)
  BY <1>1, <1>2 DEF Pointed
<1>9. FileOK(g2, G, x, f)
  BY <1>1, <1>2, <1>7, <1>8 DEF FileOK
<1>10. ASSUME Ended(g, fat, x, f) PROVE Ended(g2, G, x, f)
  <2> SUFFICES ASSUME ~x.contig, g.k[f] > 0 PROVE G[g.c[f][g.k[f] - 1]] = END
    BY <1>2 DEF Ended
  <2>1. g.k[f] - 1 \in Nat /\ g.k[f] - 1 # l /\ Owns(g, f, g.k[f] - 1)
    BY <1>1 DEF Owns
  <2> QED
    BY <1>6, <1>10, <2>1 DEF Ended
<1>11. \A h \in Files : h # f => \A i \in Nat : Owns(g, h, i) => G[g.c[h][i]] = fat[g.c[h][i]]
  <2>1. \A d \in Data : (\A i \in Nat : Owns(g, f, i) => g.c[f][i] # d) => G[d] = fat[d]
    BY <1>1, <1>4 DEF l
  <2>2. g \in Chains /\ OwnedOnce(g, us) /\ f \in Files
    OBVIOUS
  <2> QED
    BY ONLY <2>1, <2>2, OthersUntouched
<1> QED
  BY <1>4, <1>9, <1>10, <1>11 DEF G, g2

\* A freed cluster is one more that is free.
LEMMA FreedCount ==
  ASSUME NEW us, us \subseteq Data, NEW p \in us
  PROVE  /\ Cardinality(Data \ us) \in Nat
         /\ Cardinality(Data \ (us \ {p})) = Cardinality(Data \ us) + 1
<1>1. IsFiniteSet(Data)
  BY FS_Interval, ClusterNumbers DEF Data
<1>2. IsFiniteSet(Data \ us)
  BY <1>1, FS_Difference
<1>3. Data \ (us \ {p}) = (Data \ us) \cup {p} /\ p \notin Data \ us
  OBVIOUS
<1> QED
  BY <1>2, <1>3, FS_AddElement, FS_CardinalityType

\* shrink_file() frees one cluster.
LEMMA ShrinkFreeStep ==
  ASSUME Faults = {}, ClustersInv, ShrinkFree
  PROVE  ClustersInv'
<1>1. PICK g \in Chains : Agree(g, used, fat, node, task)
  BY DEF ClustersInv
<1> DEFINE f == task.f
           x == node[f]
           p == task.prev
           l == g.lo[f]
           g2 == Freed(g, f)
<1>2. Running /\ task.op = "free" /\ task.left > 0 /\ node' = node /\ bug' = bug
  BY DEF ShrinkFree
<1>3. /\ task # NoTask /\ f \in Files /\ task.n \in 0..ClusterCount /\ task.n \in Nat
      /\ task.left \in Nat /\ task.erase \in BOOLEAN /\ task.rc \in {"ok", "ENOSPC"}
      /\ node \in [Files -> Node] /\ fat \in [Data -> Data \cup {FREE, END}]
      /\ OwnedOnce(g, used) /\ FileOK(g, fat, x, f) /\ x \in Node /\ x.size \in Nat
      /\ g.k[f] \in Nat /\ l \in Nat /\ g.hi[f] \in Nat
  BY <1>1, <1>2, CallFacts
<1>4. FreeOK(g, used, fat, x, task)
  BY <1>1, <1>2, CallStage DEF Agree
<1>5. /\ g.hi[f] = l + task.left /\ l < g.hi[f] /\ p = g.c[f][l] /\ Ended(g, fat, x, f)
      /\ task.rc = "ok" => g.k[f] = task.n
      /\ task.rc = "ENOSPC" => g.k[f] = x.size /\ TooFew(used, x, task, task.left)
  BY <1>2, <1>3, <1>4 DEF FreeOK
<1>6. g.k[f] <= l
  BY <1>3, <1>5 DEF FileOK
<1>7. OwnedOnce(g2, used \ {p}) /\ p \in used /\ p \in Data
  <2>1. OwnedOnce(g2, used \ {p}) /\ p \in used
    BY <1>3, <1>5, <1>6, FreedOwned
  <2> QED
    BY <1>3, <2>1 DEF OwnedOnce
<1>8. /\ task' = [task EXCEPT !.left = @ - 1, !.prev = NextCluster(x, p)]
      /\ fat' = FreedFat(x, p) /\ used' = used \ {p} /\ result' = result
  BY <1>7 DEF ShrinkFree, FreedFat, Invalid
<1>9. /\ task'.op = "free" /\ task'.f = f /\ task'.n = task.n /\ task'.erase = task.erase
      /\ task'.rc = task.rc /\ task'.left = task.left - 1 /\ task'.prev = NextCluster(x, p)
  BY <1>2, <1>4, <1>8 DEF FreeOK
<1> HIDE DEF f, x, p, l, g2
<1>10. task' # NoTask
  BY <1>9 DEF NoTask
<1>11. /\ fat' \in [Data -> Data \cup {FREE, END}]
       /\ FileOK(g2, fat', x, f) /\ Ended(g2, fat', x, f)
       /\ \A h \in Files : h # f =>
            \A i \in Nat : Owns(g, h, i) => fat'[g.c[h][i]] = fat[g.c[h][i]]
  <2>1. /\ g \in Chains /\ OwnedOnce(g, used) /\ f \in Files /\ FileOK(g, fat, x, f)
        /\ g.lo[f] < g.hi[f] /\ p = g.c[f][g.lo[f]] /\ fat \in [Data -> Data \cup {FREE, END}]
    BY <1>3, <1>5 DEF l
  <2>2. fat' = FreedFat(x, p) /\ g2 = Freed(g, f) /\ Ended(g, fat, x, f)
    BY <1>5, <1>8 DEF g2
  <2>3. /\ FreedFat(x, p) \in [Data -> Data \cup {FREE, END}]
        /\ FileOK(Freed(g, f), FreedFat(x, p), x, f)
        /\ Ended(g, fat, x, f) => Ended(Freed(g, f), FreedFat(x, p), x, f)
        /\ \A h \in Files : h # f =>
             \A i \in Nat : Owns(g, h, i) => FreedFat(x, p)[g.c[h][i]] = fat[g.c[h][i]]
    BY ONLY SMTT(30), <2>1, FreedFile
  <2> QED
    BY ONLY <2>2, <2>3
<1>12. /\ g2 \in Chains /\ g2.c = g.c /\ g2.k = g.k /\ g2.hi = g.hi /\ g2.lo[f] = l + 1
       /\ \A h \in Files : h # f => g2.lo[h] = g.lo[h]
  BY <1>3, <1>5, <1>6, FreedFields DEF l, g2
<1>13. task'.left > 0 => task'.prev = g.c[f][l + 1]
  <2> SUFFICES ASSUME task'.left > 0 PROVE NextCluster(x, p) = g.c[f][l + 1]
    BY <1>9
  <2>1. Owns(g, f, l) /\ Owns(g, f, l + 1) /\ l + 1 # g.k[f]
    BY <1>3, <1>5, <1>6, <1>9 DEF Owns, l
  <2>2. Chained(g, fat, x, f)
    BY <1>3 DEF FileOK
  <2>3. NextCluster(x, g.c[f][l]) = g.c[f][l + 1]
    BY <1>3, <2>1, <2>2, NextInChain
  <2> QED
    BY <1>5, <2>3
<1>14. task.rc = "ENOSPC" => TooFew(used', x, task', task'.left)
  <2>1. Cardinality(Data \ used) \in Nat /\ Cardinality(Data \ used') = Cardinality(Data \ used) + 1
    BY <1>3, <1>7, <1>8, FreedCount DEF OwnedOnce
  <2> QED
    BY <1>2, <1>3, <1>5, <1>9, <2>1 DEF TooFew
<1>15. FreeOK(g2, used', fat', x, task')
  <2>1. g2.hi[f] = g2.lo[f] + task'.left
    BY <1>2, <1>3, <1>5, <1>9, <1>12
  <2>2. task'.left > 0 => task'.prev = g2.c[f][g2.lo[f]]
    BY <1>12, <1>13
  <2>3. task'.rc = "ok" => g2.k[f] = task'.n
    BY <1>5, <1>9, <1>12
  <2>4. task'.rc = "ENOSPC" => g2.k[f] = x.size
    BY <1>5, <1>9, <1>12
  <2> QED
    BY <1>9, <1>11, <1>14, <2>1, <2>2, <2>3, <2>4 DEF FreeOK
<1>16. node'[f] = x
  BY <1>2 DEF x
<1>17. CallOK(g2, used', fat', node', task')
  <2>1. task'.left \in Nat
    BY <1>2, <1>3, <1>9
  <2> QED
    BY <1>3, <1>9, <1>15, <1>16, <2>1 DEF CallOK
<1>18. Agree(g2, used', fat', node', task')
  <2>1. \A h \in Files : h # f =>
          /\ node'[h] = node[h] /\ g2.c[h] = g.c[h] /\ g2.k[h] = g.k[h]
          /\ g2.lo[h] = g.lo[h] /\ g2.hi[h] = g.hi[h]
          /\ \A i \in Nat : Owns(g, h, i) => fat'[g.c[h][i]] = fat[g.c[h][i]]
    BY <1>2, <1>11, <1>12
  <2>2. FileOK(g2, fat', node'[f], f) /\ OwnedOnce(g2, used')
    BY <1>7, <1>8, <1>11, <1>16
  <2>3. /\ task.f = f /\ f \in Files /\ Agree(g, used, fat, node, task) /\ g \in Chains
        /\ g2 \in Chains /\ task'.f = f /\ task' # NoTask
        /\ fat' \in [Data -> Data \cup {FREE, END}] /\ node' \in [Files -> Node]
    BY <1>1, <1>2, <1>3, <1>9, <1>10, <1>11, <1>12 DEF f
  <2> QED
    BY ONLY <1>17, <2>1, <2>2, <2>3, AgreeStep
<1>19. RefusedOK(result', used', node', task')
  BY <1>8, <1>10, ResultKept
<1> QED
  BY <1>2, <1>12, <1>18, <1>19 DEF ClustersInv

\* shrink_file() is done.
LEMMA ShrinkEndStep ==
  ASSUME ClustersInv, ShrinkEnd
  PROVE  ClustersInv'
<1>1. PICK g \in Chains : Agree(g, used, fat, node, task)
  BY DEF ClustersInv
<1> DEFINE f == task.f
           x == node[f]
<1>2. Running /\ task.op = "free" /\ task.left = 0
      /\ used' = used /\ fat' = fat /\ node' = node /\ bug' = bug
  BY DEF ShrinkEnd
<1>3. /\ task # NoTask /\ f \in Files /\ task.n \in 0..ClusterCount /\ task.n \in Nat
      /\ task.erase \in BOOLEAN /\ task.rc \in {"ok", "ENOSPC"}
      /\ x \in Node /\ x.size \in Nat /\ g.lo[f] \in Nat /\ g.hi[f] \in Nat
      /\ OwnedOnce(g, used)
  BY <1>1, <1>2, CallFacts
<1>4. FreeOK(g, used, fat, x, task)
  BY <1>1, <1>2, CallStage DEF Agree
<1>5. NoRest(g, f) /\ Ended(g, fat, x, f)
  BY <1>2, <1>3, <1>4 DEF FreeOK, NoRest
<1>6. CASE task.rc = "ok"
  <2>1. /\ task' = [op |-> "erase", f |-> f, n |-> task.n, erase |-> task.erase,
                    rc |-> "ok", left |-> 0]
        /\ result' = result
    BY <1>6 DEF ShrinkEnd
  <2>2. /\ task'.op = "erase" /\ task'.f = f /\ task'.n = task.n /\ task'.erase = task.erase
        /\ task'.rc = "ok" /\ task'.left = 0
    BY <2>1
  <2>3. task' # NoTask
    BY <2>2 DEF NoTask
  <2>4. EraseOK(g, fat, x, task')
    BY <1>4, <1>5, <1>6, <2>2 DEF EraseOK, FreeOK
  <2>5. CallOK(g, used, fat, node, task')
    BY <1>3, <2>2, <2>4 DEF CallOK
  <2>6. RefusedOK(result', used, node, task')
    BY <1>2, <2>1, <2>3, ResultKept
  <2> QED
    BY <1>1, <1>2, <1>3, <2>2, <2>3, <2>5, <2>6, OnlyCall
<1>7. CASE task.rc = "ENOSPC"
  <2>1. task' = NoTask /\ result' = [rc |-> "ENOSPC", f |-> f, n |-> task.n]
    BY <1>7 DEF ShrinkEnd, Return
  <2>2. g.k[f] = x.size /\ TooFew(used, x, task, 0)
    BY <1>2, <1>4, <1>7 DEF FreeOK
  <2>3. Settled(g, fat, x, f)
    BY <1>5, <2>2 DEF Settled
  <2>4. Cardinality(Data \ used) \in Nat
    <3>1. IsFiniteSet(Data)
      BY FS_Interval, ClusterNumbers DEF Data
    <3> QED
      BY <3>1, FS_Difference, FS_CardinalityType
  <2>5. RefusedOK(result', used, node, task')
    BY <1>3, <2>1, <2>2, <2>4 DEF RefusedOK, TooFew
  <2>6. CallOK(g, used, fat, node, task')
    BY <2>1 DEF CallOK
  <2> QED
    BY <1>1, <1>2, <1>3, <2>1, <2>3, <2>5, <2>6, OnlyCall
<1> QED
  BY <1>3, <1>6, <1>7

-----------------------------------------------------------------------------
(* The end of a call, and positioning *)

\* exfat_truncate() records the new size.
LEMMA ResizedStep ==
  ASSUME ClustersInv, NEW g \in Chains, Agree(g, used, fat, node, task), Running,
         task.op = "erase", NEW y, FileOK(g, fat, y, task.f), Ended(g, fat, y, task.f),
         Resized(y), used' = used, fat' = fat
  PROVE  ClustersInv'
<1> DEFINE f == task.f
           v == IF task.erase THEN task.n ELSE IF y.valid < task.n THEN y.valid ELSE task.n
           z == [y EXCEPT !.size = task.n, !.valid = v]
<1>1. /\ task # NoTask /\ f \in Files /\ task.n \in 0..ClusterCount /\ task.n \in Nat
      /\ node \in [Files -> Node] /\ fat \in [Data -> Data \cup {FREE, END}]
      /\ OwnedOnce(g, used) /\ g.k[f] \in Nat
  BY CallFacts
<1>2. EraseOK(g, fat, node[f], task)
  BY CallStage DEF Agree
<1>3. NoRest(g, f) /\ g.k[f] = task.n
  BY <1>2 DEF EraseOK
<1>4. /\ node' = [node EXCEPT ![f] = z] /\ bug' = bug
      /\ task' = NoTask /\ result' = [rc |-> "ok", f |-> f, n |-> task.n]
  BY DEF Resized, Return
<1>5. y \in Node /\ y.valid \in 0..ClusterCount /\ y.valid \in Nat
  BY ClusterNumbers DEF FileOK, Node
<1>6. v \in 0..ClusterCount /\ v <= task.n
  BY <1>1, <1>5, ClusterNumbers
<1> HIDE DEF v
<1>7. /\ z \in Node /\ z.size = task.n /\ z.valid = v /\ z.start = y.start /\ z.fi = y.fi
      /\ z.fc = y.fc /\ z.contig = y.contig
  BY <1>1, <1>5, <1>6 DEF Node
<1> HIDE DEF z
<1>8. FileOK(g, fat, z, f)
  <2>1. Pointed(g, z, f)
    BY <1>7 DEF FileOK, Pointed
  <2>2. Chained(g, fat, z, f)
    BY <1>7 DEF FileOK, Chained
  <2> QED
    BY <1>6, <1>7, <2>1, <2>2 DEF FileOK
<1>9. Settled(g, fat, z, f)
  BY <1>3, <1>7 DEF Settled, Ended
<1>10. /\ node'[f] = z /\ node' \in [Files -> Node]
       /\ \A h \in Files : h # f => node'[h] = node[h]
  BY <1>1, <1>4, <1>7
<1>11. CallOK(g, used', fat', node', task')
  BY <1>4 DEF CallOK
<1>12. Agree(g, used', fat', node', task')
  <2>1. \A h \in Files : h # f =>
          /\ node'[h] = node[h] /\ g.c[h] = g.c[h] /\ g.k[h] = g.k[h]
          /\ g.lo[h] = g.lo[h] /\ g.hi[h] = g.hi[h]
          /\ \A i \in Nat : Owns(g, h, i) => fat'[g.c[h][i]] = fat[g.c[h][i]]
    BY <1>10
  <2>2. FileOK(g, fat', node'[f], f) /\ OwnedOnce(g, used') /\ Settled(g, fat', node'[f], f)
    BY <1>1, <1>8, <1>9, <1>10
  <2>3. /\ task.f = f /\ f \in Files /\ Agree(g, used, fat, node, task) /\ g \in Chains
        /\ task' = NoTask
        /\ fat' \in [Data -> Data \cup {FREE, END}] /\ node' \in [Files -> Node]
    BY <1>1, <1>4, <1>10
  <2> HIDE DEF f
  <2> QED
    BY ONLY <1>11, <2>1, <2>2, <2>3, AgreeStep
<1>13. RefusedOK(result', used', node', task')
  BY <1>1, <1>4 DEF RefusedOK
<1> QED
  BY <1>4, <1>12, <1>13 DEF ClustersInv

\* erase_range() and the end of exfat_truncate().
LEMMA FinishStep ==
  ASSUME Faults = {}, ClustersInv, Finish
  PROVE  ClustersInv'
<1>1. PICK g \in Chains : Agree(g, used, fat, node, task)
  BY DEF ClustersInv
<1> DEFINE f == task.f
           x == node[f]
           i == x.valid
           y == Moved(x, i, g.c[f][i])
<1>2. Running /\ task.op = "erase" /\ used' = used /\ fat' = fat
  BY DEF Finish
<1>3. /\ f \in Files /\ task.n \in Nat /\ task.n <= ClusterCount /\ task.erase \in BOOLEAN
      /\ OwnedOnce(g, used) /\ FileOK(g, fat, x, f) /\ x \in Node
  BY <1>1, <1>2, CallFacts
<1>4. EraseOK(g, fat, x, task)
  BY <1>1, <1>2, CallStage DEF Agree
<1>5. g.k[f] = task.n /\ Ended(g, fat, x, f) /\ x.valid <= x.size /\ i \in Nat
  BY <1>3, <1>4, ClusterNumbers DEF EraseOK, FileOK, Node
<1>6. CASE ~task.erase \/ x.valid >= task.n
  <2>1. Resized(x)
    BY <1>6 DEF Finish
  <2> QED
    BY <1>1, <1>2, <1>3, <1>5, <2>1, ResizedStep
<1>7. CASE task.erase /\ ~(x.valid >= task.n)
  <2>1. i < g.k[f] /\ i <= Wrapped
    BY <1>3, <1>5, <1>7, ClusterNumbers
  <2> HIDE DEF f, x, i
  <2>2. ~AdvanceBug(x, i) /\ Advance(x, i, "erase" \in Faults) = {Moved(x, i, g.c[f][i])}
    BY <1>3, <1>5, <2>1, AdvanceEffect
  <2> HIDE DEF y
  <2>3. y = Moved(x, i, g.c[f][i])
    BY DEF y
  <2>4. FileOK(g, fat, y, f) /\ y.fc \in Data /\ Ended(g, fat, y, f)
    BY <1>3, <1>5, <2>1, <2>3, Repositioned
  <2>5. Resized(y)
    <3>1. ~Invalid(y.fc)
      BY <2>4 DEF Invalid
    <3>2. x = node[task.f] /\ i = x.valid /\ ~(~task.erase \/ x.valid >= task.n)
      BY <1>7 DEF x, f, i
    <3>3. ~AdvanceBug(x, i) /\ Advance(x, i, "erase" \in Faults) = {y}
      BY <2>2, <2>3
    <3> QED
      BY <3>1, <3>2, <3>3 DEF Finish
  <2> QED
    BY <1>1, <1>2, <1>7, <2>4, <2>5, ResizedStep DEF f
<1> QED
  BY <1>3, <1>6, <1>7

\* A read or a write positions itself.
LEMMA PositionStep ==
  ASSUME Faults = {}, ClustersInv, NEW f \in Files, NEW i \in 0..(ClusterCount - 1),
         Position(f, i)
  PROVE  ClustersInv'
<1>1. PICK g \in Chains : Agree(g, used, fat, node, task)
  BY DEF ClustersInv
<1> DEFINE x == node[f]
           y == Moved(x, i, g.c[f][i])
<1>2. task.op = "none" /\ i < x.size
  BY DEF Position
<1>3. task = NoTask
  BY <1>1, <1>2, NoStage DEF Agree
<1>4. /\ x \in Node /\ Settled(g, fat, x, f) /\ FileOK(g, fat, x, f)
      /\ node \in [Files -> Node] /\ fat \in [Data -> Data \cup {FREE, END}] /\ OwnedOnce(g, used)
  BY <1>1, <1>3 DEF Agree, Others
<1>5. i \in Nat /\ i < g.k[f] /\ i <= Wrapped
  BY <1>2, <1>4, ClusterNumbers DEF Settled
<1> HIDE DEF x, y
<1>6. ~AdvanceBug(x, i) /\ Advance(x, i, "position" \in Faults) = {y}
  BY <1>4, <1>5, AdvanceEffect DEF y
<1>7. y = Moved(x, i, g.c[f][i])
  BY DEF y
<1>8. FileOK(g, fat, y, f) /\ Settled(g, fat, y, f) /\ y.size = x.size
  BY <1>4, <1>5, <1>7, Repositioned
<1>9. /\ node' = [node EXCEPT ![f] = y]
      /\ used' = used /\ fat' = fat /\ task' = task /\ result' = result /\ bug' = bug
  BY <1>6 DEF Position, x
<1>10. y \in Node
  BY <1>8 DEF FileOK
<1>11. /\ node'[f] = y /\ node' \in [Files -> Node]
       /\ \A h \in Files : h # f => node'[h] = node[h]
  BY <1>4, <1>9, <1>10
<1>12. CallOK(g, used', fat', node', task')
  BY <1>3, <1>9 DEF CallOK
<1>13. Agree(g, used', fat', node', task')
  <2>1. \A h \in Files : h # f =>
          /\ node'[h] = node[h] /\ g.c[h] = g.c[h] /\ g.k[h] = g.k[h]
          /\ g.lo[h] = g.lo[h] /\ g.hi[h] = g.hi[h]
          /\ \A j \in Nat : Owns(g, h, j) => fat'[g.c[h][j]] = fat[g.c[h][j]]
    BY <1>9, <1>11
  <2>2. FileOK(g, fat', node'[f], f) /\ OwnedOnce(g, used') /\ Settled(g, fat', node'[f], f)
    BY <1>4, <1>8, <1>9, <1>11
  <2>3. /\ task = NoTask /\ f \in Files /\ Agree(g, used, fat, node, task) /\ g \in Chains
        /\ task' = NoTask
        /\ fat' \in [Data -> Data \cup {FREE, END}] /\ node' \in [Files -> Node]
    BY <1>1, <1>3, <1>4, <1>9, <1>11
  <2> QED
    BY ONLY <1>12, <2>1, <2>2, <2>3, AgreeStep
<1>14. RefusedOK(result', used', node', task')
  <2>1. \A h \in Files : node'[h].size = node[h].size
    BY <1>8, <1>11 DEF x
  <2> QED
    BY <1>9, <2>1 DEF ClustersInv, RefusedOK
<1> QED
  BY <1>9, <1>13, <1>14 DEF ClustersInv

-----------------------------------------------------------------------------
(* The theorems *)

\* A volume without files has no chains.
LEMMA InitInv ==
  ASSUME Init
  PROVE  ClustersInv
<1> DEFINE zero == [f \in Files |-> 0]
           g == [c |-> [f \in Files |-> [i \in Nat |-> 0]], k |-> zero, lo |-> zero, hi |-> zero]
<1>1. /\ g \in Chains
      /\ \A f \in Files : g.k[f] = 0 /\ g.lo[f] = 0 /\ g.hi[f] = 0
  BY DEF Chains
<1> HIDE DEF g
<1>2. \A f \in Files, i \in Nat : ~Owns(g, f, i)
  BY <1>1 DEF Owns
<1>3. OwnedOnce(g, used)
  BY <1>2, ClustersAssumption DEF OwnedOnce, Init
<1>4. node \in [Files -> Node] /\ fat \in [Data -> Data \cup {FREE, END}]
  <2>1. 0 \in 0..ClusterCount /\ 0 \in 0..Wrapped
    BY ClusterNumbers
  <2> QED
    BY <2>1 DEF Init, Node
<1>5. ASSUME NEW f \in Files PROVE FileOK(g, fat, node[f], f) /\ Settled(g, fat, node[f], f)
  <2> DEFINE x == node[f]
  <2>1. /\ x.start = FREE /\ x.size = 0 /\ x.valid = 0 /\ x.fi = 0 /\ x.fc = FREE /\ x \in Node
    BY <1>4 DEF Init
  <2> HIDE DEF x
  <2>2. Pointed(g, x, f) /\ Chained(g, fat, x, f) /\ Ended(g, fat, x, f) /\ NoRest(g, f)
    BY <1>1, <1>2, <2>1 DEF Pointed, Chained, Ended, NoRest
  <2>3. FileOK(g, fat, x, f) /\ Settled(g, fat, x, f)
    BY <1>1, <2>1, <2>2 DEF FileOK, Settled
  <2> QED
    BY <2>3 DEF x
<1>6. Agree(g, used, fat, node, task)
  <2>1. task = NoTask
    BY DEF Init
  <2> QED
    BY <1>3, <1>4, <1>5, <2>1 DEF Agree, CallOK, Others
<1>7. RefusedOK(result, used, node, task)
  BY DEF Init, RefusedOK
<1> QED
  BY <1>1, <1>6, <1>7 DEF ClustersInv, Init

\* Every step keeps the chains.
LEMMA NextInv ==
  ASSUME Faults = {}, ClustersInv, [Next]_vars
  PROVE  ClustersInv'
<1>1. CASE \E f \in Files, n \in 0..ClusterCount, erase \in BOOLEAN : Truncate(f, n, erase)
  BY <1>1, TruncateStep
<1>2. CASE GrowFirst
  BY <1>2, GrowFirstStep
<1>3. CASE GrowFromLast
  BY <1>3, GrowFromLastStep
<1>4. CASE GrowNext
  BY <1>4, GrowNextStep
<1>5. CASE GrowFull
  BY <1>5, GrowFullStep
<1>6. CASE GrowEnd
  BY <1>6, GrowEndStep
<1>7. CASE ShrinkAll
  BY <1>7, ShrinkAllStep
<1>8. CASE ShrinkCrop
  BY <1>8, ShrinkCropStep
<1>9. CASE ShrinkFree
  BY <1>9, ShrinkFreeStep
<1>10. CASE ShrinkEnd
  BY <1>10, ShrinkEndStep
<1>11. CASE Finish
  BY <1>11, FinishStep
<1>12. CASE \E f \in Files, i \in 0..(ClusterCount - 1) : Position(f, i)
  BY <1>12, PositionStep
<1>13. CASE UNCHANGED vars
  BY <1>13 DEF vars, ClustersInv
<1> QED
  BY <1>1, <1>2, <1>3, <1>4, <1>5, <1>6, <1>7, <1>8, <1>9, <1>10, <1>11, <1>12, <1>13
     DEF Next

\* The clusters of a file between calls.
LEMMA ClaimedChain ==
  ASSUME NEW g \in Chains, Agree(g, used, fat, node, task), NoCall, NEW f \in Files
  PROVE  /\ FileOK(g, fat, node[f], f) /\ Settled(g, fat, node[f], f)
         /\ node[f].size \in Nat /\ node[f].size <= ClusterCount /\ g.k[f] = node[f].size
         /\ OwnedOnce(g, used)
         /\ \A i \in Nat : Owns(g, f, i) <=> i \in 0..(node[f].size - 1)
         /\ \A i \in 0..(node[f].size - 1) : Walk(node[f], node[f].start, i) = g.c[f][i]
         /\ Claimed(f) = {g.c[f][i] : i \in 0..(node[f].size - 1)}
<1> DEFINE x == node[f]
           I == 0..(x.size - 1)
<1>1. task = NoTask
  BY NoStage DEF Agree, NoCall
<1>2. FileOK(g, fat, x, f) /\ Settled(g, fat, x, f) /\ OwnedOnce(g, used) /\ x \in Node
  BY <1>1 DEF Agree, Others
<1>3. /\ x.size \in Nat /\ x.size <= ClusterCount /\ g.k[f] = x.size
      /\ g.lo[f] \in Nat /\ g.hi[f] \in Nat /\ g.hi[f] <= g.lo[f]
  BY <1>2, ChainFields, ClusterNumbers DEF Settled, NoRest, Node
<1> HIDE DEF x
<1>4. \A i \in Nat : Owns(g, f, i) <=> i \in I
  BY <1>3 DEF Owns
<1>5. \A i \in I : i \in Nat /\ g.c[f][i] \in Data
  <2>1. \A i \in I : i \in Nat
    BY <1>3
  <2> QED
    BY <1>2, <1>4, <2>1 DEF OwnedOnce
<1>6. ASSUME NEW i \in I PROVE Walk(x, x.start, i) = g.c[f][i]
  <2>1. i \in Nat /\ 0 + i = i /\ 0 + i < g.k[f] /\ i <= Wrapped /\ g.k[f] > 0
    BY <1>3, ClusterNumbers
  <2>2. x.start = g.c[f][0] /\ Chained(g, fat, x, f)
    BY <1>2, <2>1 DEF FileOK, Pointed
  <2>3. Walk(x, g.c[f][0], i) = g.c[f][0 + i]
    BY <1>2, <2>1, <2>2, WalkInChain
  <2> QED
    BY <2>1, <2>2, <2>3
<1>7. Claimed(f) = {g.c[f][i] : i \in I}
  <2>1. Claimed(f) = IF x.start = FREE THEN {} ELSE {Walk(x, x.start, i) : i \in I} \cap Data
    BY DEF Claimed, Chain, x
  <2> HIDE DEF I
  <2>2. CASE x.start = FREE
    <3>1. x.size = 0
      BY <1>2, <1>3, <2>2, StartTells
    <3>2. I = {}
      BY <3>1 DEF I
    <3> QED
      BY <2>1, <2>2, <3>2
  <2>3. CASE x.start # FREE
    BY <1>5, <1>6, <2>1, <2>3
  <2> QED
    BY <2>2, <2>3
<1> QED
  BY <1>2, <1>3, <1>4, <1>6, <1>7 DEF x

\* Bitmap and chains agree.
LEMMA InvOwned ==
  ASSUME ClustersInv
  PROVE  ClustersOwned
<1> SUFFICES ASSUME NoCall PROVE ClustersOwned
  BY DEF ClustersOwned, NoCrossLink, NoLeak, RefusedWhenFull
<1>1. PICK g \in Chains : Agree(g, used, fat, node, task)
  BY DEF ClustersInv
<1>2. \A f \in Files :
        /\ Claimed(f) = {g.c[f][i] : i \in 0..(node[f].size - 1)}
        /\ \A i \in 0..(node[f].size - 1) : i \in Nat /\ Owns(g, f, i)
        /\ \A i \in Nat : Owns(g, f, i) => i \in 0..(node[f].size - 1)
  BY <1>1, ClaimedChain
<1>3. \A f \in Files : \A d : d \in Claimed(f) <=> \E i \in Nat : Owns(g, f, i) /\ g.c[f][i] = d
  BY <1>2
<1>4. OwnedOnce(g, used)
  BY <1>1 DEF Agree
<1>5. NoCrossLink
  <2>1. \A f \in Files : Claimed(f) \subseteq used \ Reserved
    BY <1>3, <1>4 DEF OwnedOnce
  <2>2. \A f, h \in Files : h # f => Claimed(f) \cap Claimed(h) = {}
    BY <1>3, <1>4 DEF OwnedOnce
  <2> QED
    BY <2>1, <2>2 DEF NoCrossLink
<1>6. NoLeak
  <2>1. \A d \in used : d \in Reserved \/ \E f \in Files : d \in Claimed(f)
    BY <1>3, <1>4 DEF OwnedOnce
  <2>2. \A d \in Reserved : d \in used
    BY <1>4, ClustersAssumption DEF OwnedOnce
  <2>3. \A f \in Files : Claimed(f) \subseteq used
    BY <1>5 DEF NoCrossLink
  <2> QED
    BY <2>1, <2>2, <2>3 DEF NoLeak
<1>7. RefusedWhenFull
  <2>1. task = NoTask
    BY <1>1, NoStage DEF Agree, NoCall
  <2> QED
    BY <2>1 DEF ClustersInv, RefusedOK, RefusedWhenFull
<1> QED
  BY <1>5, <1>6, <1>7 DEF ClustersOwned

\* Every file has as many clusters as its size says.
LEMMA InvComplete ==
  ASSUME ClustersInv
  PROVE  ChainComplete
<1> SUFFICES ASSUME NoCall, NEW f \in Files
             PROVE  /\ Cardinality(Claimed(f)) = node[f].size
                    /\ ~node[f].contig /\ node[f].size > 0 =>
                         fat[Walk(node[f], node[f].start, node[f].size - 1)] = END
  BY DEF ChainComplete
<1>1. PICK g \in Chains : Agree(g, used, fat, node, task)
  BY DEF ClustersInv
<1> DEFINE x == node[f]
           I == 0..(x.size - 1)
<1>2. /\ Settled(g, fat, x, f) /\ x.size \in Nat /\ g.k[f] = x.size /\ OwnedOnce(g, used)
      /\ \A i \in Nat : Owns(g, f, i) <=> i \in I
      /\ \A i \in I : Walk(x, x.start, i) = g.c[f][i]
      /\ Claimed(f) = {g.c[f][i] : i \in I}
  BY <1>1, ClaimedChain
<1> HIDE DEF x
<1>3. Cardinality(Claimed(f)) = x.size
  <2> DEFINE T == Claimed(f)
             m == [i \in I |-> g.c[f][i]]
  <2>1. \A i, j \in I : g.c[f][i] = g.c[f][j] => i = j
    <3>1. \A i \in I : i \in Nat /\ Owns(g, f, i)
      BY <1>2
    <3> QED
      BY <1>2, <3>1 DEF OwnedOnce
  <2>2. IsFiniteSet(I) /\ Cardinality(I) = x.size
    <3>1. x.size - 1 \in Int
      BY <1>2
    <3>2. IsFiniteSet(I) /\ Cardinality(I) = IF 0 > x.size - 1 THEN 0 ELSE (x.size - 1) - 0 + 1
      BY <3>1, FS_Interval
    <3> QED
      BY <1>2, <3>2
  <2> HIDE DEF I
  <2>3. m \in Bijection(I, T)
    BY <1>2, <2>1 DEF Bijection, Injection, Surjection, IsInjective
  <2>4. ExistsBijection(I, T)
    BY <2>3 DEF ExistsBijection
  <2>5. Cardinality(T) = Cardinality(I)
    BY <2>2, <2>4, FS_Bijection
  <2> QED
    BY <2>2, <2>5
<1>4. ASSUME ~x.contig, x.size > 0 PROVE fat[Walk(x, x.start, x.size - 1)] = END
  <2>1. x.size - 1 \in I
    BY <1>2, <1>4
  <2>2. Walk(x, x.start, x.size - 1) = g.c[f][x.size - 1]
    BY <1>2, <2>1
  <2> QED
    BY <1>2, <1>4, <2>2 DEF Settled, Ended
<1> QED
  BY <1>3, <1>4 DEF x

\* The cached positions are positions in the chains.
LEMMA InvPositions ==
  ASSUME ClustersInv
  PROVE  PositionsSound
<1> SUFFICES ASSUME NoCall, NEW f \in Files, node[f].fi < node[f].size
             PROVE  node[f].fc = Walk(node[f], node[f].start, node[f].fi)
  BY DEF PositionsSound, PositionSane, NeverBug, ClustersInv
<1>1. PICK g \in Chains : Agree(g, used, fat, node, task)
  BY DEF ClustersInv
<1> DEFINE x == node[f]
<1>2. /\ FileOK(g, fat, x, f) /\ x.size \in Nat /\ g.k[f] = x.size
      /\ \A i \in 0..(x.size - 1) : Walk(x, x.start, i) = g.c[f][i]
  BY <1>1, ClaimedChain
<1>3. x.fi \in Nat /\ x.fi \in 0..(x.size - 1)
  BY <1>2, ClusterNumbers DEF FileOK, Node
<1> QED
  BY <1>2, <1>3 DEF FileOK, Pointed

\* The types follow.
LEMMA InvType ==
  ASSUME ClustersInv
  PROVE  TypeOK
  BY DEF ClustersInv, Agree, OwnedOnce, FileOK, TypeOK

\* The inductive invariant holds.
LEMMA InvHolds ==
  ASSUME Faults = {}
  PROVE  Spec => []ClustersInv
<1>1. Init => ClustersInv
  BY InitInv
<1>2. ClustersInv /\ [Next]_vars => ClustersInv'
  BY NextInv
<1> QED
  BY <1>1, <1>2, PTL DEF Spec

\* exfat_truncate(): bitmap, FAT and nodes have their types, and valid_size never
\* exceeds size.
THEOREM TypeCorrect ==
  ASSUME Faults = {}
  PROVE  Spec => []TypeOK
<1>1. ClustersInv => TypeOK
  BY InvType
<1> QED
  BY <1>1, InvHolds, PTL

\* Between calls no cluster belongs to two files, to a file and the system or to
\* a file while it is free; none is lost; and a resize is refused only when there
\* is too little space.  For any number of files and clusters.
THEOREM ClustersOwnedHolds ==
  ASSUME Faults = {}
  PROVE  Spec => []ClustersOwned
<1>1. ClustersInv => ClustersOwned
  BY InvOwned
<1> QED
  BY <1>1, InvHolds, PTL

\* Between calls every file has as many clusters as its size says, and the FAT
\* chain of one that is not contiguous ends there.
THEOREM ChainCompleteHolds ==
  ASSUME Faults = {}
  PROVE  Spec => []ChainComplete
<1>1. ClustersInv => ChainComplete
  BY InvComplete
<1> QED
  BY <1>1, InvHolds, PTL

\* The cached position is one of the chain whatever has been cut off or appended
\* since it was taken, and no internal check of cluster.c ever fails.
THEOREM PositionsSoundHolds ==
  ASSUME Faults = {}
  PROVE  Spec => []PositionsSound
<1>1. ClustersInv => PositionsSound
  BY InvPositions
<1> QED
  BY <1>1, InvHolds, PTL

\* The recursion that sums the numbers c[f] of the files in s.
Adds(c, w, s) ==
  IF s = {} THEN 0 ELSE LET f == CHOOSE x \in s : TRUE IN c[f] + w[s \ {f}]

\* The total of Space is that sum.
LEMMA TotalUnfolds ==
  ASSUME NEW c
  PROVE  Sp!Total(c) = (CHOOSE w : w = [s \in SUBSET Files |-> Adds(c, w, s)])[Files]
  BY DEF Sp!Total, Sp!MapThenSumSet, Sp!MapThenFoldSet, Adds

\* Disjoint sets have as many elements together as one by one.
LEMMA TotalOfParts ==
  ASSUME IsFiniteSet(Files), NEW D, IsFiniteSet(D), NEW A \in [Files -> SUBSET D],
         \A f, h \in Files : f # h => A[f] \cap A[h] = {},
         NEW c, \A f \in Files : c[f] = Cardinality(A[f])
  PROVE  Sp!Total(c) = Cardinality(UNION {A[f] : f \in Files})
<1> DEFINE U(s) == UNION {A[f] : f \in s}
           v == [s \in SUBSET Files |-> Cardinality(U(s))]
<1>1. ASSUME NEW s \in SUBSET Files, NEW f \in s
      PROVE  Cardinality(U(s)) = c[f] + Cardinality(U(s \ {f}))
  <2>1. U(s) = A[f] \cup U(s \ {f})
    OBVIOUS
  <2>2. A[f] \cap U(s \ {f}) = {}
    OBVIOUS
  <2>3. A[f] \subseteq D /\ U(s \ {f}) \subseteq D
    OBVIOUS
  <2> HIDE DEF U
  <2>4. IsFiniteSet(A[f]) /\ IsFiniteSet(U(s \ {f}))
    BY <2>3, FS_Subset
  <2>5. Cardinality(A[f] \cap U(s \ {f})) = 0
    BY <2>2, FS_EmptySet
  <2>6. Cardinality(U(s)) = Cardinality(A[f]) + Cardinality(U(s \ {f})) - 0
    BY <2>1, <2>4, <2>5, FS_Union
  <2>7. Cardinality(A[f]) \in Nat /\ Cardinality(U(s \ {f})) \in Nat
    BY <2>4, FS_CardinalityType
  <2> QED
    BY <2>6, <2>7
<1>2. Cardinality(U({})) = 0
  <2>1. U({}) = {}
    OBVIOUS
  <2> QED
    BY <2>1, FS_EmptySet
<1> HIDE DEF U
<1>3. ASSUME NEW s \in SUBSET Files PROVE v[s] = Adds(c, v, s)
  <2>1. v[s] = Cardinality(U(s))
    OBVIOUS
  <2>2. CASE s = {}
    BY <1>2, <2>1, <2>2 DEF Adds
  <2>3. CASE s # {}
    <3> DEFINE f == CHOOSE x \in s : TRUE
    <3>1. f \in s /\ s \ {f} \in SUBSET Files
      BY <2>3
    <3>2. Adds(c, v, s) = c[f] + v[s \ {f}]
      BY <2>3 DEF Adds
    <3> HIDE DEF f
    <3>3. v[s \ {f}] = Cardinality(U(s \ {f}))
      BY <3>1
    <3>4. Cardinality(U(s)) = c[f] + Cardinality(U(s \ {f}))
      BY <1>1, <3>1
    <3> QED
      BY <2>1, <3>2, <3>3, <3>4
  <2> QED
    BY <2>2, <2>3
<1>4. v = [s \in SUBSET Files |-> Adds(c, v, s)]
  <2>1. v = [s \in SUBSET Files |-> v[s]]
    OBVIOUS
  <2> HIDE DEF v
  <2> QED
    BY <1>3, <2>1
<1>5. v[Files] = Cardinality(UNION {A[f] : f \in Files})
  BY DEF U
<1> HIDE DEF v
<1> DEFINE w == CHOOSE w : w = [s \in SUBSET Files |-> Adds(c, w, s)]
<1>6. w = [s \in SUBSET Files |-> Adds(c, w, s)]
  BY <1>4
<1>7. Sp!Total(c) = w[Files]
  BY TotalUnfolds
<1> HIDE DEF w
<1>8. \A s \in SUBSET Files : w[s] = Adds(c, w, s)
  BY <1>6
<1>9. \A s \in SUBSET Files : w[s] = v[s]
  <2> DEFINE S == {n \in Nat : \E s \in SUBSET Files : Cardinality(s) = n /\ w[s] # v[s]}
  <2>1. \A s \in SUBSET Files : IsFiniteSet(s) /\ Cardinality(s) \in Nat
    BY FS_Subset, FS_CardinalityType
  <2> SUFFICES ASSUME S # {} PROVE FALSE
    BY <2>1
  <2>2. PICK n \in S : \A m \in S : n <= m
    <3>1. S \in SUBSET Nat
      OBVIOUS
    <3> HIDE DEF S
    <3> QED
      BY <3>1, LeastNatural
  <2>3. PICK s \in SUBSET Files : Cardinality(s) = n /\ w[s] # v[s]
    OBVIOUS
  <2>4. n \in Nat
    OBVIOUS
  <2>5. s # {}
    BY <1>3, <1>8, <2>3 DEF Adds
  <2> DEFINE f == CHOOSE x \in s : TRUE
             r == s \ {f}
  <2>6. f \in s /\ r \in SUBSET Files
    BY <2>5
  <2>7. w[s] = c[f] + w[r] /\ v[s] = c[f] + v[r]
    BY <1>3, <1>8, <2>5 DEF Adds
  <2> HIDE DEF f
  <2>8. Cardinality(r) = n - 1
    BY <2>1, <2>3, <2>6, FS_RemoveElement
  <2> HIDE DEF r
  <2>9. w[r] # v[r]
    BY <2>3, <2>7
  <2>10. Cardinality(r) \in S
    BY <2>1, <2>6, <2>9
  <2> HIDE DEF S
  <2> QED
    BY <2>2, <2>4, <2>8, <2>10
<1> QED
  BY <1>5, <1>7, <1>9

\* The sizes of the files.
Sizes == [f \in Files |-> node[f].size]

\* Between calls they are within the capacity of the volume.
TotalFits ==
  NoCall => /\ Sp!Total(Sizes) <= ClusterCount - Cardinality(Reserved)
            /\ \A f \in Files : node[f].size \in 0..(ClusterCount - Cardinality(Reserved))

\* The chains of all files lie beside one another in the volume.
LEMMA InvTotal ==
  ASSUME IsFiniteSet(Files), ClustersInv
  PROVE  TotalFits
<1> SUFFICES ASSUME NoCall
             PROVE  /\ Sp!Total(Sizes) <= ClusterCount - Cardinality(Reserved)
                    /\ \A f \in Files :
                         node[f].size \in 0..(ClusterCount - Cardinality(Reserved))
  BY DEF TotalFits
<1> DEFINE D == Data \ Reserved
           A == [f \in Files |-> Claimed(f)]
           C == ClusterCount - Cardinality(Reserved)
<1>1. IsFiniteSet(Data) /\ Cardinality(Data) = ClusterCount
  <2>1. 2 \in Int /\ ClusterCount + 1 \in Int
    BY ClusterNumbers
  <2>2. IsFiniteSet(2..(ClusterCount + 1))
        /\ Cardinality(2..(ClusterCount + 1)) = IF 2 > ClusterCount + 1 THEN 0 ELSE (ClusterCount + 1) - 2 + 1
    BY <2>1, FS_Interval
  <2> QED
    BY <2>2, ClusterNumbers DEF Data
<1>2. IsFiniteSet(D) /\ Cardinality(D) = C
  <2>1. Data \cap Reserved = Reserved
    BY ClustersAssumption
  <2> QED
    BY <1>1, <2>1, FS_Difference
<1>3. ClustersOwned /\ ChainComplete
  BY InvOwned, InvComplete
<1>4. used \subseteq Data
  BY DEF ClustersInv, Agree, OwnedOnce
<1>5. \A f \in Files : Claimed(f) \subseteq D
  BY <1>3, <1>4 DEF ClustersOwned, NoCrossLink
<1>6. \A f, h \in Files : f # h => Claimed(f) \cap Claimed(h) = {}
  BY <1>3 DEF ClustersOwned, NoCrossLink
<1>7. \A f \in Files : Cardinality(Claimed(f)) = node[f].size
  BY <1>3 DEF ChainComplete
<1> HIDE DEF D
<1>8. A \in [Files -> SUBSET D] /\ \A f \in Files : A[f] = Claimed(f)
  BY <1>5
<1> HIDE DEF A
<1>9. Sp!Total(Sizes) = Cardinality(UNION {A[f] : f \in Files})
  <2>1. \A f \in Files : Sizes[f] = Cardinality(A[f])
    BY <1>7, <1>8 DEF Sizes
  <2>2. \A f, h \in Files : f # h => A[f] \cap A[h] = {}
    BY <1>6, <1>8
  <2> QED
    BY <1>2, <1>8, <2>1, <2>2, TotalOfParts
<1>10. UNION {A[f] : f \in Files} \in SUBSET D
  BY <1>8
<1>11. Cardinality(UNION {A[f] : f \in Files}) <= C
  BY <1>2, <1>10, FS_Subset
<1>12. ASSUME NEW f \in Files PROVE node[f].size \in 0..C
  <2>1. Cardinality(Claimed(f)) <= C /\ Cardinality(Claimed(f)) \in Nat
    BY <1>2, <1>5, FS_Subset, FS_CardinalityType
  <2>2. C \in Nat
    BY <1>2, FS_CardinalityType
  <2> HIDE DEF C
  <2> QED
    BY <1>7, <2>1, <2>2
<1> QED
  BY <1>9, <1>11, <1>12

\* exfat_advance_cluster() changes no size.
LEMMA AdvanceSize ==
  ASSUME NEW x, NEW i, NEW p
  PROVE  \A y \in Advance(x, i, p \in Faults) : y.size = x.size
<1> SUFFICES ASSUME NEW y \in Advance(x, i, p \in Faults) PROVE y.size = x.size
  OBVIOUS
<1>1. \E c : y = [x EXCEPT !.fi = i, !.fc = c]
  BY DEF Advance
<1> QED
  BY <1>1

\* Only the last step of exfat_truncate() changes a size.
LEMMA SizeStep ==
  ASSUME ClustersInv, [Next]_vars
  PROVE  \/ Sizes' = Sizes
         \/ /\ task.f \in Files /\ task' = NoTask
            /\ Sizes' = [Sizes EXCEPT ![task.f] = task.n]
            /\ Sizes'[task.f] = task.n
<1>1. PICK g \in Chains : Agree(g, used, fat, node, task)
  BY DEF ClustersInv
<1>2. node \in [Files -> Node]
  BY <1>1 DEF Agree
<1>3. Running => task.f \in Files
  BY <1>1, CallFacts
<1>4. ASSUME NEW y, y.size = node[task.f].size, Running, node' = [node EXCEPT ![task.f] = y]
      PROVE  Sizes' = Sizes
  BY <1>2, <1>3, <1>4 DEF Sizes
<1>5. ASSUME node' = node PROVE Sizes' = Sizes
  BY <1>5 DEF Sizes
<1>6. CASE \E f \in Files, n \in 0..ClusterCount, erase \in BOOLEAN : Truncate(f, n, erase)
  BY <1>5, <1>6 DEF Truncate
<1>7. CASE GrowFirst
  <2> DEFINE c == Allocate(0)
  <2>1. Running
    BY <1>7 DEF GrowFirst
  <2>2. CASE node' = node
    BY <1>5, <2>2
  <2>3. CASE node' = [node EXCEPT ![task.f].start = c, ![task.f].fc = c, ![task.f].contig = TRUE]
    <3> HIDE DEF c
    <3> QED
      BY <1>2, <1>3, <2>1, <2>3 DEF Sizes
  <2> QED
    BY <1>7, <2>2, <2>3 DEF GrowFirst, Bug
<1>8. CASE GrowFromLast
  <2>1. Running
    BY <1>8 DEF GrowFromLast
  <2>2. CASE node' = node
    BY <1>5, <2>2
  <2>3. CASE node' # node
    <3> DEFINE x == node[task.f]
               last == IF x.size = 0 THEN Wrapped ELSE x.size - 1
    <3>1. \E y \in Advance(x, last, "grow" \in Faults) : node' = [node EXCEPT ![task.f] = y]
      BY <1>8, <2>3 DEF GrowFromLast, Bug
    <3> HIDE DEF x, last
    <3>2. PICK y \in Advance(x, last, "grow" \in Faults) : node' = [node EXCEPT ![task.f] = y]
      BY <3>1
    <3>3. y.size = x.size
      BY AdvanceSize
    <3> QED
      BY <1>4, <2>1, <3>2, <3>3 DEF x
  <2> QED
    BY <2>2, <2>3
<1>9. CASE GrowNext
  <2>1. Running
    BY <1>9 DEF GrowNext
  <2>2. CASE node' = node
    BY <1>5, <2>2
  <2>3. CASE \E b : node' = [node EXCEPT ![task.f].contig = b]
    BY <1>2, <1>3, <2>1, <2>3 DEF Sizes
  <2> QED
    BY <1>9, <2>2, <2>3 DEF GrowNext
<1>10. CASE GrowFull \/ GrowEnd \/ ShrinkFree \/ ShrinkEnd
  BY <1>5, <1>10 DEF GrowFull, GrowEnd, ShrinkFree, ShrinkEnd
<1>11. CASE ShrinkAll
  <2>1. Running
    BY <1>11 DEF ShrinkAll
  <2>2. CASE node' = node
    BY <1>5, <2>2
  <2>3. CASE node' = [node EXCEPT ![task.f].start = FREE, ![task.f].fi = 0, ![task.f].fc = FREE]
    BY <1>2, <1>3, <2>1, <2>3 DEF Sizes
  <2> QED
    BY <1>11, <2>2, <2>3 DEF ShrinkAll, Bug
<1>12. CASE ShrinkCrop
  <2> DEFINE x == node[task.f]
             last == Current - task.left - 1
  <2>1. Running
    BY <1>12 DEF ShrinkCrop
  <2>2. CASE node' = node
    BY <1>5, <2>2
  <2>3. CASE node' = [node EXCEPT ![task.f].fi = 0, ![task.f].fc = x.start]
    BY <1>2, <1>3, <2>1, <2>3 DEF Sizes
  <2>4. CASE \E y \in Advance(x, last, "shrink" \in Faults) : node' = [node EXCEPT ![task.f] = y]
    <3> HIDE DEF x, last
    <3>1. PICK y \in Advance(x, last, "shrink" \in Faults) : node' = [node EXCEPT ![task.f] = y]
      BY <2>4
    <3>2. y.size = x.size
      BY AdvanceSize
    <3> QED
      BY <1>4, <2>1, <3>1, <3>2 DEF x
  <2> QED
    BY <1>12, <2>2, <2>3, <2>4 DEF ShrinkCrop, Bug
<1>13. CASE Finish
  <2> DEFINE x == node[task.f]
             i == x.valid
  <2>1. Running
    BY <1>13 DEF Finish
  <2>2. CASE node' = node
    BY <1>5, <2>2
  <2>3. CASE \E y : Resized(y)
    <3>1. PICK y : Resized(y)
      BY <2>3
    <3> DEFINE z == [y EXCEPT !.size = task.n,
                              !.valid = IF task.erase THEN task.n
                                        ELSE IF y.valid < task.n THEN y.valid ELSE task.n]
    <3>2. node' = [node EXCEPT ![task.f] = z] /\ task' = NoTask
      BY <3>1 DEF Resized, Return
    <3>3. z.size = task.n
      OBVIOUS
    <3> HIDE DEF z
    <3> QED
      BY <1>2, <1>3, <2>1, <3>2, <3>3 DEF Sizes
  <2>4. CASE \E y \in Advance(x, i, "erase" \in Faults) : node' = [node EXCEPT ![task.f] = y]
    <3> HIDE DEF x, i
    <3>1. PICK y \in Advance(x, i, "erase" \in Faults) : node' = [node EXCEPT ![task.f] = y]
      BY <2>4
    <3>2. y.size = x.size
      BY AdvanceSize
    <3> QED
      BY <1>4, <2>1, <3>1, <3>2 DEF x
  <2> QED
    BY <1>13, <2>2, <2>3, <2>4 DEF Finish
<1>14. CASE \E f \in Files, i \in 0..(ClusterCount - 1) : Position(f, i)
  <2>1. PICK f \in Files, i \in 0..(ClusterCount - 1) : Position(f, i)
    BY <1>14
  <2>2. CASE node' = node
    BY <1>5, <2>2
  <2>3. CASE node' # node
    <3> DEFINE x == node[f]
    <3>1. \E y \in Advance(x, i, "position" \in Faults) : node' = [node EXCEPT ![f] = y]
      BY <2>1, <2>3 DEF Position, Bug
    <3> HIDE DEF x
    <3>2. PICK y \in Advance(x, i, "position" \in Faults) : node' = [node EXCEPT ![f] = y]
      BY <3>1
    <3>3. y.size = x.size
      BY AdvanceSize
    <3> QED
      BY <1>2, <3>2, <3>3 DEF x, Sizes
  <2> QED
    BY <2>2, <2>3
<1>15. CASE UNCHANGED vars
  BY <1>5, <1>15 DEF vars
<1> QED
  BY <1>6, <1>7, <1>8, <1>9, <1>10, <1>11, <1>12, <1>13, <1>14, <1>15 DEF Next

\* exfat_truncate() as its callers see it: a resize takes place as a whole, within
\* the capacity of the volume, or leaves every file as it was.
THEOREM ImplementsSpaceHolds ==
  ASSUME Faults = {}, IsFiniteSet(Files)
  PROVE  Spec => ImplementsSpace
<1>1. Init => Sp!Init
  BY DEF Init, Sp!Init
<1>2. ClustersInv => TotalFits
  BY InvTotal
<1>3. ClustersInv /\ TotalFits' /\ [Next]_vars => [Sp!Next]_Sizes
  <2> SUFFICES ASSUME ClustersInv, TotalFits', [Next]_vars, Sizes' # Sizes
               PROVE  Sp!Next
    OBVIOUS
  <2> DEFINE C == ClusterCount - Cardinality(Reserved)
  <2>1. /\ task.f \in Files /\ task' = NoTask
        /\ Sizes' = [Sizes EXCEPT ![task.f] = task.n] /\ Sizes'[task.f] = task.n
    BY SizeStep
  <2>2. NoCall'
    BY <2>1 DEF NoCall, NoTask
  <2>3. Sp!Total(Sizes') <= C /\ node'[task.f].size \in 0..C
    BY <2>1, <2>2 DEF TotalFits
  <2>4. task.n \in 0..C
    BY <2>1, <2>3 DEF Sizes
  <2>5. PICK f \in Files, n \in 0..C : f = task.f /\ n = task.n
    BY <2>1, <2>4
  <2>6. Sp!Resize(f, n)
    BY <2>1, <2>3, <2>5 DEF Sp!Resize, Sizes
  <2> QED
    BY <2>6 DEF Sp!Next
<1> QED
  BY <1>1, <1>2, <1>3, InvHolds, PTL DEF Spec, ImplementsSpace, Sp!Spec, Sizes

===============================================================================
