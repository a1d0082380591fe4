----------------------------- MODULE FuseProofs -----------------------------
(* Theorems about Fuse, for every number of names, nodes and clusters. *)
EXTENDS Fuse, TLAPS

-----------------------------------------------------------------------------
(* The invariant *)

\* A node in memory, with any number of references.
AnyNode == [live: {TRUE}, name: AllNames, linked: BOOLEAN, dir: BOOLEAN,
            clusters: SUBSET Clusters, stamp: 0..1, dirty: BOOLEAN, references: Nat]

Contents == [node: [Nodes -> AnyNode \cup {Freed}], map: SUBSET Clusters, mapdirty: BOOLEAN,
             entry: [AllNames -> Entry \cup {NoEntry}], bits: SUBSET Clusters, flag: BOOLEAN]

Live(s, n) == s.node[n].live

\* Every node in memory is in the tree, and no two have the same name.
Tree(s) ==
  /\ \A n \in Nodes : Live(s, n) => s.node[n].linked
  /\ \A m, n \in Nodes : Live(s, m) /\ Live(s, n) /\ s.node[m].name = s.node[n].name => m = n

\* What is clean is on the device, and the device has the names of the tree.
Saved(s) ==
  /\ \A n \in Nodes : Live(s, n) /\ ~s.node[n].dirty => s.entry[s.node[n].name] = Image(s.node[n])
  /\ ~s.mapdirty => s.bits = s.map
  /\ \A x \in AllNames : s.entry[x] # NoEntry <=> \E n \in Nodes : Live(s, n) /\ s.node[n].name = x

MemoryOK(s) == s \in Contents /\ Tree(s) /\ Saved(s)

\* No two files have a cluster, and every cluster of a file is marked.
Apart(s) ==
  /\ \A n \in Nodes : Live(s, n) => s.node[n].clusters \subseteq s.map
  /\ \A m, n \in Nodes : Live(s, m) /\ Live(s, n) /\ m # n =>
       s.node[m].clusters \cap s.node[n].clusters = {}

\* Every marked cluster is of a file.
Tight(s) == \A c \in s.map : \E n \in Nodes : Live(s, n) /\ c \in s.node[n].clusters

\* The mark has not been lost.
Fit == past \subseteq {"marked"}

\* Open files hold their nodes.
Held(s, o) ==
  \A n \in Nodes : /\ Live(s, n) => s.node[n].references = o[n]
                   /\ ~Live(s, n) => o[n] = 0

\* The volume is mounted: what memory and device have in common.
Mounted ==
  /\ MemoryOK(fs)
  /\ Fit => Apart(fs)
  /\ past = {} /\ faults = 0 => Tight(fs)

\* It is not: the device alone, whose objects have been in memory.
Unmounted ==
  /\ \A n \in Nodes : ~Live(fs, n)
  /\ ExistsInjection(Used(fs), Nodes)
  /\ FlagTellsTruth

FuseInv ==
  /\ fs \in Contents /\ opens \in [Nodes -> Nat] /\ faults \in Nat
  /\ state \in {"up", "down"} /\ aborted \in BOOLEAN
  /\ Held(fs, opens)
  /\ NeverAborts
  /\ state = "up" => Mounted
  /\ state = "down" => Unmounted

\* t is s after a change that leaves all nodes where they are.
Keeps(s, t) ==
  /\ MemoryOK(t) /\ (t.flag <=> s.flag)
  /\ \A n \in Nodes : /\ Live(t, n) <=> Live(s, n)
                      /\ Live(s, n) => t.node[n].references = s.node[n].references
  /\ Apart(s) => Apart(t)
  /\ Apart(s) /\ Tight(s) => Tight(t)

-----------------------------------------------------------------------------
(* Nodes and names *)

\* The fields of what the library keeps.
LEMMA ContentFields ==
  ASSUME NEW s \in Contents
  PROVE  /\ s.node \in [Nodes -> AnyNode \cup {Freed}] /\ s.map \in SUBSET Clusters
         /\ s.mapdirty \in BOOLEAN /\ s.entry \in [AllNames -> Entry \cup {NoEntry}]
         /\ s.bits \in SUBSET Clusters /\ s.flag \in BOOLEAN
BY DEF Contents

\* The fields of a node in memory.
LEMMA LiveFields ==
  ASSUME NEW s \in Contents, NEW n \in Nodes
  PROVE  /\ Live(s, n) \in BOOLEAN
         /\ Live(s, n) =>
              /\ s.node[n] \in AnyNode /\ s.node[n].name \in AllNames /\ s.node[n].linked \in BOOLEAN
              /\ s.node[n].dir \in BOOLEAN /\ s.node[n].clusters \subseteq Clusters
              /\ s.node[n].stamp \in 0..1 /\ s.node[n].dirty \in BOOLEAN
              /\ s.node[n].references \in Nat
              /\ Image(s.node[n]) \in Entry
         /\ ~Live(s, n) => s.node[n] = Freed
<1>1. s.node[n] \in AnyNode \cup {Freed}
  BY ContentFields
<1>2. CASE s.node[n] \in AnyNode
  <2>1. s.node[n].live = TRUE
    BY <1>2 DEF AnyNode
  <2> QED
    BY <1>2, <2>1 DEF AnyNode, Live, Image, Entry
<1>3. CASE s.node[n] = Freed
  <2>1. s.node[n].live = FALSE
    BY <1>3 DEF Freed
  <2> QED
    BY <1>3, <2>1 DEF Live
<1> QED
  BY <1>1, <1>2, <1>3

\* The nodes of the tree.
LEMMA LinkedLive ==
  ASSUME NEW s, MemoryOK(s)
  PROVE  \A n : n \in Linked(s) <=> n \in Nodes /\ Live(s, n)
BY DEF Linked, MemoryOK, Tree, Live

\* exfat_lookup().
LEMMA LookupIs ==
  ASSUME NEW s, MemoryOK(s), NEW x
  PROVE  /\ Lookup(s, x) # NoNode =>
              Lookup(s, x) \in Nodes /\ Live(s, Lookup(s, x)) /\ s.node[Lookup(s, x)].name = x
         /\ Lookup(s, x) = NoNode => \A n \in Nodes : ~(Live(s, n) /\ s.node[n].name = x)
         /\ \A n \in Nodes : Live(s, n) /\ s.node[n].name = x => Lookup(s, x) = n
<1>1. CASE \E n \in Linked(s) : s.node[n].name = x
  <2>1. Lookup(s, x) \in Linked(s) /\ s.node[Lookup(s, x)].name = x
    BY <1>1 DEF Lookup
  <2>2. NoNode \notin Nodes
    BY FuseAssumption
  <2> QED
    BY <2>1, <2>2, LinkedLive DEF MemoryOK, Tree
<1>2. CASE ~\E n \in Linked(s) : s.node[n].name = x
  <2>1. Lookup(s, x) = NoNode
    BY <1>2 DEF Lookup
  <2> QED
    BY <1>2, <2>1, LinkedLive
<1> QED
  BY <1>1, <1>2

\* A name without a node has no entry.
LEMMA LookupEntry ==
  ASSUME NEW s, MemoryOK(s), NEW x \in AllNames
  PROVE  s.entry[x] = NoEntry <=> Lookup(s, x) = NoNode
BY LookupIs DEF MemoryOK, Saved

\* Changes that leave the nodes where they are compose.
LEMMA KeepsTrans ==
  ASSUME NEW s, NEW t, NEW u, Keeps(s, t), Keeps(t, u)
  PROVE  Keeps(s, u)
BY DEF Keeps

\* Nothing changes.
LEMMA KeepsSame ==
  ASSUME NEW s, MemoryOK(s)
  PROVE  Keeps(s, s)
BY DEF Keeps

-----------------------------------------------------------------------------
(* The library *)

\* A node changes, with its clusters, and is dirty.
Changes(s, t, n) ==
  /\ Live(s, n) /\ Live(t, n)
  /\ \A m \in Nodes : m # n => t.node[m] = s.node[m]
  /\ t.node[n].linked /\ t.node[n].dirty /\ t.node[n].name = s.node[n].name
  /\ t.node[n].references = s.node[n].references
  /\ t.entry = s.entry /\ (t.flag <=> s.flag) /\ (~t.mapdirty => t.bits = t.map)
  /\ Apart(s) => /\ t.map = (s.map \ s.node[n].clusters) \cup t.node[n].clusters
                 /\ t.node[n].clusters \cap (s.map \ s.node[n].clusters) = {}

\* Such a change keeps what holds of memory and device.
LEMMA NodeChanged ==
  ASSUME NEW s, MemoryOK(s), NEW t \in Contents, NEW n \in Nodes, Changes(s, t, n)
  PROVE  Keeps(s, t)
<1>0. /\ Live(s, n) /\ Live(t, n)
      /\ \A m \in Nodes : m # n => t.node[m] = s.node[m]
      /\ t.node[n].linked /\ t.node[n].dirty /\ t.node[n].name = s.node[n].name
      /\ t.node[n].references = s.node[n].references
      /\ t.entry = s.entry /\ (t.flag <=> s.flag) /\ (~t.mapdirty => t.bits = t.map)
      /\ Apart(s) => /\ t.map = (s.map \ s.node[n].clusters) \cup t.node[n].clusters
                     /\ t.node[n].clusters \cap (s.map \ s.node[n].clusters) = {}
  BY DEF Changes
<1>1. s \in Contents /\ Tree(s) /\ Saved(s)
  BY DEF MemoryOK
<1>2. \A m \in Nodes : /\ Live(t, m) <=> Live(s, m)
                       /\ t.node[m].name = s.node[m].name
                       /\ Live(s, m) => t.node[m].references = s.node[m].references
  BY <1>0 DEF Live
<1>3. Tree(t)
  BY <1>0, <1>1, <1>2 DEF Tree
<1>4. Saved(t)
  BY <1>0, <1>1, <1>2 DEF Saved
<1>5. ASSUME Apart(s) PROVE Apart(t)
  <2>1. \A m \in Nodes : Live(t, m) => t.node[m].clusters \subseteq t.map
    <3> SUFFICES ASSUME NEW m \in Nodes, Live(t, m), NEW c \in t.node[m].clusters PROVE c \in t.map
      OBVIOUS
    <3>1. CASE m = n
      BY <1>0, <1>5, <3>1
    <3>2. CASE m # n
      <4>1. c \in s.node[m].clusters /\ Live(s, m)
        BY <1>0, <1>2, <3>2
      <4>2. c \in s.map /\ c \notin s.node[n].clusters
        BY <1>0, <1>5, <3>2, <4>1 DEF Apart
      <4> QED
        BY <1>0, <1>5, <4>2
    <3> QED
      BY <3>1, <3>2
  <2>2. \A m \in Nodes : Live(s, m) /\ m # n => t.node[m].clusters \cap t.node[n].clusters = {}
    <3> SUFFICES ASSUME NEW m \in Nodes, Live(s, m), m # n, NEW c \in t.node[m].clusters
                 PROVE  c \notin t.node[n].clusters
      OBVIOUS
    <3>1. c \in s.node[m].clusters
      BY <1>0
    <3>2. c \in s.map /\ c \notin s.node[n].clusters
      BY <1>0, <1>5, <3>1 DEF Apart
    <3> QED
      BY <1>0, <1>5, <3>2
  <2>3. \A m, k \in Nodes : Live(t, m) /\ Live(t, k) /\ m # k =>
          t.node[m].clusters \cap t.node[k].clusters = {}
    <3> SUFFICES ASSUME NEW m \in Nodes, NEW k \in Nodes, Live(t, m), Live(t, k), m # k
                 PROVE  t.node[m].clusters \cap t.node[k].clusters = {}
      OBVIOUS
    <3>1. CASE m = n \/ k = n
      BY <1>0, <1>2, <2>2, <3>1
    <3>2. CASE m # n /\ k # n
      BY <1>0, <1>2, <1>5, <3>2 DEF Apart
    <3> QED
      BY <3>1, <3>2
  <2> QED
    BY <2>1, <2>3 DEF Apart
<1>6. ASSUME Apart(s), Tight(s) PROVE Tight(t)
  <2> SUFFICES ASSUME NEW c \in t.map
               PROVE  \E m \in Nodes : Live(t, m) /\ c \in t.node[m].clusters
    BY DEF Tight
  <2>1. CASE c \in t.node[n].clusters
    BY <1>0, <2>1
  <2>2. CASE c \notin t.node[n].clusters
    <3>1. c \in s.map /\ c \notin s.node[n].clusters
      BY <1>0, <1>6, <2>2
    <3>2. PICK m \in Nodes : Live(s, m) /\ c \in s.node[m].clusters
      BY <1>6, <3>1 DEF Tight
    <3> QED
      BY <1>0, <1>2, <3>1, <3>2
  <2> QED
    BY <2>1, <2>2
<1> QED
  BY <1>0, <1>2, <1>3, <1>4, <1>5, <1>6 DEF Keeps, MemoryOK

\* exfat_update_mtime() and its like.
LEMMA TouchedKeeps ==
  ASSUME NEW s, MemoryOK(s), NEW n \in Nodes, Live(s, n)
  PROVE  /\ Keeps(s, Touched(s, n))
         /\ \A m \in Nodes : Touched(s, n).node[m].name = s.node[m].name
<1> DEFINE o == [s.node[n] EXCEPT !.stamp = 1 - s.node[n].stamp, !.dirty = TRUE]
           t == Touched(s, n)
<1>1. s \in Contents
  BY DEF MemoryOK
<1>2. s.node[n] \in AnyNode /\ s.node[n].stamp \in 0..1
  BY <1>1, LiveFields
<1>3. 1 - s.node[n].stamp \in 0..1
  BY <1>2
<1>4. /\ o \in AnyNode /\ o.live = TRUE /\ o.linked = s.node[n].linked /\ o.dirty = TRUE
      /\ o.name = s.node[n].name /\ o.references = s.node[n].references
      /\ o.clusters = s.node[n].clusters
  BY <1>2, <1>3 DEF AnyNode
<1>5. /\ t = [s EXCEPT !.node = [s.node EXCEPT ![n] = o]]
  BY <1>1, <1>2 DEF Touched, Contents, AnyNode
<1> HIDE DEF o, t
<1>6. /\ t \in Contents /\ t.node = [s.node EXCEPT ![n] = o] /\ t.entry = s.entry
      /\ t.map = s.map /\ t.bits = s.bits /\ (t.mapdirty <=> s.mapdirty) /\ (t.flag <=> s.flag)
  BY <1>1, <1>4, <1>5 DEF Contents
<1>7. t.node[n] = o /\ \A m \in Nodes : m # n => t.node[m] = s.node[m]
  BY <1>1, <1>6, ContentFields
<1>8. s.node[n].linked /\ (~s.mapdirty => s.bits = s.map)
  BY DEF MemoryOK, Tree, Saved
<1>9. Apart(s) => s.map = (s.map \ s.node[n].clusters) \cup s.node[n].clusters
  BY DEF Apart
<1>10. Keeps(s, t)
  <2>1. Live(t, n) /\ t.node[n].linked /\ t.node[n].dirty
    BY <1>4, <1>7, <1>8 DEF Live
  <2>2. Apart(s) => /\ t.map = (s.map \ s.node[n].clusters) \cup t.node[n].clusters
                    /\ t.node[n].clusters \cap (s.map \ s.node[n].clusters) = {}
    BY <1>4, <1>6, <1>7, <1>9
  <2>3. t.node[n].name = s.node[n].name /\ t.node[n].references = s.node[n].references
    BY <1>4, <1>7
  <2>4. Changes(s, t, n)
    BY <1>6, <1>7, <1>8, <2>1, <2>2, <2>3 DEF Changes
  <2> QED
    BY <1>6, <2>4, NodeChanged
<1> QED
  BY <1>4, <1>7, <1>10 DEF t

\* exfat_truncate(): clusters are taken from the free ones, or given back.
LEMMA ResizedKeeps ==
  ASSUME NEW s, MemoryOK(s), NEW n \in Nodes, Live(s, n), NEW k
  PROVE  /\ Keeps(s, Resized(s, n, k))
         /\ \A m \in Nodes : Resized(s, n, k).node[m].name = s.node[m].name
<1> DEFINE old == s.node[n].clusters
           size == Cardinality(old)
           new == IF k <= size THEN Lowest(old, k)
                  ELSE old \cup Lowest(Clusters \ s.map, k - size)
           map == (s.map \ old) \cup new
           r == [s EXCEPT !.node[n].clusters = new, !.map = map, !.mapdirty = TRUE]
           p == [s.node[n] EXCEPT !.clusters = new]
           o == [p EXCEPT !.stamp = 1 - p.stamp, !.dirty = TRUE]
           t == Touched(r, n)
<1>1. s \in Contents /\ s.node \in [Nodes -> AnyNode \cup {Freed}]
  BY ContentFields DEF MemoryOK
<1>2. s.node[n] \in AnyNode /\ s.node[n].stamp \in 0..1 /\ old \subseteq Clusters
  BY <1>1, LiveFields
<1>3. new \subseteq Clusters /\ new \cap (s.map \ old) = {}
  BY <1>2 DEF Lowest
<1>4. Resized(s, n, k) = IF k = size THEN s ELSE t
  BY DEF Resized
<1>5. map \in SUBSET Clusters
  BY <1>1, <1>3, ContentFields
<1> HIDE DEF new, map, size
<1>6. /\ p \in AnyNode /\ p.live = TRUE /\ p.linked = s.node[n].linked /\ p.name = s.node[n].name
      /\ p.references = s.node[n].references /\ p.clusters = new /\ p.stamp = s.node[n].stamp
  BY <1>2, <1>3 DEF AnyNode
<1>7. r = [s EXCEPT !.node = [s.node EXCEPT ![n] = p], !.map = map, !.mapdirty = TRUE]
  BY <1>1, <1>2 DEF Contents
<1> HIDE DEF p, r
<1>8. 1 - p.stamp \in 0..1
  BY <1>2, <1>6
<1>9. /\ o \in AnyNode /\ o.live = TRUE /\ o.linked = s.node[n].linked /\ o.dirty = TRUE
      /\ o.name = s.node[n].name /\ o.references = s.node[n].references /\ o.clusters = new
  BY <1>6, <1>8 DEF AnyNode
<1>10. /\ r \in Contents /\ r.node = [s.node EXCEPT ![n] = p] /\ r.entry = s.entry
       /\ r.map = map /\ r.mapdirty = TRUE /\ (r.flag <=> s.flag)
  BY <1>1, <1>5, <1>6, <1>7 DEF Contents
<1>11. r.node[n] = p /\ \A m \in Nodes : m # n => r.node[m] = s.node[m]
  BY <1>1, <1>10
<1>12. t = [r EXCEPT !.node = [r.node EXCEPT ![n] = o]]
  <2>1. r.node[n] \in AnyNode
    BY <1>6, <1>11
  <2>2. t = [r EXCEPT !.node = [r.node EXCEPT ![n] =
               [r.node[n] EXCEPT !.stamp = 1 - r.node[n].stamp, !.dirty = TRUE]]]
    BY <1>10, <2>1 DEF Touched, Contents, AnyNode
  <2> QED
    BY <1>11, <2>2
<1> HIDE DEF o, t
<1>13. /\ t \in Contents /\ t.node = [r.node EXCEPT ![n] = o] /\ t.entry = s.entry
       /\ t.map = map /\ t.mapdirty = TRUE /\ (t.flag <=> s.flag)
  BY <1>9, <1>10, <1>12 DEF Contents
<1>14. t.node[n] = o /\ \A m \in Nodes : m # n => t.node[m] = s.node[m]
  BY <1>10, <1>11, <1>13, ContentFields
<1>15. Changes(s, t, n)
  <2>1. Live(t, n) /\ t.node[n].linked /\ t.node[n].dirty
    BY <1>9, <1>14 DEF Live, MemoryOK, Tree
  <2>2. /\ t.map = (s.map \ s.node[n].clusters) \cup t.node[n].clusters
        /\ t.node[n].clusters \cap (s.map \ s.node[n].clusters) = {}
    BY <1>3, <1>9, <1>13, <1>14 DEF map
  <2>3. t.node[n].name = s.node[n].name /\ t.node[n].references = s.node[n].references
    BY <1>9, <1>14
  <2> QED
    BY <1>13, <1>14, <2>1, <2>2, <2>3 DEF Changes
<1>16. Keeps(s, t)
  BY <1>13, <1>15, NodeChanged
<1>17. \A m \in Nodes : t.node[m].name = s.node[m].name
  BY <1>9, <1>14
<1> QED
  BY <1>4, <1>16, <1>17, KeepsSame

\* What a flush leaves: the same nodes, of which some have become clean, and
\* their entries written.
Flushes(s, t, D) ==
  /\ \A n \in Nodes : t.node[n] = IF n \in D THEN [s.node[n] EXCEPT !.dirty = FALSE] ELSE s.node[n]
  /\ \A n \in D : t.entry[s.node[n].name] = Image(s.node[n])
  /\ \A x \in AllNames : (\A n \in D : s.node[n].name # x) => t.entry[x] = s.entry[x]
  /\ t.map = s.map /\ (t.flag <=> s.flag) /\ (~t.mapdirty => t.bits = t.map)

\* Such a flush keeps what holds of memory and device.
LEMMA FlushKeeps ==
  ASSUME NEW s, MemoryOK(s), NEW t \in Contents, NEW D \in SUBSET Nodes,
         \A n \in D : Live(s, n), Flushes(s, t, D)
  PROVE  /\ Keeps(s, t)
         /\ \A n \in Nodes : t.node[n].name = s.node[n].name
         /\ \A n \in D : ~t.node[n].dirty
         /\ \A n \in Nodes \ D : t.node[n].dirty <=> s.node[n].dirty
<1>0. /\ \A n \in Nodes : t.node[n] = IF n \in D THEN [s.node[n] EXCEPT !.dirty = FALSE] ELSE s.node[n]
      /\ \A n \in D : t.entry[s.node[n].name] = Image(s.node[n])
      /\ \A x \in AllNames : (\A n \in D : s.node[n].name # x) => t.entry[x] = s.entry[x]
      /\ t.map = s.map /\ (t.flag <=> s.flag) /\ (~t.mapdirty => t.bits = t.map)
  BY DEF Flushes
<1>1. s \in Contents /\ Tree(s) /\ Saved(s)
  BY DEF MemoryOK
<1>2. ASSUME NEW n \in D
      PROVE  /\ Live(t, n) /\ t.node[n].linked = s.node[n].linked /\ t.node[n].name = s.node[n].name
             /\ t.node[n].dirty = FALSE /\ t.node[n].references = s.node[n].references
             /\ t.node[n].clusters = s.node[n].clusters /\ Image(t.node[n]) = Image(s.node[n])
  <2>1. s.node[n] \in AnyNode /\ n \in Nodes /\ Live(s, n)
    BY <1>1, LiveFields
  <2>2. t.node[n] = [s.node[n] EXCEPT !.dirty = FALSE]
    BY <1>0, <2>1
  <2> QED
    BY <2>1, <2>2 DEF AnyNode, Live, Image
<1>3. \A n \in Nodes \ D : t.node[n] = s.node[n]
  BY <1>0
<1>4. \A n \in Nodes :
        /\ Live(t, n) <=> Live(s, n)
        /\ t.node[n].name = s.node[n].name
        /\ t.node[n].linked <=> s.node[n].linked
        /\ t.node[n].references = s.node[n].references
        /\ t.node[n].clusters = s.node[n].clusters
        /\ Image(t.node[n]) = Image(s.node[n])
  BY <1>2, <1>3 DEF Live
<1>5. \A n \in D : ~t.node[n].dirty
  BY <1>2
<1>6. \A n \in Nodes \ D : t.node[n].dirty <=> s.node[n].dirty
  BY <1>3
<1>7. Tree(t)
  BY <1>1, <1>4 DEF Tree
<1>8. Saved(t)
  <2>1. ASSUME NEW n \in Nodes, Live(t, n), ~t.node[n].dirty
        PROVE  t.entry[t.node[n].name] = Image(t.node[n])
    <3>1. CASE n \in D
      BY <1>0, <1>4, <3>1
    <3>2. CASE n \notin D
      <4>1. Live(s, n) /\ ~s.node[n].dirty /\ s.node[n].name \in AllNames
        BY <1>1, <1>4, <1>6, <2>1, <3>2, LiveFields
      <4>2. \A m \in D : s.node[m].name # s.node[n].name
        BY <1>1, <3>2, <4>1 DEF Tree
      <4>3. t.entry[s.node[n].name] = s.entry[s.node[n].name]
        BY <1>0, <4>1, <4>2
      <4> QED
        BY <1>1, <1>4, <4>1, <4>3 DEF Saved
    <3> QED
      BY <3>1, <3>2
  <2>2. ASSUME NEW x \in AllNames
        PROVE  t.entry[x] # NoEntry <=> \E n \in Nodes : Live(t, n) /\ t.node[n].name = x
    <3>1. CASE \E n \in D : s.node[n].name = x
      <4>1. PICK n \in D : s.node[n].name = x
        BY <3>1
      <4>2. t.entry[x] = Image(s.node[n]) /\ Image(s.node[n]) \in Entry /\ Live(t, n)
        BY <1>0, <1>1, <1>2, <4>1, LiveFields
      <4>3. t.entry[x] # NoEntry
        BY <4>2, EntryAssumption
      <4> QED
        BY <1>4, <4>1, <4>2, <4>3
    <3>2. CASE \A n \in D : s.node[n].name # x
      <4>1. t.entry[x] = s.entry[x]
        BY <1>0, <3>2
      <4>2. s.entry[x] # NoEntry <=> \E n \in Nodes : Live(s, n) /\ s.node[n].name = x
        BY <1>1 DEF Saved
      <4> QED
        BY <1>4, <4>1, <4>2
    <3> QED
      BY <3>1, <3>2
  <2> QED
    BY <1>0, <2>1, <2>2 DEF Saved
<1>9. Apart(s) => Apart(t)
  BY <1>0, <1>4 DEF Apart
<1>10. Tight(s) => Tight(t)
  BY <1>0, <1>4 DEF Tight
<1> QED
  BY <1>0, <1>4, <1>5, <1>6, <1>7, <1>8, <1>9, <1>10 DEF Keeps, MemoryOK

\* exfat_flush() of the bitmap.
LEMMA FlushMapFields ==
  ASSUME NEW s \in Contents, NEW f
  PROVE  /\ FlushMap(s, f) \in Contents /\ FlushMap(s, f).node = s.node
         /\ FlushMap(s, f).entry = s.entry /\ FlushMap(s, f).map = s.map
         /\ FlushMap(s, f).flag <=> s.flag
         /\ (~s.mapdirty => s.bits = s.map) =>
              (~FlushMap(s, f).mapdirty => FlushMap(s, f).bits = FlushMap(s, f).map)
         /\ f # "bitmap" => ~FlushMap(s, f).mapdirty
<1> DEFINE t == [s EXCEPT !.bits = s.map, !.mapdirty = FALSE]
<1>1. /\ t \in Contents /\ t.node = s.node /\ t.entry = s.entry /\ t.map = s.map
      /\ (t.flag <=> s.flag) /\ t.bits = s.map /\ t.mapdirty = FALSE
  BY DEF Contents
<1>2. FlushMap(s, f) = IF s.mapdirty /\ f # "bitmap" THEN t ELSE s
  BY DEF FlushMap
<1> HIDE DEF t
<1>3. CASE s.mapdirty /\ f # "bitmap"
  BY <1>1, <1>2, <1>3
<1>4. CASE ~(s.mapdirty /\ f # "bitmap")
  BY <1>2, <1>4
<1> QED
  BY <1>3, <1>4

\* exfat_flush().
LEMMA FlushMapKeeps ==
  ASSUME NEW s, MemoryOK(s), NEW f
  PROVE  /\ Keeps(s, FlushMap(s, f)) /\ FlushMap(s, f).node = s.node
         /\ f # "bitmap" => ~FlushMap(s, f).mapdirty
<1>1. s \in Contents /\ (~s.mapdirty => s.bits = s.map)
  BY DEF MemoryOK, Saved
<1>2. Flushes(s, FlushMap(s, f), {})
  BY <1>1, FlushMapFields DEF Flushes
<1>3. {} \in SUBSET Nodes /\ \A n \in {} : Live(s, n)
  OBVIOUS
<1> QED
  BY <1>1, <1>2, <1>3, FlushKeeps, FlushMapFields

\* exfat_flush_node().
LEMMA FlushNodeKeeps ==
  ASSUME NEW s, MemoryOK(s), NEW n \in Nodes, Live(s, n), NEW f
  PROVE  /\ Keeps(s, FlushNode(s, n, f))
         /\ \A m \in Nodes : FlushNode(s, n, f).node[m].name = s.node[m].name
<1> DEFINE o == [s.node[n] EXCEPT !.dirty = FALSE]
           x == s.node[n].name
           r == [s EXCEPT !.node[n].dirty = FALSE, !.entry[x] = Image(s.node[n])]
           t == FlushMap(r, f)
<1>1. s \in Contents /\ s.node \in [Nodes -> AnyNode \cup {Freed}]
      /\ s.entry \in [AllNames -> Entry \cup {NoEntry}]
      /\ (~s.mapdirty => s.bits = s.map)
  BY ContentFields DEF MemoryOK, Saved
<1>2. s.node[n] \in AnyNode /\ x \in AllNames /\ Image(s.node[n]) \in Entry
  BY <1>1, LiveFields
<1>3. o \in AnyNode
  BY <1>2 DEF AnyNode
<1>4. r = [s EXCEPT !.node = [s.node EXCEPT ![n] = o], !.entry = [s.entry EXCEPT ![x] = Image(s.node[n])]]
  BY <1>1, <1>2 DEF Contents, AnyNode
<1>5. FlushNode(s, n, f) = IF ~s.node[n].dirty \/ ~s.node[n].linked \/ f = "entry" THEN s ELSE t
  BY DEF FlushNode
<1> HIDE DEF r
<1>6. /\ r \in Contents /\ r.node = [s.node EXCEPT ![n] = o]
      /\ r.entry = [s.entry EXCEPT ![x] = Image(s.node[n])] /\ r.map = s.map /\ r.bits = s.bits
      /\ (r.mapdirty <=> s.mapdirty) /\ (r.flag <=> s.flag)
  BY <1>1, <1>2, <1>3, <1>4 DEF Contents
<1>7. /\ t \in Contents /\ t.node = r.node /\ t.entry = r.entry /\ t.map = s.map
      /\ (t.flag <=> s.flag) /\ (~t.mapdirty => t.bits = t.map)
  BY <1>1, <1>6, FlushMapFields
<1> HIDE DEF t
<1>8. Flushes(s, t, {n})
  <2>1. \A m \in Nodes : t.node[m] = IF m \in {n} THEN [s.node[m] EXCEPT !.dirty = FALSE] ELSE s.node[m]
    <3>1. t.node[n] = [s.node[n] EXCEPT !.dirty = FALSE]
      BY <1>1, <1>6, <1>7
    <3>2. \A m \in Nodes : m # n => t.node[m] = s.node[m]
      BY <1>1, <1>6, <1>7
    <3> QED
      BY <3>1, <3>2
  <2>2. \A m \in {n} : t.entry[s.node[m].name] = Image(s.node[m])
    BY <1>1, <1>2, <1>6, <1>7
  <2>3. \A y \in AllNames : (\A m \in {n} : s.node[m].name # y) => t.entry[y] = s.entry[y]
    BY <1>1, <1>6, <1>7
  <2> QED
    BY <1>7, <2>1, <2>2, <2>3 DEF Flushes
<1>9. {n} \in SUBSET Nodes /\ \A m \in {n} : Live(s, m)
  OBVIOUS
<1>10. Keeps(s, t) /\ \A m \in Nodes : t.node[m].name = s.node[m].name
  BY <1>7, <1>8, <1>9, FlushKeeps
<1> QED
  BY <1>5, <1>10, KeepsSame

\* exfat_flush_nodes().
LEMMA FlushNodesKeeps ==
  ASSUME NEW s, MemoryOK(s), NEW done \in SUBSET Nodes, NEW f
  PROVE  /\ Keeps(s, FlushNodes(s, done, f))
         /\ \A n \in Nodes : FlushNodes(s, done, f).node[n].name = s.node[n].name
         /\ \A n \in done : Live(s, n) => ~FlushNodes(s, done, f).node[n].dirty
<1> DEFINE dirty == {n \in Linked(s) \cap done : s.node[n].dirty}
           node == [n \in Nodes |-> IF n \in dirty THEN [s.node[n] EXCEPT !.dirty = FALSE]
                                    ELSE s.node[n]]
           entry == [x \in AllNames |->
             IF Lookup(s, x) \in dirty THEN Image(s.node[Lookup(s, x)]) ELSE s.entry[x]]
           r == [s EXCEPT !.node = node, !.entry = entry]
           t == FlushMap(r, f)
<1>1. s \in Contents /\ s.node \in [Nodes -> AnyNode \cup {Freed}]
      /\ s.entry \in [AllNames -> Entry \cup {NoEntry}]
      /\ (~s.mapdirty => s.bits = s.map)
  BY ContentFields DEF MemoryOK, Saved
<1>2. FlushNodes(s, done, f) = IF dirty = {} THEN s ELSE t
  BY DEF FlushNodes
<1>3. dirty \in SUBSET Nodes /\ \A n \in dirty : Live(s, n)
  BY LinkedLive
<1>4. \A n \in done : Live(s, n) /\ s.node[n].dirty => n \in dirty
  BY LinkedLive
<1> HIDE DEF dirty
<1>5. node \in [Nodes -> AnyNode \cup {Freed}]
  <2>1. \A n \in dirty : [s.node[n] EXCEPT !.dirty = FALSE] \in AnyNode
    <3> SUFFICES ASSUME NEW n \in dirty PROVE [s.node[n] EXCEPT !.dirty = FALSE] \in AnyNode
      OBVIOUS
    <3>1. s.node[n] \in AnyNode
      BY <1>1, <1>3, LiveFields
    <3> QED
      BY <3>1 DEF AnyNode
  <2> QED
    BY <1>1, <2>1
<1>6. entry \in [AllNames -> Entry \cup {NoEntry}]
  <2>1. \A n \in dirty : Image(s.node[n]) \in Entry
    BY <1>1, <1>3, LiveFields
  <2> QED
    BY <1>1, <2>1
<1>7. \A n \in Nodes : node[n] = IF n \in dirty THEN [s.node[n] EXCEPT !.dirty = FALSE] ELSE s.node[n]
  OBVIOUS
<1>8. \A x \in AllNames :
        entry[x] = IF Lookup(s, x) \in dirty THEN Image(s.node[Lookup(s, x)]) ELSE s.entry[x]
  OBVIOUS
<1> HIDE DEF node, entry
<1>9. /\ r \in Contents /\ r.node = node /\ r.entry = entry /\ r.map = s.map /\ r.bits = s.bits
      /\ (r.mapdirty <=> s.mapdirty) /\ (r.flag <=> s.flag)
  BY <1>1, <1>5, <1>6 DEF Contents
<1> HIDE DEF r
<1>10. /\ t \in Contents /\ t.node = node /\ t.entry = entry /\ t.map = s.map
       /\ (t.flag <=> s.flag) /\ (~t.mapdirty => t.bits = t.map)
  BY <1>1, <1>9, FlushMapFields
<1> HIDE DEF t
<1>11. \A n \in dirty : s.node[n].name \in AllNames /\ Lookup(s, s.node[n].name) = n
  BY <1>1, <1>3, LiveFields, LookupIs
<1>12. \A n \in dirty : t.entry[s.node[n].name] = Image(s.node[n])
  BY <1>8, <1>10, <1>11
<1>13. \A x \in AllNames : (\A n \in dirty : s.node[n].name # x) => t.entry[x] = s.entry[x]
  <2> SUFFICES ASSUME NEW x \in AllNames, \A n \in dirty : s.node[n].name # x
               PROVE  t.entry[x] = s.entry[x]
    OBVIOUS
  <2>1. Lookup(s, x) \notin dirty
    <3> SUFFICES ASSUME Lookup(s, x) \in dirty PROVE FALSE
      OBVIOUS
    <3>1. Lookup(s, x) # NoNode
      BY <1>3, FuseAssumption
    <3>2. s.node[Lookup(s, x)].name = x
      BY <3>1, LookupIs
    <3> QED
      BY <3>2
  <2> QED
    BY <1>8, <1>10, <2>1
<1>14. Flushes(s, t, dirty)
  BY <1>7, <1>10, <1>12, <1>13 DEF Flushes
<1>15. /\ Keeps(s, t)
       /\ \A n \in Nodes : t.node[n].name = s.node[n].name
       /\ \A n \in dirty : ~t.node[n].dirty
       /\ \A n \in Nodes \ dirty : t.node[n].dirty <=> s.node[n].dirty
  BY <1>3, <1>10, <1>14, FlushKeeps
<1>16. \A n \in done : Live(s, n) => ~t.node[n].dirty
  BY <1>4, <1>15
<1>17. dirty = {} => \A n \in done : Live(s, n) => ~s.node[n].dirty
  BY <1>4
<1> QED
  BY <1>2, <1>15, <1>16, <1>17, KeepsSame

\* rename_entry() to a name that is free.
LEMMA RenamedKeeps ==
  ASSUME NEW s, MemoryOK(s), NEW n \in Nodes, Live(s, n), NEW x \in AllNames,
         \A m \in Nodes : ~(Live(s, m) /\ s.node[m].name = x)
  PROVE  /\ Keeps(s, Renamed(s, n, x, "none"))
         /\ Renamed(s, n, x, "none").node[n].name = x
         /\ \A m \in Nodes : m # n => Renamed(s, n, x, "none").node[m] = s.node[m]
<1> DEFINE o == s.node[n].name
           p == [s.node[n] EXCEPT !.name = x]
           entry == [y \in AllNames |-> IF y = x THEN s.entry[o]
                                        ELSE IF y = o THEN NoEntry ELSE s.entry[y]]
           t == Renamed(s, n, x, "none")
<1>1. s \in Contents /\ s.node \in [Nodes -> AnyNode \cup {Freed}]
      /\ s.entry \in [AllNames -> Entry \cup {NoEntry}] /\ Tree(s) /\ Saved(s)
  BY ContentFields DEF MemoryOK
<1>2. s.node[n] \in AnyNode /\ o \in AllNames /\ o # x
  BY <1>1, LiveFields
<1>3. /\ p \in AnyNode /\ p.live = TRUE /\ p.linked = s.node[n].linked /\ p.name = x
      /\ p.references = s.node[n].references /\ p.clusters = s.node[n].clusters
      /\ p.dirty = s.node[n].dirty /\ Image(p) = Image(s.node[n])
  BY <1>2 DEF AnyNode, Image
<1>4. t = [s EXCEPT !.entry = entry, !.node[n].name = x]
  BY DEF Renamed
<1>5. entry \in [AllNames -> Entry \cup {NoEntry}]
  BY <1>1, <1>2
<1>6. entry[x] = s.entry[o] /\ entry[o] = NoEntry /\ \A y \in AllNames : y # x /\ y # o => entry[y] = s.entry[y]
  BY <1>2
<1> HIDE DEF entry, t
<1>7. t = [s EXCEPT !.entry = entry, !.node = [s.node EXCEPT ![n] = p]]
  BY <1>1, <1>2, <1>4 DEF Contents, AnyNode
<1> HIDE DEF p
<1>8. /\ t \in Contents /\ t.node = [s.node EXCEPT ![n] = p] /\ t.entry = entry
      /\ t.map = s.map /\ t.bits = s.bits /\ (t.mapdirty <=> s.mapdirty) /\ (t.flag <=> s.flag)
  BY <1>1, <1>3, <1>5, <1>7 DEF Contents
<1>9. t.node[n] = p /\ \A m \in Nodes : m # n => t.node[m] = s.node[m]
  BY <1>1, <1>8
<1>10. \A m \in Nodes :
         /\ Live(t, m) <=> Live(s, m)
         /\ t.node[m].linked <=> s.node[m].linked
         /\ t.node[m].dirty <=> s.node[m].dirty
         /\ t.node[m].references = s.node[m].references
         /\ t.node[m].clusters = s.node[m].clusters
         /\ t.node[m].name = IF m = n THEN x ELSE s.node[m].name
  BY <1>3, <1>9 DEF Live
<1>11. Tree(t)
  BY <1>1, <1>10 DEF Tree
<1>12. \A m \in Nodes : m # n /\ Live(s, m) => s.node[m].name # x /\ s.node[m].name # o
  BY <1>1 DEF Tree
<1>13. Saved(t)
  <2>1. ASSUME NEW m \in Nodes, Live(t, m), ~t.node[m].dirty
        PROVE  t.entry[t.node[m].name] = Image(t.node[m])
    <3>0. Live(s, m) /\ ~s.node[m].dirty /\ s.node[m].name \in AllNames
      BY <1>1, <1>10, <2>1, LiveFields
    <3>1. s.entry[s.node[m].name] = Image(s.node[m])
      BY <1>1, <3>0 DEF Saved
    <3>2. CASE m = n
      BY <1>3, <1>6, <1>8, <1>9, <3>1, <3>2
    <3>3. CASE m # n
      BY <1>6, <1>8, <1>9, <1>12, <3>0, <3>1, <3>3
    <3> QED
      BY <3>2, <3>3
  <2>2. ASSUME NEW y \in AllNames
        PROVE  t.entry[y] # NoEntry <=> \E m \in Nodes : Live(t, m) /\ t.node[m].name = y
    <3>0. /\ s.entry[y] # NoEntry <=> \E m \in Nodes : Live(s, m) /\ s.node[m].name = y
          /\ s.entry[o] # NoEntry
      BY <1>1, <1>2 DEF Saved
    <3>1. CASE y = x
      BY <1>6, <1>8, <1>10, <3>0, <3>1
    <3>2. CASE y = o
      <4>1. t.entry[y] = NoEntry
        BY <1>6, <1>8, <3>2
      <4>2. ~\E m \in Nodes : Live(t, m) /\ t.node[m].name = y
        BY <1>2, <1>10, <1>12, <3>2
      <4> QED
        BY <4>1, <4>2
    <3>3. CASE y # x /\ y # o
      <4>1. t.entry[y] = s.entry[y]
        BY <1>6, <1>8, <3>3
      <4>2. \A m \in Nodes : Live(t, m) /\ t.node[m].name = y <=> Live(s, m) /\ s.node[m].name = y
        BY <1>10, <3>3
      <4> QED
        BY <3>0, <4>1, <4>2
    <3> QED
      BY <3>1, <3>2, <3>3
  <2>3. ~t.mapdirty => t.bits = t.map
    BY <1>1, <1>8 DEF Saved
  <2> QED
    BY <2>1, <2>2, <2>3 DEF Saved
<1>14. Apart(s) => Apart(t)
  BY <1>8, <1>10 DEF Apart
<1>15. Tight(s) => Tight(t)
  BY <1>8, <1>10 DEF Tight
<1>16. Keeps(s, t)
  BY <1>8, <1>10, <1>11, <1>13, <1>14, <1>15 DEF Keeps, MemoryOK
<1> QED
  BY <1>9, <1>10, <1>16 DEF t

\* create(): a node that has not been in use gets a free name.
Grows(s, t, n, x) ==
  /\ MemoryOK(t) /\ (t.flag <=> s.flag)
  /\ Live(t, n) /\ t.node[n].name = x /\ t.node[n].references = 0 /\ t.node[n].clusters = {}
  /\ \A m \in Nodes : m # n => t.node[m] = s.node[m]
  /\ Apart(s) => Apart(t)
  /\ Tight(s) => Tight(t)

\* create() and commit_entry() do that.
LEMMA CreatedGrows ==
  ASSUME NEW s, MemoryOK(s), NEW n \in Nodes, ~Live(s, n), NEW x \in AllNames, NEW dir \in BOOLEAN,
         \A m \in Nodes : ~(Live(s, m) /\ s.node[m].name = x)
  PROVE  Grows(s, Created(s, n, x, dir), n, x)
<1> DEFINE e == [dir |-> dir, clusters |-> {}, stamp |-> 0]
           o == [live |-> TRUE, name |-> x, linked |-> TRUE, dir |-> dir,
                 clusters |-> {}, stamp |-> 0, dirty |-> FALSE, references |-> 0]
           t == Created(s, n, x, dir)
<1>1. s \in Contents /\ s.node \in [Nodes -> AnyNode \cup {Freed}]
      /\ s.entry \in [AllNames -> Entry \cup {NoEntry}] /\ Tree(s) /\ Saved(s)
  BY ContentFields DEF MemoryOK
<1>2. /\ o \in AnyNode /\ o.live = TRUE /\ o.linked = TRUE /\ o.name = x /\ o.references = 0
      /\ o.clusters = {} /\ o.dirty = FALSE /\ Image(o) = e /\ e \in Entry
  BY DEF AnyNode, Image, Entry
<1>3. t = [s EXCEPT !.entry = [s.entry EXCEPT ![x] = e], !.node = [s.node EXCEPT ![n] = o]]
  BY <1>1 DEF Created, Contents
<1>4. e # NoEntry
  BY <1>2, EntryAssumption
<1> HIDE DEF t, o, e
<1>5. /\ t \in Contents /\ t.node = [s.node EXCEPT ![n] = o] /\ t.entry = [s.entry EXCEPT ![x] = e]
      /\ t.map = s.map /\ t.bits = s.bits /\ (t.mapdirty <=> s.mapdirty) /\ (t.flag <=> s.flag)
  BY <1>1, <1>2, <1>3 DEF Contents
<1>6. t.node[n] = o /\ \A m \in Nodes : m # n => t.node[m] = s.node[m]
  BY <1>1, <1>5
<1>7. t.entry[x] = e /\ \A y \in AllNames : y # x => t.entry[y] = s.entry[y]
  BY <1>1, <1>5
<1>8. Live(t, n) /\ \A m \in Nodes : m # n => (Live(t, m) <=> Live(s, m))
  BY <1>2, <1>6 DEF Live
<1>9. Tree(t)
  BY <1>1, <1>2, <1>6, <1>8 DEF Tree
<1>10. Saved(t)
  <2>1. ASSUME NEW m \in Nodes, Live(t, m), ~t.node[m].dirty
        PROVE  t.entry[t.node[m].name] = Image(t.node[m])
    <3>1. CASE m = n
      BY <1>2, <1>6, <1>7, <3>1
    <3>2. CASE m # n
      <4>1. t.node[m] = s.node[m] /\ Live(s, m) /\ s.node[m].name \in AllNames
        BY <1>1, <1>6, <1>8, <2>1, <3>2, LiveFields
      <4>2. s.entry[s.node[m].name] = Image(s.node[m])
        BY <1>1, <2>1, <4>1 DEF Saved
      <4> QED
        BY <1>7, <4>1, <4>2
    <3> QED
      BY <3>1, <3>2
  <2>2. ASSUME NEW y \in AllNames
        PROVE  t.entry[y] # NoEntry <=> \E m \in Nodes : Live(t, m) /\ t.node[m].name = y
    <3>1. CASE y = x
      BY <1>2, <1>4, <1>6, <1>7, <1>8, <3>1
    <3>2. CASE y # x
      <4>1. s.entry[y] # NoEntry <=> \E m \in Nodes : Live(s, m) /\ s.node[m].name = y
        BY <1>1 DEF Saved
      <4>2. \A m \in Nodes : Live(t, m) /\ t.node[m].name = y <=> Live(s, m) /\ s.node[m].name = y
        BY <1>2, <1>6, <1>8, <3>2
      <4> QED
        BY <1>7, <3>2, <4>1, <4>2
    <3> QED
      BY <3>1, <3>2
  <2>3. ~t.mapdirty => t.bits = t.map
    BY <1>1, <1>5 DEF Saved
  <2> QED
    BY <2>1, <2>2, <2>3 DEF Saved
<1>11. ASSUME Apart(s) PROVE Apart(t)
  <2>1. \A m \in Nodes : Live(t, m) => m = n \/ (Live(s, m) /\ t.node[m].clusters = s.node[m].clusters)
    BY <1>6, <1>8
  <2> QED
    BY <1>2, <1>5, <1>6, <1>11, <2>1 DEF Apart
<1>12. ASSUME Tight(s) PROVE Tight(t)
  <2>1. \A m \in Nodes : Live(s, m) => Live(t, m) /\ t.node[m].clusters = s.node[m].clusters
    BY <1>6, <1>8
  <2> QED
    BY <1>5, <1>12, <2>1 DEF Tight
<1> QED
  BY <1>2, <1>5, <1>6, <1>8, <1>9, <1>10, <1>11, <1>12 DEF Grows, MemoryOK, t

\* A node leaves the tree and memory, its entries the device; clusters that it
\* had may stay marked.
Drops(s, t, n) ==
  /\ t.node[n] = Freed /\ \A m \in Nodes : m # n => t.node[m] = s.node[m]
  /\ t.entry[s.node[n].name] = NoEntry
  /\ \A y \in AllNames : y # s.node[n].name => t.entry[y] = s.entry[y]
  /\ s.map \ s.node[n].clusters \subseteq t.map /\ t.map \subseteq s.map
  /\ (t.flag <=> s.flag) /\ (~t.mapdirty => t.bits = t.map)

\* The rest is kept.
LEMMA DropsKeeps ==
  ASSUME NEW s, MemoryOK(s), NEW t \in Contents, NEW n \in Nodes, Live(s, n), Drops(s, t, n)
  PROVE  /\ MemoryOK(t) /\ ~Live(t, n)
         /\ Apart(s) => Apart(t)
         /\ Apart(s) /\ Tight(s) /\ t.map \cap s.node[n].clusters = {} => Tight(t)
<1>0. /\ t.node[n] = Freed /\ \A m \in Nodes : m # n => t.node[m] = s.node[m]
      /\ t.entry[s.node[n].name] = NoEntry
      /\ \A y \in AllNames : y # s.node[n].name => t.entry[y] = s.entry[y]
      /\ s.map \ s.node[n].clusters \subseteq t.map /\ t.map \subseteq s.map
      /\ (t.flag <=> s.flag) /\ (~t.mapdirty => t.bits = t.map)
  BY DEF Drops
<1>1. s \in Contents /\ Tree(s) /\ Saved(s)
  BY DEF MemoryOK
<1>2. s.node[n].name \in AllNames
  BY <1>1, LiveFields
<1>3. ~Live(t, n) /\ \A m \in Nodes : m # n => (Live(t, m) <=> Live(s, m))
  BY <1>0 DEF Live, Freed
<1>4. Tree(t)
  BY <1>0, <1>1, <1>3 DEF Tree
<1>5. \A m \in Nodes : Live(t, m) => m # n /\ Live(s, m) /\ t.node[m] = s.node[m]
                                    /\ s.node[m].name # s.node[n].name /\ s.node[m].name \in AllNames
  BY <1>0, <1>1, <1>3, LiveFields DEF Tree
<1>6. Saved(t)
  <2>1. \A m \in Nodes : Live(t, m) /\ ~t.node[m].dirty => t.entry[t.node[m].name] = Image(t.node[m])
    BY <1>0, <1>1, <1>5 DEF Saved
  <2>2. ASSUME NEW y \in AllNames
        PROVE  t.entry[y] # NoEntry <=> \E m \in Nodes : Live(t, m) /\ t.node[m].name = y
    <3>1. CASE y = s.node[n].name
      BY <1>0, <1>5, <3>1
    <3>2. CASE y # s.node[n].name
      <4>1. s.entry[y] # NoEntry <=> \E m \in Nodes : Live(s, m) /\ s.node[m].name = y
        BY <1>1 DEF Saved
      <4>2. \A m \in Nodes : Live(t, m) /\ t.node[m].name = y <=> Live(s, m) /\ s.node[m].name = y
        BY <1>0, <1>3, <1>5, <3>2
      <4> QED
        BY <1>0, <3>2, <4>1, <4>2
    <3> QED
      BY <3>1, <3>2
  <2> QED
    BY <1>0, <2>1, <2>2 DEF Saved
<1>7. ASSUME Apart(s) PROVE Apart(t)
  <2>1. ASSUME NEW m \in Nodes, Live(t, m), NEW c \in t.node[m].clusters PROVE c \in t.map
    <3>1. m # n /\ Live(s, m) /\ c \in s.node[m].clusters
      BY <1>5, <2>1
    <3>2. c \in s.map /\ c \notin s.node[n].clusters
      BY <1>7, <3>1 DEF Apart
    <3> QED
      BY <1>0, <3>2
  <2>2. \A m, k \in Nodes : Live(t, m) /\ Live(t, k) /\ m # k =>
          t.node[m].clusters \cap t.node[k].clusters = {}
    BY <1>5, <1>7 DEF Apart
  <2> QED
    BY <2>1, <2>2 DEF Apart
<1>8. ASSUME Tight(s), t.map \cap s.node[n].clusters = {} PROVE Tight(t)
  <2> SUFFICES ASSUME NEW c \in t.map
               PROVE  \E m \in Nodes : Live(t, m) /\ c \in t.node[m].clusters
    BY DEF Tight
  <2>1. c \in s.map /\ c \notin s.node[n].clusters
    BY <1>0, <1>8
  <2>2. PICK m \in Nodes : Live(s, m) /\ c \in s.node[m].clusters
    BY <1>8, <2>1 DEF Tight
  <2>3. m # n
    BY <2>1, <2>2
  <2> QED
    BY <1>0, <1>3, <2>2, <2>3
<1> QED
  BY <1>3, <1>4, <1>6, <1>7, <1>8 DEF MemoryOK

\* delete(): the fields.
LEMMA DeletedFields ==
  ASSUME NEW s, MemoryOK(s), NEW n \in Nodes, Live(s, n)
  PROVE  /\ Deleted(s, n) \in Contents
         /\ Deleted(s, n).node[n].clusters = s.node[n].clusters
         /\ \A m \in Nodes : m # n => Deleted(s, n).node[m] = s.node[m]
         /\ Deleted(s, n).entry[s.node[n].name] = NoEntry
         /\ \A y \in AllNames : y # s.node[n].name => Deleted(s, n).entry[y] = s.entry[y]
         /\ Deleted(s, n).map = s.map /\ Deleted(s, n).bits = s.bits
         /\ (Deleted(s, n).mapdirty <=> s.mapdirty) /\ (Deleted(s, n).flag <=> s.flag)
<1> DEFINE o == [s.node[n] EXCEPT !.linked = FALSE]
           x == s.node[n].name
           t == Deleted(s, n)
<1>1. s \in Contents /\ s.node \in [Nodes -> AnyNode \cup {Freed}]
      /\ s.entry \in [AllNames -> Entry \cup {NoEntry}]
  BY ContentFields DEF MemoryOK
<1>2. s.node[n] \in AnyNode /\ x \in AllNames
  BY <1>1, LiveFields
<1>3. o \in AnyNode /\ o.clusters = s.node[n].clusters
  BY <1>2 DEF AnyNode
<1>4. t = [s EXCEPT !.entry = [s.entry EXCEPT ![x] = NoEntry], !.node = [s.node EXCEPT ![n] = o]]
  BY <1>1, <1>2 DEF Deleted, Contents, AnyNode
<1> HIDE DEF t, o
<1>5. /\ t \in Contents /\ t.node = [s.node EXCEPT ![n] = o] /\ t.entry = [s.entry EXCEPT ![x] = NoEntry]
      /\ t.map = s.map /\ t.bits = s.bits /\ (t.mapdirty <=> s.mapdirty) /\ (t.flag <=> s.flag)
  BY <1>1, <1>2, <1>3, <1>4 DEF Contents
<1>6. t.node[n] = o /\ \A m \in Nodes : m # n => t.node[m] = s.node[m]
  BY <1>1, <1>5
<1>7. t.entry[x] = NoEntry /\ \A y \in AllNames : y # x => t.entry[y] = s.entry[y]
  BY <1>1, <1>2, <1>5
<1> QED
  BY <1>3, <1>5, <1>6, <1>7 DEF t

\* delete(), and exfat_cleanup_node() of the node.
LEMMA RemovedDrops ==
  ASSUME NEW s, MemoryOK(s), NEW n \in Nodes, Live(s, n)
  PROVE  /\ Cleaned(Deleted(s, n), n) \in Contents
         /\ Drops(s, Cleaned(Deleted(s, n), n), n)
         /\ Cleaned(Deleted(s, n), n).map \cap s.node[n].clusters = {}
<1> DEFINE r == Deleted(s, n)
           t == Cleaned(r, n)
<1>1. /\ r \in Contents
      /\ r.node[n].clusters = s.node[n].clusters
      /\ \A m \in Nodes : m # n => r.node[m] = s.node[m]
      /\ r.entry[s.node[n].name] = NoEntry
      /\ \A y \in AllNames : y # s.node[n].name => r.entry[y] = s.entry[y]
      /\ r.map = s.map /\ r.bits = s.bits
      /\ (r.mapdirty <=> s.mapdirty) /\ (r.flag <=> s.flag)
  BY DeletedFields
<1> HIDE DEF r
<1>2. r.node \in [Nodes -> AnyNode \cup {Freed}] /\ r.map \subseteq Clusters
  BY <1>1, ContentFields
<1>3. t = [r EXCEPT !.map = r.map \ r.node[n].clusters,
                    !.mapdirty = r.mapdirty \/ r.node[n].clusters # {},
                    !.node = [r.node EXCEPT ![n] = Freed]]
  BY <1>1 DEF Cleaned, Contents
<1> HIDE DEF t
<1>4. /\ t \in Contents /\ t.node = [r.node EXCEPT ![n] = Freed] /\ t.entry = r.entry
      /\ t.map = r.map \ r.node[n].clusters /\ t.bits = r.bits
      /\ (t.mapdirty <=> r.mapdirty \/ r.node[n].clusters # {}) /\ (t.flag <=> r.flag)
  BY <1>1, <1>2, <1>3 DEF Contents
<1>5. t.node[n] = Freed /\ \A m \in Nodes : m # n => t.node[m] = r.node[m]
  BY <1>2, <1>4
<1>6. ~t.mapdirty => t.bits = t.map
  BY <1>1, <1>4 DEF MemoryOK, Saved
<1>7. Drops(s, t, n)
  BY <1>1, <1>4, <1>5, <1>6 DEF Drops
<1> QED
  BY <1>1, <1>4, <1>7 DEF t, r

\* A directory that cannot be completed: delete() and nothing else.
LEMMA GivenUpDrops ==
  ASSUME NEW s, MemoryOK(s), NEW n \in Nodes, Live(s, n)
  PROVE  /\ [Deleted(s, n) EXCEPT !.node[n] = Freed] \in Contents
         /\ Drops(s, [Deleted(s, n) EXCEPT !.node[n] = Freed], n)
         /\ [Deleted(s, n) EXCEPT !.node[n] = Freed].map = s.map
<1> DEFINE r == Deleted(s, n)
           t == [r EXCEPT !.node[n] = Freed]
<1>1. /\ r \in Contents
      /\ \A m \in Nodes : m # n => r.node[m] = s.node[m]
      /\ r.entry[s.node[n].name] = NoEntry
      /\ \A y \in AllNames : y # s.node[n].name => r.entry[y] = s.entry[y]
      /\ r.map = s.map /\ r.bits = s.bits
      /\ (r.mapdirty <=> s.mapdirty) /\ (r.flag <=> s.flag)
  BY DeletedFields
<1> HIDE DEF r
<1>2. r.node \in [Nodes -> AnyNode \cup {Freed}]
  BY <1>1, ContentFields
<1>3. /\ t \in Contents /\ t.node = [r.node EXCEPT ![n] = Freed] /\ t.entry = r.entry
      /\ t.map = r.map /\ t.bits = r.bits
      /\ (t.mapdirty <=> r.mapdirty) /\ (t.flag <=> r.flag)
  BY <1>1, <1>2 DEF Contents
<1> HIDE DEF t
<1>4. t.node[n] = Freed /\ \A m \in Nodes : m # n => t.node[m] = r.node[m]
  BY <1>2, <1>3
<1>5. ~t.mapdirty => t.bits = t.map
  BY <1>1, <1>3 DEF MemoryOK, Saved
<1>6. Drops(s, t, n)
  BY <1>1, <1>3, <1>4, <1>5 DEF Drops
<1> QED
  BY <1>1, <1>3, <1>6 DEF t, r

\* exfat_get_node() and exfat_put_node().
LEMMA ReferencedKeeps ==
  ASSUME NEW s, MemoryOK(s), NEW n \in Nodes, Live(s, n), NEW k \in Int,
         s.node[n].references + k \in Nat
  PROVE  /\ MemoryOK(Referenced(s, n, k)) /\ (Referenced(s, n, k).flag <=> s.flag)
         /\ \A m \in Nodes :
              /\ Live(Referenced(s, n, k), m) <=> Live(s, m)
              /\ m # n => Referenced(s, n, k).node[m].references = s.node[m].references
         /\ Referenced(s, n, k).node[n].references = s.node[n].references + k
         /\ Apart(s) => Apart(Referenced(s, n, k))
         /\ Tight(s) => Tight(Referenced(s, n, k))
<1> DEFINE o == [s.node[n] EXCEPT !.references = s.node[n].references + k]
           t == Referenced(s, n, k)
<1>1. s \in Contents /\ s.node \in [Nodes -> AnyNode \cup {Freed}] /\ Tree(s) /\ Saved(s)
  BY ContentFields DEF MemoryOK
<1>2. s.node[n] \in AnyNode
  BY <1>1, LiveFields
<1>3. /\ o \in AnyNode /\ o.live = TRUE /\ o.linked = s.node[n].linked /\ o.name = s.node[n].name
      /\ o.references = s.node[n].references + k /\ o.clusters = s.node[n].clusters
      /\ o.dirty = s.node[n].dirty /\ Image(o) = Image(s.node[n])
  BY <1>2 DEF AnyNode, Image
<1>4. t = [s EXCEPT !.node = [s.node EXCEPT ![n] = o]]
  BY <1>1, <1>2 DEF Referenced, Contents, AnyNode
<1> HIDE DEF t, o
<1>5. /\ t \in Contents /\ t.node = [s.node EXCEPT ![n] = o] /\ t.entry = s.entry
      /\ t.map = s.map /\ t.bits = s.bits /\ (t.mapdirty <=> s.mapdirty) /\ (t.flag <=> s.flag)
  BY <1>1, <1>3, <1>4 DEF Contents
<1>6. t.node[n] = o /\ \A m \in Nodes : m # n => t.node[m] = s.node[m]
  BY <1>1, <1>5
<1>7. \A m \in Nodes :
        /\ Live(t, m) <=> Live(s, m)
        /\ t.node[m].linked <=> s.node[m].linked
        /\ t.node[m].dirty <=> s.node[m].dirty
        /\ t.node[m].clusters = s.node[m].clusters
        /\ t.node[m].name = s.node[m].name
        /\ Image(t.node[m]) = Image(s.node[m])
  BY <1>3, <1>6 DEF Live
<1>8. Tree(t)
  BY <1>1, <1>7 DEF Tree
<1>9. Saved(t)
  BY <1>1, <1>5, <1>7 DEF Saved
<1>10. Apart(s) => Apart(t)
  BY <1>5, <1>7 DEF Apart
<1>11. Tight(s) => Tight(t)
  BY <1>5, <1>7 DEF Tight
<1> QED
  BY <1>3, <1>5, <1>6, <1>7, <1>8, <1>9, <1>10, <1>11 DEF MemoryOK, t

-----------------------------------------------------------------------------
(* Requests *)

\* A mounted volume.
LEMMA UpFacts ==
  ASSUME FuseInv, state = "up"
  PROVE  /\ MemoryOK(fs) /\ fs.flag \in BOOLEAN /\ opens \in [Nodes -> Nat] /\ faults \in Nat
         /\ Held(fs, opens) /\ aborted \in BOOLEAN /\ fs \in Contents
         /\ \A n \in Nodes : opens[n] > 0 => Live(fs, n) /\ fs.node[n].references = opens[n]
<1>1. /\ MemoryOK(fs) /\ opens \in [Nodes -> Nat] /\ faults \in Nat
      /\ Held(fs, opens) /\ aborted \in BOOLEAN /\ fs \in Contents
  BY DEF FuseInv, Mounted
<1>2. fs.flag \in BOOLEAN
  BY <1>1, ContentFields
<1>3. \A n \in Nodes : opens[n] > 0 => Live(fs, n) /\ fs.node[n].references = opens[n]
  BY <1>1 DEF Held
<1> QED
  BY <1>1, <1>2, <1>3

\* A request ends.
LEMMA RequestEnds ==
  ASSUME FuseInv, state = "up", NEW t, NEW f, Done(t, f), opens' \in [Nodes -> Nat],
         MemoryOK(t), t.flag <=> fs.flag, Held(t, opens'),
         Apart(fs) => Apart(t),
         f = "none" /\ Apart(fs) /\ Tight(fs) => Tight(t)
  PROVE  FuseInv'
<1>1. /\ fs' = t /\ state' = "up" /\ past' = past /\ aborted' = aborted
      /\ faults' = faults + (IF f = "none" THEN 0 ELSE 1)
  BY DEF Done
<1>2. /\ faults \in Nat /\ aborted \in BOOLEAN /\ (Fit => Apart(fs))
      /\ (past = {} /\ faults = 0 => Tight(fs)) /\ (aborted => faults > 0)
  BY UpFacts DEF FuseInv, Mounted, NeverAborts
<1>3. faults' \in Nat /\ faults' >= faults /\ (faults' = 0 => f = "none" /\ faults = 0)
  <2>1. CASE f = "none"
    BY <1>1, <1>2, <2>1
  <2>2. CASE f # "none"
    BY <1>1, <1>2, <2>2
  <2> QED
    BY <2>1, <2>2
<1>4. NeverAborts'
  BY <1>1, <1>2, <1>3 DEF NeverAborts
<1>5. MemoryOK(fs') /\ Held(fs', opens')
  BY <1>1
<1>6. (Fit' => Apart(fs')) /\ (past' = {} /\ faults' = 0 => Tight(fs'))
  <2>1. (Fit' <=> Fit) /\ (past = {} => Fit)
    BY <1>1 DEF Fit
  <2> QED
    BY <1>1, <1>2, <1>3, <2>1
<1>7. Mounted'
  BY <1>5, <1>6 DEF Mounted
<1>8. fs' \in Contents
  BY <1>5 DEF MemoryOK
<1> QED
  BY <1>1, <1>2, <1>3, <1>4, <1>5, <1>7, <1>8 DEF FuseInv

\* A request that leaves the nodes where they are.
LEMMA KeepsEnds ==
  ASSUME FuseInv, state = "up", NEW t, NEW f, Done(t, f), opens' = opens, Keeps(fs, t)
  PROVE  FuseInv'
<1>1. opens \in [Nodes -> Nat] /\ Held(fs, opens)
  BY UpFacts
<1>2. Held(t, opens')
  BY <1>1 DEF Held, Keeps
<1>3. MemoryOK(t) /\ (t.flag <=> fs.flag) /\ (Apart(fs) => Apart(t))
      /\ (f = "none" /\ Apart(fs) /\ Tight(fs) => Tight(t))
  BY DEF Keeps
<1> QED
  BY <1>1, <1>2, <1>3, RequestEnds

\* fuse_exfat_open().
LEMMA OpenStep ==
  ASSUME FuseInv, NEW x, NEW trunc \in BOOLEAN, Open(x, trunc)
  PROVE  FuseInv'
<1> DEFINE n == Lookup(fs, x)
           s == Referenced(fs, n, 1)
           t == IF trunc THEN Resized(s, n, 0) ELSE s
<1>1. /\ state = "up" /\ n # NoNode /\ opens' = [opens EXCEPT ![n] = opens[n] + 1]
      /\ Done(t, "none")
  BY DEF Open
<1>2. /\ MemoryOK(fs) /\ opens \in [Nodes -> Nat] /\ Held(fs, opens) /\ fs \in Contents
  BY <1>1, UpFacts
<1>3. n \in Nodes /\ Live(fs, n)
  BY <1>1, <1>2, LookupIs
<1> HIDE DEF n
<1>4. fs.node[n].references + 1 \in Nat /\ 1 \in Int /\ fs.node[n].references = opens[n]
  BY <1>2, <1>3 DEF Held
<1>5. /\ MemoryOK(s) /\ (s.flag <=> fs.flag)
      /\ \A m \in Nodes : /\ Live(s, m) <=> Live(fs, m)
                          /\ m # n => s.node[m].references = fs.node[m].references
      /\ s.node[n].references = fs.node[n].references + 1
      /\ (Apart(fs) => Apart(s)) /\ (Tight(fs) => Tight(s))
  BY <1>2, <1>3, <1>4, ReferencedKeeps
<1> HIDE DEF s
<1>6. Keeps(s, t)
  BY <1>3, <1>5, ResizedKeeps, KeepsSame
<1> HIDE DEF t
<1>7. opens' \in [Nodes -> Nat] /\ opens'[n] = opens[n] + 1 /\ \A m \in Nodes : m # n => opens'[m] = opens[m]
  BY <1>1, <1>2, <1>3
<1>8. Held(s, opens')
  BY <1>2, <1>3, <1>4, <1>5, <1>7 DEF Held
<1>9. Held(t, opens')
  BY <1>6, <1>8 DEF Held, Keeps
<1>10. /\ MemoryOK(t) /\ (t.flag <=> fs.flag) /\ (Apart(fs) => Apart(t))
       /\ (Apart(fs) /\ Tight(fs) => Tight(t))
  BY <1>5, <1>6 DEF Keeps
<1> QED
  BY <1>1, <1>7, <1>9, <1>10, RequestEnds

\* Requests that make a node.
LEMMA SpareNode ==
  ASSUME FuseInv, state = "up", Spare(fs) # {}, NEW x \in AllNames, Lookup(fs, x) = NoNode,
         NEW dir \in BOOLEAN, NEW n, n = CHOOSE m \in Spare(fs) : TRUE
  PROVE  n \in Nodes /\ ~Live(fs, n) /\ opens[n] = 0 /\ Grows(fs, Created(fs, n, x, dir), n, x)
<1>1. MemoryOK(fs) /\ Held(fs, opens)
  BY UpFacts
<1>2. n \in Spare(fs)
  OBVIOUS
<1>3. n \in Nodes /\ ~Live(fs, n)
  BY <1>2 DEF Spare, Live
<1>4. \A m \in Nodes : ~(Live(fs, m) /\ fs.node[m].name = x)
  BY <1>1, LookupIs
<1> QED
  BY <1>1, <1>3, <1>4, CreatedGrows DEF Held

\* fuse_exfat_create().
LEMMA CreateStep ==
  ASSUME FuseInv, NEW x \in Names, Create(x)
  PROVE  FuseInv'
<1> DEFINE n == CHOOSE m \in Spare(fs) : TRUE
           s == Created(fs, n, x, FALSE)
           t == Referenced(s, n, 1)
<1>1. /\ state = "up" /\ Lookup(fs, x) = NoNode /\ Spare(fs) # {}
      /\ opens' = [opens EXCEPT ![n] = 1] /\ Done(t, "none")
  BY DEF Create
<1>2. x \in AllNames /\ FALSE \in BOOLEAN
  BY DEF AllNames
<1>3. n \in Nodes /\ ~Live(fs, n) /\ opens[n] = 0 /\ Grows(fs, s, n, x)
  BY <1>1, <1>2, SpareNode
<1> HIDE DEF n
<1>4. opens \in [Nodes -> Nat] /\ Held(fs, opens)
  BY <1>1, UpFacts
<1>5. /\ MemoryOK(s) /\ (s.flag <=> fs.flag) /\ Live(s, n) /\ s.node[n].references = 0
      /\ \A m \in Nodes : m # n => s.node[m] = fs.node[m]
      /\ (Apart(fs) => Apart(s)) /\ (Tight(fs) => Tight(s))
  BY <1>3 DEF Grows
<1> HIDE DEF s
<1>6. s.node[n].references + 1 \in Nat /\ 1 \in Int
  BY <1>5
<1>7. /\ MemoryOK(t) /\ (t.flag <=> s.flag)
      /\ \A m \in Nodes : /\ Live(t, m) <=> Live(s, m)
                          /\ m # n => t.node[m].references = s.node[m].references
      /\ t.node[n].references = s.node[n].references + 1
      /\ (Apart(s) => Apart(t)) /\ (Tight(s) => Tight(t))
  BY <1>3, <1>5, <1>6, ReferencedKeeps
<1> HIDE DEF t
<1>8. opens' \in [Nodes -> Nat] /\ opens'[n] = 1 /\ \A m \in Nodes : m # n => opens'[m] = opens[m]
  BY <1>1, <1>3, <1>4
<1>9. t.node[n].references = 1 /\ Live(t, n)
  BY <1>3, <1>5, <1>7
<1>10. \A m \in Nodes : m # n => (Live(t, m) <=> Live(fs, m)) /\ t.node[m].references = fs.node[m].references
  BY <1>5, <1>7 DEF Live
<1>11. Held(t, opens')
  BY <1>4, <1>8, <1>9, <1>10 DEF Held
<1> QED
  BY <1>1, <1>5, <1>7, <1>8, <1>11, RequestEnds

\* fuse_exfat_mknod().
LEMMA MknodStep ==
  ASSUME FuseInv, NEW x \in Names, Mknod(x)
  PROVE  FuseInv'
<1> DEFINE n == CHOOSE m \in Spare(fs) : TRUE
           s == Created(fs, n, x, FALSE)
<1>1. /\ state = "up" /\ Lookup(fs, x) = NoNode /\ Spare(fs) # {}
      /\ opens' = opens /\ Done(s, "none")
  BY DEF Mknod, Same
<1>2. x \in AllNames /\ FALSE \in BOOLEAN
  BY DEF AllNames
<1>3. n \in Nodes /\ ~Live(fs, n) /\ opens[n] = 0 /\ Grows(fs, s, n, x)
  BY <1>1, <1>2, SpareNode
<1> HIDE DEF n
<1>4. opens \in [Nodes -> Nat] /\ Held(fs, opens)
  BY <1>1, UpFacts
<1>5. /\ MemoryOK(s) /\ (s.flag <=> fs.flag) /\ Live(s, n) /\ s.node[n].references = 0
      /\ \A m \in Nodes : m # n => s.node[m] = fs.node[m]
      /\ (Apart(fs) => Apart(s)) /\ (Tight(fs) => Tight(s))
  BY <1>3 DEF Grows
<1> HIDE DEF s
<1>6. Held(s, opens')
  BY <1>1, <1>3, <1>4, <1>5 DEF Held, Live
<1> QED
  BY <1>1, <1>4, <1>5, <1>6, RequestEnds

\* fuse_exfat_mkdir().
LEMMA MkdirStep ==
  ASSUME FuseInv, NEW x \in Names, Mkdir(x)
  PROVE  FuseInv'
<1> DEFINE n == CHOOSE m \in Spare(fs) : TRUE
           s == Created(fs, n, x, TRUE)
           gone(t) == [Deleted(t, n) EXCEPT !.node[n] = Freed]
           full(f) == FlushNode(Resized(s, n, 1), n, f)
<1>1. /\ state = "up" /\ Lookup(fs, x) = NoNode /\ Spare(fs) # {} /\ opens' = opens
      /\ \/ Done(gone(s), "none")
         \/ \E f : Done(IF f = "none" THEN full(f) ELSE gone(full(f)), f)
  BY DEF Mkdir, Same
<1>2. x \in AllNames /\ TRUE \in BOOLEAN
  BY DEF AllNames
<1>3. n \in Nodes /\ ~Live(fs, n) /\ opens[n] = 0 /\ Grows(fs, s, n, x)
  BY <1>1, <1>2, SpareNode
<1> HIDE DEF n
<1>4. opens \in [Nodes -> Nat] /\ Held(fs, opens)
  BY <1>1, UpFacts
<1>5. /\ MemoryOK(s) /\ (s.flag <=> fs.flag) /\ Live(s, n) /\ s.node[n].references = 0
      /\ s.node[n].clusters = {}
      /\ \A m \in Nodes : m # n => s.node[m] = fs.node[m]
      /\ (Apart(fs) => Apart(s)) /\ (Tight(fs) => Tight(s))
  BY <1>3 DEF Grows
<1>6. Held(s, opens)
  BY <1>3, <1>4, <1>5 DEF Held, Live
<1> HIDE DEF s
<1>7. ASSUME NEW t, MemoryOK(t), Live(t, n), t.flag <=> fs.flag, Apart(fs) => Apart(t), Held(t, opens)
      PROVE  /\ MemoryOK(gone(t)) /\ Held(gone(t), opens) /\ (gone(t).flag <=> fs.flag)
             /\ Apart(fs) => Apart(gone(t))
             /\ t.node[n].clusters = {} /\ Apart(t) /\ Tight(t) => Tight(gone(t))
  <2> DEFINE u == gone(t)
  <2>1. u \in Contents /\ Drops(t, u, n)
    BY <1>3, <1>7, GivenUpDrops
  <2> HIDE DEF u
  <2>2. /\ MemoryOK(u) /\ ~Live(u, n) /\ (Apart(t) => Apart(u))
        /\ Apart(t) /\ Tight(t) /\ u.map \cap t.node[n].clusters = {} => Tight(u)
    BY <1>3, <1>7, <2>1, DropsKeeps
  <2>3. (u.flag <=> t.flag) /\ \A m \in Nodes : m # n => u.node[m] = t.node[m]
    BY <2>1 DEF Drops
  <2>4. Held(u, opens)
    BY <1>3, <1>7, <2>2, <2>3 DEF Held, Live
  <2>5. t.node[n].clusters = {} => u.map \cap t.node[n].clusters = {}
    OBVIOUS
  <2> QED
    BY <1>7, <2>2, <2>3, <2>4, <2>5 DEF u
<1>8. CASE Done(gone(s), "none")
  <2>1. /\ MemoryOK(gone(s)) /\ Held(gone(s), opens) /\ (gone(s).flag <=> fs.flag)
        /\ Apart(fs) => Apart(gone(s))
        /\ s.node[n].clusters = {} /\ Apart(s) /\ Tight(s) => Tight(gone(s))
    BY <1>5, <1>6, <1>7
  <2> HIDE DEF gone
  <2> QED
    BY <1>1, <1>4, <1>5, <1>8, <2>1, RequestEnds
<1>9. ASSUME NEW f, Done(IF f = "none" THEN full(f) ELSE gone(full(f)), f)
      PROVE  FuseInv'
  <2> DEFINE t == full(f)
  <2>1. Keeps(s, t)
    <3>1. Keeps(s, Resized(s, n, 1))
      BY <1>3, <1>5, ResizedKeeps
    <3>2. MemoryOK(Resized(s, n, 1)) /\ Live(Resized(s, n, 1), n)
      BY <1>3, <1>5, <3>1 DEF Keeps
    <3>3. Keeps(Resized(s, n, 1), FlushNode(Resized(s, n, 1), n, f))
      BY <1>3, <3>2, FlushNodeKeeps
    <3> QED
      BY <3>1, <3>3, KeepsTrans
  <2> HIDE DEF full
  <2>2. /\ MemoryOK(t) /\ Live(t, n) /\ (t.flag <=> fs.flag) /\ (Apart(fs) => Apart(t))
        /\ (Apart(fs) /\ Tight(fs) => Tight(t))
    BY <1>3, <1>5, <2>1 DEF Keeps
  <2>3. Held(t, opens)
    BY <1>6, <2>1 DEF Held, Keeps
  <2>4. CASE f = "none"
    BY <1>1, <1>4, <1>9, <2>2, <2>3, <2>4, RequestEnds
  <2>5. CASE f # "none"
    <3>1. /\ MemoryOK(gone(t)) /\ Held(gone(t), opens) /\ (gone(t).flag <=> fs.flag)
          /\ Apart(fs) => Apart(gone(t))
      BY <1>7, <2>2, <2>3
    <3>2. Done(gone(t), f)
      BY <1>9, <2>5
    <3> HIDE DEF gone, t
    <3> QED
      BY <1>1, <1>4, <2>5, <3>1, <3>2, RequestEnds
  <2> QED
    BY <2>4, <2>5
<1> QED
  BY <1>1, <1>8, <1>9

\* fuse_exfat_read(), fuse_exfat_write() and fuse_exfat_flush().
LEMMA FileSteps ==
  ASSUME FuseInv, NEW n \in Nodes, NEW k, Read(n) \/ Write(n, k) \/ Flush(n)
  PROVE  FuseInv'
<1>1. state = "up" /\ opens[n] > 0 /\ opens' = opens
  BY DEF Read, Write, Flush, Same
<1>2. MemoryOK(fs) /\ Live(fs, n)
  BY <1>1, UpFacts
<1>3. CASE Read(n)
  BY <1>1, <1>2, <1>3, TouchedKeeps, KeepsEnds DEF Read
<1>4. CASE Write(n, k)
  <2> DEFINE s == Resized(fs, n, k)
  <2>1. Done(Touched(s, n), "none")
    BY <1>4 DEF Write
  <2>2. Keeps(fs, s)
    BY <1>2, ResizedKeeps
  <2> HIDE DEF s
  <2>3. MemoryOK(s) /\ Live(s, n)
    BY <1>2, <2>2 DEF Keeps
  <2>4. Keeps(s, Touched(s, n))
    BY <2>3, TouchedKeeps
  <2> QED
    BY <1>1, <2>1, <2>2, <2>4, KeepsTrans, KeepsEnds
<1>5. CASE Flush(n)
  <2>1. PICK f : Done(FlushNode(fs, n, f), f)
    BY <1>5 DEF Flush
  <2> QED
    BY <1>1, <1>2, <2>1, FlushNodeKeeps, KeepsEnds
<1> QED
  BY <1>3, <1>4, <1>5

\* fuse_exfat_truncate() and fuse_exfat_utimens().
LEMMA NameSteps ==
  ASSUME FuseInv, NEW x, NEW k, Truncate(x, k) \/ Utimens(x)
  PROVE  FuseInv'
<1> DEFINE n == Lookup(fs, x)
<1>1. state = "up" /\ n # NoNode /\ opens' = opens
  BY DEF Truncate, Utimens, Same
<1>2. MemoryOK(fs) /\ Live(fs, n) /\ n \in Nodes
  BY <1>1, UpFacts, LookupIs
<1>3. PICK f, s : Done(FlushNode(s, n, f), f) /\ s \in {fs, Resized(fs, n, k), Touched(fs, n)}
  <2>1. CASE Truncate(x, k)
    <3>1. PICK f : Done(FlushNode(IF Refused(fs, n, k) THEN fs ELSE Resized(fs, n, k), n, f), f)
      BY <2>1 DEF Truncate
    <3> QED
      BY <3>1
  <2>2. CASE Utimens(x)
    BY <2>2 DEF Utimens
  <2> QED
    BY <2>1, <2>2
<1> HIDE DEF n
<1>4. Keeps(fs, s)
  BY <1>2, <1>3, KeepsSame, ResizedKeeps, TouchedKeeps
<1>5. MemoryOK(s) /\ Live(s, n)
  BY <1>2, <1>4 DEF Keeps
<1>6. Keeps(s, FlushNode(s, n, f))
  BY <1>2, <1>5, FlushNodeKeeps
<1> QED
  BY <1>1, <1>3, <1>4, <1>6, KeepsTrans, KeepsEnds

\* fuse_exfat_release().
LEMMA ReleaseStep ==
  ASSUME FuseInv, NEW n \in Nodes, Release(n)
  PROVE  FuseInv'
<1>1. /\ state = "up" /\ opens[n] > 0 /\ opens' = [opens EXCEPT ![n] = opens[n] - 1]
  BY DEF Release
<1>2. PICK f : Done(Referenced(FlushNode(fs, n, f), n, -1), f)
  BY DEF Release
<1> DEFINE s == FlushNode(fs, n, f)
           t == Referenced(s, n, -1)
<1>3. /\ MemoryOK(fs) /\ Live(fs, n) /\ fs.node[n].references = opens[n]
      /\ opens \in [Nodes -> Nat] /\ Held(fs, opens)
  BY <1>1, UpFacts
<1>4. Keeps(fs, s)
  BY <1>3, FlushNodeKeeps
<1>5. Done(t, f)
  BY <1>2
<1> HIDE DEF s
<1>6. MemoryOK(s) /\ Live(s, n) /\ s.node[n].references = opens[n]
  BY <1>3, <1>4 DEF Keeps
<1>7. -1 \in Int /\ s.node[n].references + (-1) \in Nat /\ opens[n] - 1 \in Nat
      /\ s.node[n].references + (-1) = opens[n] - 1
  BY <1>1, <1>3, <1>6
<1>8. /\ MemoryOK(t) /\ (t.flag <=> s.flag)
      /\ \A m \in Nodes : /\ Live(t, m) <=> Live(s, m)
                          /\ m # n => t.node[m].references = s.node[m].references
      /\ t.node[n].references = s.node[n].references + (-1)
      /\ (Apart(s) => Apart(t)) /\ (Tight(s) => Tight(t))
  BY <1>6, <1>7, ReferencedKeeps
<1> HIDE DEF t
<1>9. /\ opens' \in [Nodes -> Nat] /\ opens'[n] = opens[n] - 1
      /\ \A m \in Nodes : m # n => opens'[m] = opens[m]
  BY <1>1, <1>3, <1>7
<1>10. Held(s, opens)
  BY <1>3, <1>4 DEF Held, Keeps
<1>11. t.node[n].references = opens'[n] /\ Live(t, n)
  BY <1>6, <1>7, <1>8, <1>9
<1>12. Held(t, opens')
  BY <1>8, <1>9, <1>10, <1>11 DEF Held
<1>13. (t.flag <=> fs.flag) /\ (Apart(fs) => Apart(t)) /\ (Apart(fs) /\ Tight(fs) => Tight(t))
  BY <1>4, <1>8 DEF Keeps
<1> QED
  BY <1>1, <1>5, <1>8, <1>9, <1>12, <1>13, RequestEnds

\* exfat_flush_nodes() reaches nodes.
LEMMA ReachedNodes ==
  ASSUME NEW f, NEW done \in Reached(fs, f)
  PROVE  done \in SUBSET Nodes /\ (f \notin FlushWrites => done = Nodes)
BY DEF Reached, Linked

\* fuse_exfat_fsync().
LEMMA FsyncStep ==
  ASSUME FuseInv, Fsync
  PROVE  FuseInv'
<1>1. state = "up" /\ opens' = opens
  BY DEF Fsync, Same
<1>2. MemoryOK(fs)
  BY <1>1, UpFacts
<1>3. PICK f \in Failing(FlushWrites), done \in SUBSET Nodes :
        LET s == FlushNodes(fs, done, f) IN Done(IF f = "none" THEN FlushMap(s, f) ELSE s, f)
  BY ReachedNodes DEF Fsync
<1> DEFINE s == FlushNodes(fs, done, f)
<1>4. Keeps(fs, s) /\ Done(IF f = "none" THEN FlushMap(s, f) ELSE s, f)
  BY <1>2, <1>3, FlushNodesKeeps
<1> HIDE DEF s
<1>5. MemoryOK(s)
  BY <1>4 DEF Keeps
<1>6. Keeps(fs, FlushMap(s, f))
  BY <1>4, <1>5, FlushMapKeeps, KeepsTrans
<1> QED
  BY <1>1, <1>4, <1>6, KeepsEnds

\* exfat_unlink() or exfat_rmdir() of an object that is not open: the node is
\* freed, and its check for references finds none.
LEMMA RemovedIs ==
  ASSUME FuseInv, state = "up", NEW n \in Nodes, Live(fs, n), opens[n] = 0, NEW t,
         t = Cleaned(Deleted(fs, n), n)
  PROVE  /\ ~CleanupBug(fs, n)
         /\ MemoryOK(t) /\ (t.flag <=> fs.flag) /\ Held(t, opens) /\ ~Live(t, n)
         /\ \A m \in Nodes : m # n => t.node[m] = fs.node[m]
         /\ Apart(fs) => Apart(t)
         /\ Apart(fs) /\ Tight(fs) => Tight(t)
<1>1. MemoryOK(fs) /\ Held(fs, opens)
  BY UpFacts
<1>2. ~CleanupBug(fs, n)
  BY <1>1 DEF Held, CleanupBug
<1>3. t \in Contents /\ Drops(fs, t, n) /\ t.map \cap fs.node[n].clusters = {}
  BY <1>1, RemovedDrops
<1>4. /\ MemoryOK(t) /\ ~Live(t, n) /\ (Apart(fs) => Apart(t))
      /\ Apart(fs) /\ Tight(fs) => Tight(t)
  BY <1>1, <1>3, DropsKeeps
<1>5. (t.flag <=> fs.flag) /\ \A m \in Nodes : m # n => t.node[m] = fs.node[m]
  BY <1>3 DEF Drops
<1>6. Held(t, opens)
  BY <1>1, <1>4, <1>5 DEF Held, Live
<1> QED
  BY <1>2, <1>4, <1>5, <1>6

\* The end of fuse_exfat_unlink(), fuse_exfat_rmdir() and of a hidden file.
LEMMA RemoveStep ==
  ASSUME FuseInv, state = "up", NEW n \in Nodes, Live(fs, n), opens[n] = 0, Remove(n)
  PROVE  FuseInv'
<1> DEFINE t == Cleaned(Deleted(fs, n), n)
<1>1. /\ ~CleanupBug(fs, n)
      /\ MemoryOK(t) /\ (t.flag <=> fs.flag) /\ Held(t, opens)
      /\ Apart(fs) => Apart(t)
      /\ Apart(fs) /\ Tight(fs) => Tight(t)
  BY RemovedIs
<1>2. Done(t, "none") /\ opens' = opens
  BY <1>1 DEF Remove, Same
<1> HIDE DEF t
<1>3. opens' \in [Nodes -> Nat]
  BY <1>2, UpFacts
<1> QED
  BY <1>1, <1>2, <1>3, RequestEnds

\* FUSE hides an open object behind a name that is free.
LEMMA HiddenIs ==
  ASSUME FuseInv, state = "up", NEW n \in Nodes, Live(fs, n), opens[n] > 0,
         NEW h \in Hidden, Lookup(fs, h) = NoNode
  PROVE  /\ Keeps(fs, Hide(fs, n, h))
         /\ Hide(fs, n, h).node[n].name = h
         /\ \A m \in Nodes : m # n => Hide(fs, n, h).node[m] = fs.node[m]
<1>1. MemoryOK(fs) /\ h \in AllNames
  BY UpFacts DEF AllNames
<1>2. \A m \in Nodes : ~(Live(fs, m) /\ fs.node[m].name = h)
  BY <1>1, LookupIs
<1>3. Hide(fs, n, h) = Renamed(fs, n, h, "none")
  BY DEF Hide
<1> QED
  BY <1>1, <1>2, <1>3, RenamedKeeps

\* fuse_exfat_unlink() and fuse_exfat_rmdir().
LEMMA UnlinkStep ==
  ASSUME FuseInv, NEW x, NEW h \in Hidden, Unlink(x, h)
  PROVE  FuseInv'
<1> DEFINE n == Lookup(fs, x)
<1>1. state = "up" /\ n # NoNode
  BY DEF Unlink
<1>2. n \in Nodes /\ Live(fs, n) /\ opens \in [Nodes -> Nat]
  BY <1>1, UpFacts, LookupIs
<1>3. CASE opens[n] > 0
  <2>1. Lookup(fs, h) = NoNode /\ Done(Hide(fs, n, h), "none") /\ opens' = opens
    BY <1>3 DEF Unlink, Same
  <2> HIDE DEF n
  <2> QED
    BY <1>1, <1>2, <1>3, <2>1, HiddenIs, KeepsEnds
<1>4. CASE ~(opens[n] > 0)
  <2>1. Remove(n)
    BY <1>4 DEF Unlink
  <2> HIDE DEF n
  <2>2. opens[n] = 0
    BY <1>2, <1>4
  <2> QED
    BY <1>1, <1>2, <2>1, <2>2, RemoveStep
<1> QED
  BY <1>3, <1>4

\* The removal of a hidden file.
LEMMA ReapStep ==
  ASSUME FuseInv, NEW h, Reap(h)
  PROVE  FuseInv'
<1> DEFINE n == Lookup(fs, h)
<1>1. state = "up" /\ n # NoNode /\ opens[n] = 0 /\ Remove(n)
  BY DEF Reap
<1>2. n \in Nodes /\ Live(fs, n)
  BY <1>1, UpFacts, LookupIs
<1> HIDE DEF n
<1> QED
  BY <1>1, <1>2, RemoveStep

\* fuse_exfat_rename().
LEMMA RenameStep ==
  ASSUME FuseInv, Allow = {}, NEW o \in Names, NEW x \in Names, NEW h \in Hidden, Rename(o, x, h)
  PROVE  FuseInv'
<1> DEFINE n == Lookup(fs, o)
           e == Lookup(fs, x)
           s == IF e = NoNode THEN fs
                ELSE IF opens[e] > 0 THEN Hide(fs, e, h)
                ELSE Cleaned(Deleted(fs, e), e)
<1>1. /\ state = "up" /\ n # NoNode /\ o # x /\ Lookup(fs, h) = NoNode
      /\ IF e # NoNode /\ opens[e] = 0 /\ CleanupBug(fs, e) THEN Abort
         ELSE opens' = opens /\ \E f \in Failing(Allow \cap {"rename"}) : Done(Renamed(s, n, x, f), f)
  BY DEF Rename, Same
<1>2. MemoryOK(fs) /\ opens \in [Nodes -> Nat] /\ Held(fs, opens)
  BY <1>1, UpFacts
<1>3. /\ n \in Nodes /\ Live(fs, n) /\ fs.node[n].name = o
      /\ e # NoNode => e \in Nodes /\ Live(fs, e) /\ fs.node[e].name = x /\ e # n
      /\ e = NoNode => \A m \in Nodes : ~(Live(fs, m) /\ fs.node[m].name = x)
      /\ e # NoNode => \A m \in Nodes : Live(fs, m) /\ fs.node[m].name = x => m = e
  BY <1>1, <1>2, LookupIs
<1>4. x \in AllNames /\ x # h
  BY FuseAssumption DEF AllNames
<1> HIDE DEF n, e
<1>5. /\ MemoryOK(s) /\ (s.flag <=> fs.flag) /\ Held(s, opens) /\ Live(s, n)
      /\ \A m \in Nodes : ~(Live(s, m) /\ s.node[m].name = x)
      /\ Apart(fs) => Apart(s)
      /\ Apart(fs) /\ Tight(fs) => Tight(s)
      /\ ~(e # NoNode /\ opens[e] = 0 /\ CleanupBug(fs, e))
  <2>1. CASE e = NoNode
    BY <1>2, <1>3, <2>1
  <2>2. CASE e # NoNode /\ opens[e] > 0
    <3>1. s = Hide(fs, e, h) /\ opens[e] # 0
      BY <1>2, <1>3, <2>2
    <3>2. Keeps(fs, s) /\ s.node[e].name = h /\ \A m \in Nodes : m # e => s.node[m] = fs.node[m]
      BY <1>1, <1>3, <2>2, <3>1, HiddenIs
    <3> HIDE DEF s
    <3>3. Held(s, opens)
      BY <1>2, <3>2 DEF Held, Keeps
    <3>4. \A m \in Nodes : ~(Live(s, m) /\ s.node[m].name = x)
      BY <1>3, <1>4, <2>2, <3>2 DEF Live
    <3> QED
      BY <1>3, <3>1, <3>2, <3>3, <3>4 DEF Keeps
  <2>3. CASE e # NoNode /\ ~(opens[e] > 0)
    <3>1. s = Cleaned(Deleted(fs, e), e) /\ opens[e] = 0
      BY <1>2, <1>3, <2>3
    <3>2. /\ ~CleanupBug(fs, e)
          /\ MemoryOK(s) /\ (s.flag <=> fs.flag) /\ Held(s, opens) /\ ~Live(s, e)
          /\ \A m \in Nodes : m # e => s.node[m] = fs.node[m]
          /\ Apart(fs) => Apart(s)
          /\ Apart(fs) /\ Tight(fs) => Tight(s)
      BY <1>1, <1>3, <2>3, <3>1, RemovedIs
    <3> HIDE DEF s
    <3>3. \A m \in Nodes : ~(Live(s, m) /\ s.node[m].name = x)
      BY <1>3, <2>3, <3>2 DEF Live
    <3>4. Live(s, n)
      BY <1>3, <2>3, <3>2 DEF Live
    <3> QED
      BY <3>2, <3>3, <3>4
  <2> QED
    BY <2>1, <2>2, <2>3
<1>6. opens' = opens /\ Done(Renamed(s, n, x, "none"), "none")
  <2>1. PICK f \in Failing(Allow \cap {"rename"}) : Done(Renamed(s, n, x, f), f)
    BY <1>1, <1>5
  <2>2. f = "none"
    BY DEF Failing
  <2> QED
    BY <1>1, <1>5, <2>1, <2>2
<1> DEFINE t == Renamed(s, n, x, "none")
<1> HIDE DEF s
<1>7. Keeps(s, t)
  BY <1>3, <1>4, <1>5, RenamedKeeps
<1> HIDE DEF t
<1>8. Held(t, opens)
  BY <1>5, <1>7 DEF Held, Keeps
<1>9. /\ MemoryOK(t) /\ (t.flag <=> fs.flag) /\ (Apart(fs) => Apart(t))
      /\ (Apart(fs) /\ Tight(fs) => Tight(t))
  BY <1>5, <1>7 DEF Keeps
<1> QED
  BY <1>1, <1>2, <1>6, <1>8, <1>9, RequestEnds DEF t

-----------------------------------------------------------------------------
(* The life of the mount *)

\* What FlagTellsTruth says of a device.
DeviceOK(s, lost) ==
  Sound(s) /\ (~lost => s.bits = UNION {s.entry[x].clusters : x \in Used(s)})

\* A cluster may be lost.
Lossy == ~(faults = 0 /\ past = {})

\* FlagTellsTruth in those terms.
LEMMA FlagIs ==
  FlagTellsTruth <=> (state = "down" /\ ~fs.flag /\ Fit => DeviceOK(fs, Lossy))
BY DEF FlagTellsTruth, DeviceOK, Lossy, Fit

\* And after a step.
LEMMA NextFlagIs ==
  FlagTellsTruth' <=> (state' = "down" /\ ~fs'.flag /\ Fit' => DeviceOK(fs', Lossy'))
BY DEF FlagTellsTruth, DeviceOK, Sound, Unmarked, Used, Lossy, Fit

\* As many objects as there are nodes for are on the device.
LEMMA NamesFit ==
  ASSUME NEW s, MemoryOK(s)
  PROVE  ExistsInjection(Used(s), Nodes)
<1> DEFINE g == [x \in Used(s) |-> Lookup(s, x)]
<1>1. \A x \in Used(s) : Lookup(s, x) \in Nodes /\ s.node[Lookup(s, x)].name = x
  <2> SUFFICES ASSUME NEW x \in Used(s)
               PROVE  Lookup(s, x) \in Nodes /\ s.node[Lookup(s, x)].name = x
    OBVIOUS
  <2>1. Lookup(s, x) # NoNode
    BY LookupEntry DEF Used
  <2> QED
    BY <2>1, LookupIs
<1>2. g \in [Used(s) -> Nodes]
  BY <1>1
<1>3. \A x, y \in Used(s) : g[x] = g[y] => x = y
  <2> SUFFICES ASSUME NEW x \in Used(s), NEW y \in Used(s), Lookup(s, x) = Lookup(s, y)
               PROVE  x = y
    OBVIOUS
  <2> QED
    BY <1>1
<1> HIDE DEF g
<1>4. g \in Injection(Used(s), Nodes)
  BY <1>2, <1>3 DEF Injection, IsInjective
<1> QED
  BY <1>4 DEF ExistsInjection

\* What is flushed and consistent in memory is consistent on the device.
LEMMA FlushedDevice ==
  ASSUME NEW s, MemoryOK(s), \A n \in Nodes : Live(s, n) => ~s.node[n].dirty, s.bits = s.map,
         Apart(s), NEW lost \in BOOLEAN, ~lost => Tight(s)
  PROVE  DeviceOK(s, lost)
<1>1. ASSUME NEW x \in Used(s)
      PROVE  \E n \in Nodes : Live(s, n) /\ s.node[n].name = x /\ s.entry[x].clusters = s.node[n].clusters
  <2>1. PICK n \in Nodes : Live(s, n) /\ s.node[n].name = x
    BY DEF MemoryOK, Saved, Used
  <2>2. s.entry[x] = Image(s.node[n])
    BY <2>1 DEF MemoryOK, Saved
  <2> QED
    BY <2>1, <2>2 DEF Image
<1>2. ASSUME NEW n \in Nodes, Live(s, n)
      PROVE  s.node[n].name \in Used(s) /\ s.entry[s.node[n].name].clusters = s.node[n].clusters
  <2>1. s.node[n].name \in AllNames
    BY <1>2, LiveFields DEF MemoryOK
  <2>2. s.entry[s.node[n].name] = Image(s.node[n])
    BY <1>2 DEF MemoryOK, Saved
  <2>3. s.entry[s.node[n].name] # NoEntry
    BY <1>2, <2>1 DEF MemoryOK, Saved
  <2> QED
    BY <2>1, <2>2, <2>3 DEF Used, Image
<1>3. \A x \in Used(s) : s.entry[x].clusters \subseteq s.bits
  BY <1>1 DEF Apart
<1>4. Unmarked(s) = {}
  BY <1>3 DEF Unmarked, Used
<1>5. ASSUME NEW x \in Used(s), NEW y \in Used(s), x # y
      PROVE  s.entry[x].clusters \cap s.entry[y].clusters = {}
  <2>1. PICK m \in Nodes : Live(s, m) /\ s.node[m].name = x /\ s.entry[x].clusters = s.node[m].clusters
    BY <1>1
  <2>2. PICK n \in Nodes : Live(s, n) /\ s.node[n].name = y /\ s.entry[y].clusters = s.node[n].clusters
    BY <1>1
  <2>3. m # n
    BY <1>5, <2>1, <2>2
  <2> QED
    BY <2>1, <2>2, <2>3 DEF Apart
<1>6. ASSUME ~lost PROVE s.bits = UNION {s.entry[x].clusters : x \in Used(s)}
  <2>1. ASSUME NEW c \in s.bits PROVE \E x \in Used(s) : c \in s.entry[x].clusters
    <3>1. PICK n \in Nodes : Live(s, n) /\ c \in s.node[n].clusters
      BY <1>6, <2>1 DEF Tight
    <3> QED
      BY <1>2, <3>1
  <2> QED
    BY <1>3, <2>1
<1> QED
  BY <1>4, <1>5, <1>6 DEF DeviceOK, Sound

\* Only entries and bitmap count.
LEMMA SameDevice ==
  ASSUME NEW s, NEW t, t.entry = s.entry, t.bits = s.bits, NEW lost
  PROVE  Used(t) = Used(s) /\ (DeviceOK(s, lost) => DeviceOK(t, lost))
BY DEF DeviceOK, Sound, Used, Unmarked

\* The process is gone.
LEMMA GoneFields ==
  ASSUME NEW s \in Contents
  PROVE  /\ Gone(s) \in Contents /\ (\A n \in Nodes : ~Live(Gone(s), n))
         /\ Gone(s).entry = s.entry /\ Gone(s).bits = s.bits /\ (Gone(s).flag <=> s.flag)
<1> DEFINE node == [n \in Nodes |-> Freed]
<1>1. node \in [Nodes -> AnyNode \cup {Freed}]
  OBVIOUS
<1>2. \A n \in Nodes : ~node[n].live
  BY DEF Freed
<1>3. Gone(s) = [s EXCEPT !.node = node, !.map = {}, !.mapdirty = FALSE]
  BY DEF Gone
<1> HIDE DEF node
<1>4. /\ Gone(s) \in Contents /\ Gone(s).node = node
      /\ Gone(s).entry = s.entry /\ Gone(s).bits = s.bits /\ (Gone(s).flag <=> s.flag)
  BY <1>1, <1>3 DEF Contents
<1> QED
  BY <1>2, <1>4 DEF Live

\* The volume is no longer mounted.
LEMMA Down ==
  ASSUME FuseInv, state = "up", state' = "down", opens' = [n \in Nodes |-> 0],
         faults' \in Nat, aborted' \in BOOLEAN, NeverAborts',
         fs' \in Contents, \A n \in Nodes : ~Live(fs', n),
         NEW t, MemoryOK(t), fs'.entry = t.entry,
         ~fs'.flag /\ Fit' => DeviceOK(fs', Lossy')
  PROVE  FuseInv'
<1>1. ExistsInjection(Used(t), Nodes)
  BY NamesFit
<1>2. Used(fs') = Used(t)
  BY DEF Used
<1>3. FlagTellsTruth'
  BY NextFlagIs
<1>4. Unmounted'
  BY <1>1, <1>2, <1>3 DEF Unmounted
<1>5. opens' \in [Nodes -> Nat] /\ Held(fs', opens')
  BY DEF Held
<1> QED
  BY <1>4, <1>5 DEF FuseInv

\* A process that stops without the mark is remembered.
LEMMA StoppedMark ==
  ASSUME past' = Stopped(fs), Fit', fs.flag \in BOOLEAN
  PROVE  fs.flag = TRUE
<1>1. ASSUME ~fs.flag PROVE FALSE
  <2>1. "unmarked" \in past'
    BY <1>1 DEF Stopped
  <2> QED
    BY <2>1 DEF Fit
<1> QED
  BY <1>1

\* The process is killed.
LEMMA CrashStep ==
  ASSUME FuseInv, Crash
  PROVE  FuseInv'
<1>1. /\ state = "up" /\ state' = "down" /\ opens' = [n \in Nodes |-> 0]
      /\ past' = Stopped(fs) /\ aborted' = aborted /\ faults' = faults
  BY DEF Crash
<1>2. MemoryOK(fs) /\ fs \in Contents /\ fs.flag \in BOOLEAN /\ faults \in Nat /\ aborted \in BOOLEAN
  BY <1>1, UpFacts
<1>3. PICK s : s \in {fs} \cup {FlushNode(fs, n, "bitmap") : n \in Linked(fs)} /\ fs' = Gone(s)
  BY DEF Crash
<1>4. MemoryOK(s) /\ (s.flag <=> fs.flag)
  <2>1. CASE s = fs
    BY <1>2, <2>1
  <2>2. CASE s # fs
    <3>1. PICK n \in Linked(fs) : s = FlushNode(fs, n, "bitmap")
      BY <1>3, <2>2
    <3>2. n \in Nodes /\ Live(fs, n)
      BY <1>2, LinkedLive
    <3>3. Keeps(fs, s)
      BY <1>2, <3>1, <3>2, FlushNodeKeeps
    <3> QED
      BY <3>3 DEF Keeps
  <2> QED
    BY <2>1, <2>2
<1>5. /\ fs' \in Contents /\ (\A n \in Nodes : ~Live(fs', n))
      /\ fs'.entry = s.entry /\ (fs'.flag <=> s.flag)
  BY <1>3, <1>4, GoneFields DEF MemoryOK
<1>6. NeverAborts'
  BY <1>1 DEF FuseInv, NeverAborts
<1>7. Fit' => fs'.flag
  BY <1>1, <1>2, <1>4, <1>5, StoppedMark
<1> QED
  BY <1>1, <1>2, <1>4, <1>5, <1>6, <1>7, Down

\* fuse_exfat_destroy().
LEMMA DestroyStep ==
  ASSUME FuseInv, Destroy
  PROVE  FuseInv'
<1>1. state = "up" /\ state' = "down" /\ opens' = [n \in Nodes |-> 0]
  BY DEF Destroy
<1>2. PICK f \in Failing(FlushWrites \cup {"super"}), again \in BOOLEAN :
        \E done \in Reached(fs, f) :
          LET t == Unmounting(fs, f, done, again) IN
          /\ IF \E n \in Linked(t) : t.node[n].dirty
             THEN aborted' = TRUE /\ fs' = Gone(t) /\ past' = Stopped(fs)
             ELSE /\ fs' = [Gone(t) EXCEPT !.flag = @ /\ f = "super"]
                  /\ past' = past \cup (IF t.mapdirty THEN {"bitmap"} ELSE {})
                  /\ UNCHANGED aborted
          /\ faults' = faults + (IF f = "none" THEN 0 ELSE 1)
  BY DEF Destroy
<1>3. PICK done \in Reached(fs, f) :
        LET t == Unmounting(fs, f, done, again) IN
        /\ IF \E n \in Linked(t) : t.node[n].dirty
           THEN aborted' = TRUE /\ fs' = Gone(t) /\ past' = Stopped(fs)
           ELSE /\ fs' = [Gone(t) EXCEPT !.flag = @ /\ f = "super"]
                /\ past' = past \cup (IF t.mapdirty THEN {"bitmap"} ELSE {})
                /\ UNCHANGED aborted
        /\ faults' = faults + (IF f = "none" THEN 0 ELSE 1)
  BY <1>2
<1> DEFINE s == FlushNodes(fs, done, f)
           last == IF again THEN "none" ELSE f
           t == FlushMap(s, last)
<1>4. /\ (\E n \in Linked(t) : t.node[n].dirty) =>
            aborted' = TRUE /\ fs' = Gone(t) /\ past' = Stopped(fs)
      /\ ~(\E n \in Linked(t) : t.node[n].dirty) =>
            /\ aborted' = aborted /\ fs' = [Gone(t) EXCEPT !.flag = Gone(t).flag /\ f = "super"]
            /\ past' = past \cup (IF t.mapdirty THEN {"bitmap"} ELSE {})
      /\ faults' = faults + (IF f = "none" THEN 0 ELSE 1)
  BY <1>3 DEF Unmounting
<1>5. /\ MemoryOK(fs) /\ fs.flag \in BOOLEAN /\ faults \in Nat /\ aborted \in BOOLEAN
      /\ (Fit => Apart(fs)) /\ (past = {} /\ faults = 0 => Tight(fs)) /\ (aborted => faults > 0)
  BY <1>1, UpFacts DEF FuseInv, Mounted, NeverAborts
<1>6. done \in SUBSET Nodes /\ (f \notin FlushWrites => done = Nodes)
  BY ReachedNodes
<1>7. /\ Keeps(fs, s)
      /\ \A n \in done : Live(fs, n) => ~s.node[n].dirty
  BY <1>5, <1>6, FlushNodesKeeps
<1> HIDE DEF s, last
<1>8. MemoryOK(s)
  BY <1>7 DEF Keeps
<1>9. Keeps(s, t) /\ t.node = s.node
  BY <1>8, FlushMapKeeps
<1> HIDE DEF t
<1>10. Keeps(fs, t) /\ MemoryOK(t) /\ t \in Contents /\ (t.flag <=> fs.flag)
  BY <1>7, <1>9, KeepsTrans DEF Keeps, MemoryOK
<1>11. /\ Gone(t) \in Contents /\ (\A n \in Nodes : ~Live(Gone(t), n))
       /\ Gone(t).entry = t.entry /\ Gone(t).bits = t.bits /\ (Gone(t).flag <=> t.flag)
  BY <1>10, GoneFields
<1>12. faults' \in Nat /\ (f # "none" => faults' > 0) /\ faults' >= faults
  <2>1. CASE f = "none"
    BY <1>4, <1>5, <2>1
  <2>2. CASE f # "none"
    BY <1>4, <1>5, <2>2
  <2> QED
    BY <2>1, <2>2
<1>13. CASE \E n \in Linked(t) : t.node[n].dirty
  <2>1. aborted' = TRUE /\ fs' = Gone(t) /\ past' = Stopped(fs)
    BY <1>4, <1>13
  <2>2. PICK n \in Linked(t) : t.node[n].dirty
    BY <1>13
  <2>3. n \in Nodes /\ Live(fs, n) /\ s.node[n].dirty
    BY <1>9, <1>10, <2>2, LinkedLive DEF Keeps
  <2>4. f # "none"
    BY <1>6, <1>7, <2>3 DEF FlushWrites
  <2>5. NeverAborts' /\ aborted' \in BOOLEAN
    BY <1>12, <2>1, <2>4 DEF NeverAborts
  <2>6. Fit' => fs'.flag
    BY <1>5, <1>10, <1>11, <2>1, StoppedMark
  <2> QED
    BY <1>1, <1>10, <1>11, <1>12, <2>1, <2>5, <2>6, Down
<1>14. CASE ~(\E n \in Linked(t) : t.node[n].dirty)
  <2> DEFINE g == Gone(t)
  <2>1. /\ aborted' = aborted /\ fs' = [g EXCEPT !.flag = g.flag /\ f = "super"]
        /\ past' = past \cup (IF t.mapdirty THEN {"bitmap"} ELSE {})
    BY <1>4, <1>14
  <2> HIDE DEF g
  <2>2. /\ fs' \in Contents /\ fs'.node = g.node /\ fs'.entry = g.entry /\ fs'.bits = g.bits
    BY <1>11, <2>1 DEF Contents, g
  <2>3. (\A n \in Nodes : ~Live(fs', n)) /\ fs'.entry = t.entry /\ fs'.bits = t.bits
    BY <1>11, <2>2 DEF Live, g
  <2>4. \A n \in Nodes : Live(t, n) => ~t.node[n].dirty
    BY <1>10, <1>14, LinkedLive
  <2>5. ASSUME Fit' PROVE DeviceOK(fs', Lossy')
    <3>1. ~t.mapdirty /\ Fit /\ (past' = {} => past = {})
      BY <2>1, <2>5 DEF Fit
    <3>2. t.bits = t.map
      BY <1>10, <3>1 DEF MemoryOK, Saved
    <3>3. Apart(t) /\ (past = {} /\ faults = 0 => Tight(t))
      BY <1>5, <1>10, <3>1 DEF Keeps
    <3>4. (~Lossy' => Tight(t)) /\ Lossy' \in BOOLEAN
      BY <1>5, <1>12, <3>1, <3>3 DEF Lossy
    <3>5. DeviceOK(t, Lossy')
      BY <1>10, <2>4, <3>2, <3>3, <3>4, FlushedDevice
    <3> QED
      BY <2>3, <3>5, SameDevice
  <2>6. NeverAborts' /\ aborted' \in BOOLEAN
    BY <1>5, <1>12, <2>1 DEF NeverAborts
  <2> QED
    BY <1>1, <1>10, <1>12, <2>2, <2>3, <2>5, <2>6, Down
<1> QED
  BY <1>13, <1>14

\* What exfat_mount() passes over is remembered.
LEMMA TakenFacts ==
  ASSUME past' = Taken, fs.flag \in BOOLEAN
  PROVE  /\ Fit' => Fit /\ Sound(fs)
         /\ past' = {} => past = {} /\ fs.flag = FALSE
<1>1. ASSUME Fit' PROVE Fit /\ Sound(fs)
  <2>1. "unsound" \notin past' /\ past \subseteq past'
    BY <1>1 DEF Fit, Taken
  <2> QED
    BY <1>1, <2>1 DEF Fit, Taken
<1>2. ASSUME past' = {} PROVE past = {} /\ fs.flag = FALSE
  BY <1>2 DEF Taken
<1> QED
  BY <1>1, <1>2

\* fsck().
LEMMA FsckStep ==
  ASSUME FuseInv, Fsck
  PROVE  FuseInv'
<1>1. PICK f \in Failing({"super"}) :
        fs' = [fs EXCEPT !.flag = f = "super"] /\ faults' = faults + (IF f = "none" THEN 0 ELSE 1)
  BY DEF Fsck
<1>2. /\ state = "down" /\ past' = Taken
      /\ opens' = opens /\ state' = state /\ aborted' = aborted
  BY DEF Fsck
<1>3. /\ fs \in Contents /\ Unmounted /\ Held(fs, opens) /\ fs.flag \in BOOLEAN /\ faults \in Nat
      /\ NeverAborts
  BY <1>2, ContentFields DEF FuseInv
<1>4. /\ fs' \in Contents /\ fs'.node = fs.node /\ fs'.entry = fs.entry /\ fs'.bits = fs.bits
  BY <1>1, <1>3 DEF Contents
<1>5. faults' \in Nat /\ faults' >= faults
  BY <1>1, <1>3
<1>6. Used(fs') = Used(fs) /\ (DeviceOK(fs, Lossy') => DeviceOK(fs', Lossy'))
  BY <1>4, SameDevice
<1>7. Held(fs', opens') /\ \A n \in Nodes : ~Live(fs', n)
  BY <1>2, <1>3, <1>4 DEF Held, Unmounted, Live
<1>8. ASSUME Fit' PROVE DeviceOK(fs', Lossy')
  <2>1. Sound(fs) /\ Fit /\ (past' = {} => past = {} /\ fs.flag = FALSE)
    BY <1>2, <1>3, <1>8, TakenFacts
  <2>2. ~fs.flag => DeviceOK(fs, Lossy)
    BY <1>2, <1>3, <2>1, FlagIs DEF Unmounted
  <2>3. ~Lossy' => ~Lossy /\ ~fs.flag
    BY <1>3, <1>5, <2>1 DEF Lossy
  <2>4. DeviceOK(fs, Lossy')
    BY <2>1, <2>2, <2>3 DEF DeviceOK
  <2> QED
    BY <1>6, <2>4
<1>9. FlagTellsTruth'
  BY <1>8, NextFlagIs
<1>10. Unmounted'
  BY <1>3, <1>6, <1>7, <1>9 DEF Unmounted
<1>11. NeverAborts'
  BY <1>2, <1>3, <1>5 DEF NeverAborts
<1> QED
  BY <1>2, <1>4, <1>5, <1>7, <1>10, <1>11 DEF FuseInv

\* exfat_mount() and fuse_exfat_init().
LEMMA MountStep ==
  ASSUME FuseInv, Mount
  PROVE  FuseInv'
<1> DEFINE g == CHOOSE g \in Injection(Used(fs), Nodes) : TRUE
           of(n) == CHOOSE x \in DOMAIN g : g[x] = n
           load(n) == LET x == of(n)
                          e == fs.entry[x]
                      IN  [live |-> TRUE, name |-> x, linked |-> TRUE, dir |-> e.dir,
                           clusters |-> e.clusters, stamp |-> e.stamp,
                           dirty |-> FALSE, references |-> 0]
           node == [n \in Nodes |-> IF \A x \in DOMAIN g : g[x] # n THEN Freed ELSE load(n)]
<1>1. /\ state = "down" /\ state' = "up" /\ past' = Taken
      /\ opens' = opens /\ aborted' = aborted
  BY DEF Mount
<1>2. PICK f \in Failing({"super"}) :
        /\ fs' = [fs EXCEPT !.node = node, !.map = fs.bits, !.mapdirty = FALSE,
                            !.flag = fs.flag \/ f = "none"]
        /\ faults' = faults + (IF f = "none" THEN 0 ELSE 1)
  BY DEF Mount
<1>4. /\ fs \in Contents /\ Unmounted /\ Held(fs, opens) /\ fs.flag \in BOOLEAN
      /\ faults \in Nat /\ opens \in [Nodes -> Nat] /\ aborted \in BOOLEAN /\ NeverAborts
      /\ fs.entry \in [AllNames -> Entry \cup {NoEntry}] /\ fs.bits \subseteq Clusters
  BY <1>1, ContentFields DEF FuseInv
<1>3. faults' \in Nat /\ faults' >= faults
  BY <1>2, <1>4
<1>5. g \in Injection(Used(fs), Nodes)
  BY <1>4 DEF Unmounted, ExistsInjection
<1>6. g \in [Used(fs) -> Nodes] /\ \A x, y \in Used(fs) : g[x] = g[y] => x = y
  BY <1>5 DEF Injection, IsInjective
<1> HIDE DEF g
<1>7. \A n \in Nodes : (\E x \in Used(fs) : g[x] = n) => of(n) \in Used(fs) /\ g[of(n)] = n
  BY <1>6
<1>8. \A x \in Used(fs) : x \in AllNames /\ fs.entry[x] \in Entry
  BY <1>4 DEF Used
<1> DEFINE up(n) == \E x \in Used(fs) : g[x] = n
<1>9. ASSUME NEW n \in Nodes, up(n)
      PROVE  /\ node[n] = load(n) /\ node[n] \in AnyNode
             /\ node[n].live = TRUE /\ node[n].linked = TRUE /\ node[n].dirty = FALSE
             /\ node[n].name = of(n) /\ node[n].references = 0
             /\ node[n].clusters = fs.entry[of(n)].clusters
             /\ Image(node[n]) = fs.entry[of(n)]
  <2>1. node[n] = load(n)
    BY <1>6, <1>9
  <2>2. of(n) \in AllNames /\ fs.entry[of(n)] \in Entry
    BY <1>7, <1>8, <1>9
  <2> DEFINE x == of(n)
             e == fs.entry[x]
  <2> HIDE DEF x
  <2>3. /\ e.dir \in BOOLEAN /\ e.clusters \in SUBSET Clusters /\ e.stamp \in 0..1
        /\ e = [dir |-> e.dir, clusters |-> e.clusters, stamp |-> e.stamp]
    BY <2>2 DEF Entry, x
  <2>4. load(n) = [live |-> TRUE, name |-> x, linked |-> TRUE, dir |-> e.dir,
                   clusters |-> e.clusters, stamp |-> e.stamp,
                   dirty |-> FALSE, references |-> 0]
    BY DEF x
  <2>5. x \in AllNames
    BY <2>2 DEF x
  <2> HIDE DEF of, load, node, e
  <2>6. load(n) \in AnyNode
    BY <2>3, <2>4, <2>5 DEF AnyNode
  <2>7. Image(load(n)) = e
    BY <2>3, <2>4 DEF Image
  <2> QED
    BY <2>1, <2>4, <2>6, <2>7 DEF x, e
<1>10. \A n \in Nodes : ~up(n) => node[n] = Freed
  BY <1>6
<1> HIDE DEF of, load, node
<1>11. node \in [Nodes -> AnyNode \cup {Freed}]
  <2>1. \A n \in Nodes : node[n] \in AnyNode \cup {Freed}
    BY <1>9, <1>10
  <2> QED
    BY <2>1 DEF node
<1>12. /\ fs' \in Contents /\ fs'.node = node /\ fs'.map = fs.bits /\ fs'.mapdirty = FALSE
       /\ fs'.entry = fs.entry /\ fs'.bits = fs.bits
  BY <1>2, <1>4, <1>11 DEF Contents
<1>13. \A n \in Nodes : Live(fs', n) <=> up(n)
  <2> SUFFICES ASSUME NEW n \in Nodes PROVE Live(fs', n) <=> up(n)
    OBVIOUS
  <2> HIDE DEF up
  <2>1. CASE up(n)
    BY <1>9, <1>12, <2>1 DEF Live
  <2>2. CASE ~up(n)
    BY <1>10, <1>12, <2>2 DEF Live, Freed
  <2> QED
    BY <2>1, <2>2
<1>14. Tree(fs')
  <2>1. \A n \in Nodes : Live(fs', n) => fs'.node[n].linked
    BY <1>9, <1>12, <1>13
  <2>2. ASSUME NEW m \in Nodes, NEW n \in Nodes, Live(fs', m), Live(fs', n),
               fs'.node[m].name = fs'.node[n].name
        PROVE  m = n
    <3>1. up(m) /\ up(n)
      BY <1>13, <2>2
    <3>2. of(m) = of(n)
      <4>1. node[m].name = of(m)
        BY <1>9, <3>1
      <4>2. node[n].name = of(n)
        BY <1>9, <3>1
      <4> QED
        BY <1>12, <2>2, <4>1, <4>2
    <3> QED
      BY <1>7, <3>1, <3>2
  <2> QED
    BY <2>1, <2>2 DEF Tree
<1>15. \A x \in Used(fs) : g[x] \in Nodes /\ up(g[x]) /\ of(g[x]) = x
  BY <1>6, <1>7
<1>16. Saved(fs')
  <2>1. \A n \in Nodes : Live(fs', n) => fs'.entry[fs'.node[n].name] = Image(fs'.node[n])
    BY <1>9, <1>12, <1>13
  <2>2. ASSUME NEW x \in AllNames
        PROVE  fs'.entry[x] # NoEntry <=> \E n \in Nodes : Live(fs', n) /\ fs'.node[n].name = x
    <3>1. ASSUME fs'.entry[x] # NoEntry PROVE \E n \in Nodes : Live(fs', n) /\ fs'.node[n].name = x
      <4>1. x \in Used(fs)
        BY <1>12, <3>1 DEF Used
      <4>2. g[x] \in Nodes /\ up(g[x]) /\ of(g[x]) = x
        BY <1>15, <4>1
      <4>3. node[g[x]].name = x
        BY <1>9, <4>2
      <4>4. Live(fs', g[x])
        BY <1>13, <4>2
      <4> QED
        BY <1>12, <4>2, <4>3, <4>4
    <3>2. ASSUME NEW n \in Nodes, Live(fs', n), fs'.node[n].name = x PROVE fs'.entry[x] # NoEntry
      <4>1. x = of(n) /\ up(n)
        BY <1>9, <1>12, <1>13, <3>2
      <4> QED
        BY <1>7, <1>12, <4>1 DEF Used
    <3> QED
      BY <3>1, <3>2
  <2>3. ~fs'.mapdirty => fs'.bits = fs'.map
    BY <1>12
  <2> QED
    BY <2>1, <2>2, <2>3 DEF Saved
<1>17. ASSUME Fit' PROVE Apart(fs') /\ (past' = {} /\ faults' = 0 => Tight(fs'))
  <2>1. Sound(fs) /\ Fit /\ (past' = {} => past = {} /\ fs.flag = FALSE)
    BY <1>1, <1>4, <1>17, TakenFacts
  <2>2. \A x \in Used(fs) : fs.entry[x].clusters \subseteq fs.bits
    BY <2>1 DEF Sound, Unmarked
  <2>3. \A n \in Nodes : Live(fs', n) => /\ of(n) \in Used(fs) /\ g[of(n)] = n
                                          /\ fs'.node[n].clusters = fs.entry[of(n)].clusters
    BY <1>7, <1>9, <1>12, <1>13
  <2>4. Apart(fs')
    <3>1. \A n \in Nodes : Live(fs', n) => fs'.node[n].clusters \subseteq fs'.map
      BY <1>12, <2>2, <2>3
    <3>2. ASSUME NEW m \in Nodes, NEW n \in Nodes, Live(fs', m), Live(fs', n), m # n
          PROVE  fs'.node[m].clusters \cap fs'.node[n].clusters = {}
      <4>1. of(m) # of(n) /\ of(m) \in Used(fs) /\ of(n) \in Used(fs)
        BY <2>3, <3>2
      <4>2. fs.entry[of(m)].clusters \cap fs.entry[of(n)].clusters = {}
        BY <2>1, <4>1 DEF Sound
      <4> QED
        BY <2>3, <3>2, <4>2
    <3> QED
      BY <3>1, <3>2 DEF Apart
  <2>5. ASSUME past' = {}, faults' = 0 PROVE Tight(fs')
    <3> SUFFICES ASSUME NEW c \in fs'.map
                 PROVE  \E n \in Nodes : Live(fs', n) /\ c \in fs'.node[n].clusters
      BY DEF Tight
    <3>1. fs.bits = UNION {fs.entry[x].clusters : x \in Used(fs)}
      <4>1. DeviceOK(fs, Lossy) /\ ~Lossy
        <5>1. past = {} /\ faults = 0 /\ fs.flag = FALSE
          BY <1>3, <1>4, <2>1, <2>5
        <5> QED
          BY <1>1, <1>4, <2>1, <5>1, FlagIs DEF Unmounted, Lossy
      <4> QED
        BY <4>1 DEF DeviceOK
    <3>2. PICK x \in Used(fs) : c \in fs.entry[x].clusters
      BY <1>12, <3>1
    <3>3. g[x] \in Nodes /\ Live(fs', g[x]) /\ of(g[x]) = x
      BY <1>13, <1>15
    <3> QED
      BY <2>3, <3>2, <3>3
  <2> QED
    BY <2>4, <2>5
<1>18. past' = {} => Fit'
  BY DEF Fit
<1>19. Mounted'
  BY <1>12, <1>14, <1>16, <1>17, <1>18 DEF Mounted, MemoryOK
<1>20. Held(fs', opens')
  <2>1. \A n \in Nodes : opens[n] = 0
    BY <1>4 DEF Held, Unmounted
  <2>2. \A n \in Nodes : Live(fs', n) => fs'.node[n].references = 0
    BY <1>9, <1>12, <1>13
  <2> QED
    BY <1>1, <2>1, <2>2 DEF Held
<1>21. NeverAborts'
  BY <1>1, <1>3, <1>4 DEF NeverAborts
<1> QED
  BY <1>1, <1>3, <1>4, <1>12, <1>19, <1>20, <1>21 DEF FuseInv

-----------------------------------------------------------------------------
(* Theorems *)

\* The volume that mkexfatfs has made.
LEMMA FuseInit ==
  ASSUME Init
  PROVE  FuseInv
<1> DEFINE node == [n \in Nodes |-> Freed]
           entry == [x \in AllNames |-> NoEntry]
<1>1. /\ fs = [node |-> node, map |-> {}, mapdirty |-> FALSE, entry |-> entry, bits |-> {}, flag |-> FALSE]
      /\ opens = [n \in Nodes |-> 0]
      /\ state = "down" /\ past = {} /\ aborted = FALSE /\ faults = 0
  BY DEF Init
<1>2. node \in [Nodes -> AnyNode \cup {Freed}] /\ entry \in [AllNames -> Entry \cup {NoEntry}]
  OBVIOUS
<1>3. \A n \in Nodes : ~node[n].live
  BY DEF Freed
<1>4. \A x \in AllNames : entry[x] = NoEntry
  OBVIOUS
<1> HIDE DEF node, entry
<1>5. /\ fs \in Contents /\ fs.node = node /\ fs.entry = entry /\ fs.bits = {}
  BY <1>1, <1>2 DEF Contents
<1>6. Used(fs) = {}
  BY <1>4, <1>5 DEF Used
<1>7. ExistsInjection(Used(fs), Nodes)
  <2> DEFINE g == [x \in {} |-> NoNode]
  <2>1. g \in [{} -> Nodes] /\ \A x, y \in {} : g[x] = g[y] => x = y
    OBVIOUS
  <2> HIDE DEF g
  <2>2. g \in Injection({}, Nodes)
    BY <2>1 DEF Injection, IsInjective
  <2> QED
    BY <1>6, <2>2 DEF ExistsInjection
<1>8. FlagTellsTruth
  BY <1>5, <1>6 DEF FlagTellsTruth, Sound, Unmarked
<1>9. (\A n \in Nodes : ~Live(fs, n)) /\ Held(fs, opens) /\ opens \in [Nodes -> Nat]
  BY <1>1, <1>3, <1>5 DEF Live, Held
<1>10. aborted \in BOOLEAN /\ NeverAborts
  BY <1>1 DEF NeverAborts
<1> QED
  BY <1>1, <1>5, <1>7, <1>8, <1>9, <1>10 DEF FuseInv, Unmounted

\* Nothing happens.
LEMMA FuseStutter ==
  ASSUME FuseInv, UNCHANGED vars
  PROVE  FuseInv'
<1>1. fs' = fs /\ opens' = opens /\ state' = state /\ past' = past /\ aborted' = aborted /\ faults' = faults
  BY DEF vars
<1>2. (FlagTellsTruth <=> FlagTellsTruth') /\ (NeverAborts <=> NeverAborts')
  BY <1>1 DEF FlagTellsTruth, Sound, Unmarked, Used, NeverAborts
<1> QED
  BY <1>1, <1>2 DEF FuseInv, Mounted, Unmounted, Fit

\* Every step keeps the invariant, if a rename can write its entries.
LEMMA FuseStep ==
  ASSUME FuseInv, Allow = {}, [Next]_vars
  PROVE  FuseInv'
<1>1. CASE UNCHANGED vars
  BY <1>1, FuseStutter
<1>2. ASSUME NEW x \in Names,
             \/ \E trunc \in BOOLEAN : Open(x, trunc)
             \/ Create(x) \/ Mknod(x) \/ Mkdir(x) \/ Utimens(x)
             \/ \E k \in 0..MaxSize : Truncate(x, k)
             \/ \E h \in Hidden : Unlink(x, h) \/ \E o \in Names : Rename(o, x, h)
      PROVE  FuseInv'
  BY <1>2, OpenStep, CreateStep, MknodStep, MkdirStep, NameSteps, UnlinkStep, RenameStep
<1>3. ASSUME NEW n \in Nodes,
             Read(n) \/ Flush(n) \/ Release(n) \/ \E k \in 1..MaxSize : Write(n, k)
      PROVE  FuseInv'
  BY <1>3, FileSteps, ReleaseStep
<1>4. ASSUME NEW h \in Hidden, Reap(h) PROVE FuseInv'
  BY <1>4, ReapStep
<1>5. CASE Fsync \/ Mount \/ Destroy \/ Crash \/ Fsck
  BY <1>5, FsyncStep, MountStep, DestroyStep, CrashStep, FsckStep
<1> QED
  BY <1>1, <1>2, <1>3, <1>4, <1>5 DEF Next

\* The invariant holds if a rename can write its entries.
LEMMA FuseInvariant ==
  ASSUME Allow = {}
  PROVE  Spec => []FuseInv
<1>1. Init => FuseInv
  BY FuseInit
<1>2. FuseInv /\ [Next]_vars => FuseInv'
  BY FuseStep
<1> QED
  BY <1>1, <1>2, PTL DEF Spec

\* The file handles of FUSE (fi->fh) never dangle, the references of a node
\* are those of its open files, and neither exfat_cleanup_node() nor
\* reset_cache() stops a driver whose writes succeed.
THEOREM HandlesSafeHolds ==
  ASSUME Allow = {}
  PROVE  Spec => []HandlesSafe
<1>1. ASSUME FuseInv PROVE HandlesSafe
  <2>1. Held(fs, opens) /\ NeverAborts /\ opens \in [Nodes -> Nat]
    BY <1>1 DEF FuseInv
  <2>2. ASSUME NEW n \in Nodes, opens[n] > 0 PROVE fs.node[n].live /\ fs.node[n].linked
    <3>1. Live(fs, n)
      BY <2>1, <2>2 DEF Held
    <3>2. state = "up"
      BY <1>1, <3>1 DEF FuseInv, Unmounted
    <3>3. Tree(fs)
      BY <1>1, <3>2, UpFacts DEF MemoryOK
    <3> QED
      BY <3>1, <3>3 DEF Tree, Live
  <2>3. \A n \in Nodes : fs.node[n].live => fs.node[n].references = opens[n]
    BY <2>1 DEF Held, Live
  <2> QED
    BY <2>1, <2>2, <2>3 DEF HandlesSafe, HandlesHold
<1> QED
  BY <1>1, FuseInvariant, PTL

\* Whatever the driver does not count as dirty is on the device, also when
\* flushes have failed, and the device has the names of the tree and no others.
THEOREM CleanIsSavedHolds ==
  ASSUME Allow = {}
  PROVE  Spec => []CleanIsSaved
<1>1. ASSUME FuseInv PROVE CleanIsSaved
  <2> SUFFICES ASSUME state = "up"
               PROVE  /\ \A n \in Linked(fs) :
                           ~fs.node[n].dirty => fs.entry[fs.node[n].name] = Image(fs.node[n])
                      /\ ~fs.mapdirty => fs.bits = fs.map
                      /\ \A x \in AllNames : (fs.entry[x] = NoEntry) <=> (Lookup(fs, x) = NoNode)
    BY DEF CleanIsSaved
  <2>1. MemoryOK(fs)
    BY <1>1, UpFacts
  <2> QED
    BY <2>1, LinkedLive, LookupEntry DEF MemoryOK, Saved
<1> QED
  BY <1>1, FuseInvariant, PTL

\* A volume without EXFAT_STATE_MOUNTED is consistent whenever the driver is
\* not running, however it has ended and whichever writes of a flush, of
\* exfat_unmount() or of the super block have failed, but for the three ways to
\* lose the flag that FlagTellsTruth names.
THEOREM FlagTellsTruthHolds ==
  ASSUME Allow = {}
  PROVE  Spec => []FlagTellsTruth
<1>1. ASSUME FuseInv PROVE FlagTellsTruth
  <2>1. CASE state = "up"
    BY <2>1 DEF FlagTellsTruth
  <2>2. CASE state = "down"
    BY <1>1, <2>2 DEF FuseInv, Unmounted
  <2> QED
    BY <1>1, <2>1, <2>2 DEF FuseInv
<1> QED
  BY <1>1, FuseInvariant, PTL

=============================================================================
