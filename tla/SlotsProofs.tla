------------------------------ MODULE SlotsProofs ------------------------------
(* Theorems about Slots, for every number of files, entries to a cluster and   *)
(* lengths of names.                                                           *)
EXTENDS Slots, SequenceTheorems, WellFoundedInduction, TLAPS

Cell == {Free} \cup [kind: {"special"}, s: STRING \cup {"label"}]
          \cup [kind: {"file"}, f: Files, k: Nat, n: Nat]

\* The records of nodes and of calls.
Node == [at: Nat, n: Lengths, name: Lengths]
WriteTask == [op: {"write"}, f: Files, at: Nat, n: Lengths, done: Nat, head: Seq(Cell)]
DeleteTask == [op: {"erase"}, f: Files, done: Nat, then: {"delete"}]
RenameTask == [op: {"erase"}, f: Files, done: Nat, then: {"rename"},
               at: Nat, n: Lengths, head: Seq(Cell)]
ShrinkTask == [op: {"shrink"}, f: Files, at: Nat]
FlushTask == [op: {"flush"}, f: Files]

\* The types, in a form that the steps keep whatever fails.
SlotsType ==
  /\ root \in BOOLEAN
  /\ slot \in Seq(Cell)
  /\ node \in [Files -> Node \cup {NoNode}]
  /\ hurt \subseteq Files
  /\ task \in {NoTask} \cup WriteTask \cup DeleteTask \cup RenameTask
              \cup ShrinkTask \cup FlushTask

-----------------------------------------------------------------------------
(* Where the entries of each file are *)

Live(nodes) == {f \in Files : nodes[f] # NoNode}

\* n entries at a and m entries at b do not overlap.
Apart(a, n, b, m) == a + n <= b \/ b + m <= a

\* Sets of entries lie in the directory and do not overlap.
Placed(nodes, len) ==
  /\ \A f \in Live(nodes) : nodes[f].at + nodes[f].n <= len
  /\ \A f, g \in Live(nodes) : f # g => Apart(nodes[f].at, nodes[f].n, nodes[g].at, nodes[g].n)

\* n entries at a lie in the directory, apart from all sets but that of f.
Reserved(nodes, len, f, a, n) ==
  /\ a + n <= len
  /\ \A g \in Live(nodes) \ {f} : Apart(a, n, nodes[g].at, nodes[g].n)

\* Entry i of s is one of f.
IsOf(s, i, f) == s[i].kind = "file" /\ s[i].f = f

\* The m entries at a are free or those of f, in order.
OwnCells(s, f, a, m, n) ==
  \A i \in 1..Len(s) : a < i /\ i <= a + m => s[i] = Free \/ s[i] = Entry(f, i - a, n)

\* The m entries at a are those of f, in order.
WholeCells(s, f, a, m, n) ==
  \A i \in 1..Len(s) : a < i /\ i <= a + m => s[i] = Entry(f, i - a, n)

\* The m entries at a are free.
FreeCells(s, a, m) ==
  \A i \in 1..Len(s) : a < i /\ i <= a + m => s[i] = Free

\* f has no entries but among the m at a.
OnlyIn(s, f, a, m) ==
  \A i \in 1..Len(s) : IsOf(s, i, f) => a < i /\ i <= a + m

\* The entries of a file lie as in one set, although some may be missing.
Uniform(s) ==
  \A i, j \in 1..Len(s) :
    s[i].kind = "file" /\ s[j].kind = "file" /\ s[i].f = s[j].f => s[i].k - i = s[j].k - j

\* What rename_entry() has read of the set of f.
HeadOf(h, f, whole) ==
  /\ Len(h) = 2
  /\ \E m \in Lengths : \A k \in 1..2 :
       h[k] = Entry(f, k, m) \/ (~whole /\ h[k] = Free)

\* The files that a call is writing and erasing.
Writing(t) == IF t.op = "write" THEN {t.f} ELSE {}
Erasing(t) == IF t.op = "erase" THEN {t.f} ELSE {}

\* The entries of a file with a node that is not being written.
Kept(s, nodes, h, t, f) ==
  /\ OwnCells(s, f, nodes[f].at, nodes[f].n, nodes[f].n)
  /\ OnlyIn(s, f, nodes[f].at, nodes[f].n)
  /\ nodes[f].name = nodes[f].n
  /\ f \notin h /\ f \notin Erasing(t) =>
       WholeCells(s, f, nodes[f].at, nodes[f].n, nodes[f].n)

\* The call in progress.
WriteSane(s, nodes, h, t) ==
  t.op = "write" =>
    /\ t.done <= t.n
    /\ Reserved(nodes, Len(s), t.f, t.at, t.n)
    /\ OnlyIn(s, t.f, t.at, t.done)
    /\ OwnCells(s, t.f, t.at, t.done, t.n)
    /\ t.f \notin h => WholeCells(s, t.f, t.at, t.done, t.n)
    /\ \/ t.head = <<>> /\ t.f \notin Live(nodes) /\ t.f \notin h
       \/ /\ HeadOf(t.head, t.f, t.f \notin h)
          /\ t.f \in Live(nodes) /\ nodes[t.f].at = t.at /\ nodes[t.f].n = t.n

EraseSane(s, nodes, h, t) ==
  t.op = "erase" =>
    /\ t.f \in Live(nodes)
    /\ t.done <= nodes[t.f].n
    /\ FreeCells(s, nodes[t.f].at, t.done)
    /\ t.then = "rename" =>
         /\ Reserved(nodes, Len(s), t.f, t.at, t.n)
         /\ Apart(t.at, t.n, nodes[t.f].at, nodes[t.f].n)
         /\ HeadOf(t.head, t.f, t.f \notin h)

EntriesInv ==
  /\ SlotsType
  /\ Placed(node, Len(slot))
  /\ Uniform(slot)
  /\ \A f \in Live(node) \ Writing(task) : Kept(slot, node, hurt, task, f)
  /\ \A f \in Files \ (Live(node) \cup Writing(task) \cup hurt) : OnlyIn(slot, f, 0, 0)
  /\ WriteSane(slot, node, hurt, task)
  /\ EraseSane(slot, node, hurt, task)

-----------------------------------------------------------------------------
(* Numbers and sequences *)

\* A set of numbers that is not empty has a least element.
LEMMA LeastNatural ==
  ASSUME NEW S \in SUBSET Nat, S # {}
  PROVE  \E m \in S : \A k \in S : m <= k
<1> DEFINE Less == {p \in Nat \X Nat : p[1] < p[2]}
<1>1. OpToRel(<, Nat) = Less
  BY Zenon DEF OpToRel
<1>2. IsWellFoundedOn(Less, Nat)
  BY <1>1, NatLessThanWellFounded
<1>3. \E m \in S : \A k \in S : <<k, m>> \notin Less
  BY <1>2, WFMin
<1>4. \A k, m \in Nat : <<k, m>> \notin Less => m <= k
  OBVIOUS
<1> HIDE DEF Less
<1> QED
  BY <1>3, <1>4

\* A bounded set of numbers that is not empty has a greatest element.
LEMMA GreatestNatural ==
  ASSUME NEW b \in Nat, NEW S \in SUBSET (0..b), S # {}
  PROVE  \E m \in S : \A k \in S : k <= m
<1> DEFINE T == {b - k : k \in S}
<1>1. T \in SUBSET Nat /\ T # {}
  <2>1. \A k \in S : b - k \in Nat
    OBVIOUS
  <2>2. PICK k \in S : TRUE
    OBVIOUS
  <2>3. b - k \in T
    OBVIOUS
  <2> QED
    BY <2>1, <2>3
<1>2. PICK t \in T : \A u \in T : t <= u
  BY <1>1, LeastNatural
<1>3. PICK m \in S : t = b - m
  OBVIOUS
<1>4. \A k \in S : t <= b - k
  BY <1>2
<1> HIDE DEF T
<1>5. \A k \in S : k <= m
  BY <1>3, <1>4
<1> QED
  BY <1>5

\* The length of a function on 1..n.
LEMMA LengthOf ==
  ASSUME NEW S, NEW n \in Nat, NEW s \in [1..n -> S]
  PROVE  s \in Seq(S) /\ Len(s) = n
<1>1. s \in Seq(S)
  BY SeqDef
<1>2. Len(s) \in Nat /\ DOMAIN s = 1..Len(s)
  BY <1>1, LenProperties
<1> QED
  BY <1>1, <1>2

\* What the constants are.
LEMMA SlotsNumbers ==
  /\ ClusterSlots \in Nat /\ ClusterSlots > 0
  /\ \A n \in Lengths : n \in Nat /\ n > 2
  /\ Layout \in Seq(Cell) /\ Len(Layout) <= ClusterSlots
<1>1. Layout \in Seq(Cell)
  <2>1. [kind: {"special"}, s: STRING] \cup {Free} \subseteq Cell
    BY DEF Cell
  <2> QED
    BY <2>1, SlotsAssumption, SeqMonotonic
<1> QED
  BY <1>1, SlotsAssumption

\* ROUND_UP() gives whole clusters, at least one, that hold everything.
LEMMA RoundUpCovers ==
  ASSUME NEW n \in Nat
  PROVE  /\ RoundUp(n) \in Nat /\ n <= RoundUp(n)
         /\ n > 0 => ClusterSlots <= RoundUp(n)
<1> DEFINE q == (n + ClusterSlots - 1) \div ClusterSlots
           r == (n + ClusterSlots - 1) % ClusterSlots
<1>1. ClusterSlots \in Nat /\ ClusterSlots > 0 /\ n + ClusterSlots - 1 \in Nat
  BY SlotsNumbers
<1>2. q \in Nat /\ r \in 0..(ClusterSlots - 1) /\ n + ClusterSlots - 1 = ClusterSlots * q + r
  BY <1>1
<1>3. RoundUp(n) = ClusterSlots * q
  BY <1>1, <1>2 DEF RoundUp
<1> HIDE DEF q, r
<1>4. ClusterSlots * q \in Nat
  BY <1>1, <1>2
<1>5. n <= ClusterSlots * q
  BY <1>1, <1>2, <1>4
<1>6. ASSUME n > 0 PROVE ClusterSlots <= ClusterSlots * q
  <2>1. q # 0
    BY <1>1, <1>2, <1>6
  <2>2. q >= 1
    BY <1>2, <2>1
  <2> QED
    BY <1>1, <1>2, <2>2
<1> QED
  BY <1>3, <1>4, <1>5, <1>6

\* A device write takes at least one entry of the range, and none behind it.
LEMMA PieceWithin ==
  ASSUME NEW i \in Nat, NEW n \in Nat, n > 0
  PROVE  Piece(i, n) \in Nat /\ i < Piece(i, n) /\ Piece(i, n) <= i + n
<1>1. RoundUp(i + 1) \in Nat /\ i + 1 <= RoundUp(i + 1)
  BY RoundUpCovers
<1> QED
  BY <1>1 DEF Piece

-----------------------------------------------------------------------------
(* What the operators on entries return *)

\* exfat_truncate() keeps what is below both sizes; the rest is free.
LEMMA ResizedEffect ==
  ASSUME NEW s \in Seq(Cell), NEW n \in Nat
  PROVE  /\ Resized(s, n) \in Seq(Cell)
         /\ Len(Resized(s, n)) = n
         /\ \A i \in 1..n : Resized(s, n)[i] = IF i <= Len(s) THEN s[i] ELSE Free
<1>1. \A i \in 1..Len(s) : s[i] \in Cell
  BY ElementOfSeq
<1>2. Free \in Cell
  BY DEF Cell
<1>3. Len(s) \in Nat
  BY LenProperties
<1>4. Resized(s, n) \in [1..n -> Cell]
  BY <1>1, <1>2, <1>3 DEF Resized
<1>5. Resized(s, n) \in Seq(Cell) /\ Len(Resized(s, n)) = n
  BY <1>4, LengthOf, Zenon
<1>6. \A i \in 1..n : Resized(s, n)[i] = IF i <= Len(s) THEN s[i] ELSE Free
  BY DEF Resized
<1> QED
  BY <1>5, <1>6

\* Erasing.
LEMMA ErasedEffect ==
  ASSUME NEW s \in Seq(Cell), NEW from \in Nat, NEW to \in Nat
  PROVE  /\ Erased(s, from, to) \in Seq(Cell)
         /\ Len(Erased(s, from, to)) = Len(s)
         /\ \A i \in 1..Len(s) : Erased(s, from, to)[i] =
              IF from < i /\ i <= to THEN Free ELSE s[i]
<1>1. \A i \in 1..Len(s) : s[i] \in Cell
  BY ElementOfSeq
<1>2. Free \in Cell
  BY DEF Cell
<1>3. Len(s) \in Nat
  BY LenProperties
<1>4. Erased(s, from, to) \in [1..Len(s) -> Cell]
  BY <1>1, <1>2, <1>3 DEF Erased
<1>5. Erased(s, from, to) \in Seq(Cell) /\ Len(Erased(s, from, to)) = Len(s)
  BY <1>3, <1>4, LengthOf, Zenon
<1>6. \A i \in 1..Len(s) : Erased(s, from, to)[i] =
        IF from < i /\ i <= to THEN Free ELSE s[i]
  BY <1>3 DEF Erased
<1> QED
  BY <1>5, <1>6

\* The entries that a call writes: what was read of the old set, with the new
\* length, and behind it new ones.
LEMMA ContentType ==
  ASSUME task \in WriteTask, NEW k \in Nat, k > 0
  PROVE  /\ Content(k) \in Cell
         /\ k > Len(task.head) => Content(k) = Entry(task.f, k, task.n)
         /\ k <= Len(task.head) => Content(k).kind = task.head[k].kind
         /\ k <= Len(task.head) /\ task.head[k] = Free => Content(k) = Free
<1>1. task.f \in Files /\ task.n \in Nat /\ task.head \in Seq(Cell)
  BY SlotsNumbers DEF WriteTask
<1>2. Len(task.head) \in Nat
  BY <1>1, LenProperties
<1>3. CASE k > Len(task.head)
  <2>1. Content(k) = Entry(task.f, k, task.n)
    BY <1>3 DEF Content
  <2> QED
    BY <1>1, <1>2, <1>3, <2>1 DEF Entry, Cell
<1>4. CASE k <= Len(task.head)
  <2>1. task.head[k] \in Cell
    BY <1>1, <1>2, <1>4, ElementOfSeq
  <2>2. CASE task.head[k].kind = "file"
    <3>1. task.head[k] \in [kind: {"file"}, f: Files, k: Nat, n: Nat]
      BY <2>1, <2>2 DEF Cell, Free
    <3>2. Content(k) = [task.head[k] EXCEPT !.n = task.n]
      BY <1>2, <1>4, <2>2 DEF Content
    <3>3. /\ Content(k) \in [kind: {"file"}, f: Files, k: Nat, n: Nat]
          /\ Content(k).kind = task.head[k].kind
      BY <1>1, <3>1, <3>2
    <3> QED
      BY <1>2, <1>4, <2>2, <3>3 DEF Cell, Free
  <2>3. CASE task.head[k].kind # "file"
    <3>1. Content(k) = task.head[k]
      BY <1>2, <1>4, <2>3 DEF Content
    <3> QED
      BY <1>2, <1>4, <2>1, <3>1
  <2> QED
    BY <2>2, <2>3
<1> QED
  BY <1>2, <1>3, <1>4

\* Writing.
LEMMA WrittenEffect ==
  ASSUME task \in WriteTask, NEW s \in Seq(Cell), NEW from \in Nat, NEW to \in Nat,
         task.at <= from
  PROVE  /\ Written(s, from, to) \in Seq(Cell)
         /\ Len(Written(s, from, to)) = Len(s)
         /\ \A i \in 1..Len(s) : Written(s, from, to)[i] =
              IF from < i /\ i <= to THEN Content(i - task.at) ELSE s[i]
<1>1. \A i \in 1..Len(s) : s[i] \in Cell
  BY ElementOfSeq
<1>2. task.at \in Nat
  BY DEF WriteTask
<1>3. Len(s) \in Nat
  BY LenProperties
<1>4. \A i \in 1..Len(s) : i - 1 \in from..(to - 1) => Content(i - task.at) \in Cell
  <2> SUFFICES ASSUME NEW i \in 1..Len(s), i - 1 \in from..(to - 1)
               PROVE  Content(i - task.at) \in Cell
    OBVIOUS
  <2>1. i - task.at \in Nat /\ i - task.at > 0
    BY <1>2, <1>3
  <2> QED
    BY <2>1, ContentType
<1>5. Written(s, from, to) \in [1..Len(s) -> Cell]
  BY <1>1, <1>3, <1>4 DEF Written
<1>6. Written(s, from, to) \in Seq(Cell) /\ Len(Written(s, from, to)) = Len(s)
  BY <1>3, <1>5, LengthOf, Zenon
<1>7. \A i \in 1..Len(s) : Written(s, from, to)[i] =
        IF from < i /\ i <= to THEN Content(i - task.at) ELSE s[i]
  BY <1>3 DEF Written
<1> QED
  BY <1>6, <1>7

\* The places of nodes.
LEMMA NodeTypes ==
  ASSUME SlotsType, NEW f \in Files
  PROVE  /\ node[f].at \in Int /\ node[f].n \in Nat /\ node[f].name \in Nat
         /\ f \in Live(node) => /\ node[f] \in Node
                               /\ node[f].at \in Nat /\ node[f].n > 2 /\ node[f].name > 2
                               /\ node[f].n \in Lengths /\ node[f].name \in Lengths
         /\ f \notin Live(node) => node[f].at = -1 /\ node[f].n = 0
<1>1. CASE f \in Live(node)
  <2>1. node[f] \in Node
    BY <1>1 DEF Live, SlotsType
  <2> QED
    BY <1>1, <2>1, SlotsNumbers DEF Node
<1>2. CASE f \notin Live(node)
  BY <1>2 DEF Live, NoNode
<1> QED
  BY <1>1, <1>2

\* The entries of nodes, as the bitmap of find_slot() has them.
LEMMA TakenMeans ==
  ASSUME SlotsType, NEW j \in Int
  PROVE  j \in Taken <=> \E f \in Live(node) : node[f].at <= j /\ j < node[f].at + node[f].n
<1>1. j \in Taken <=> \E f \in Files : j \in node[f].at..(node[f].at + node[f].n - 1)
  BY DEF Taken
<1>2. \A f \in Files : j \in node[f].at..(node[f].at + node[f].n - 1) <=>
        (node[f].at <= j /\ j < node[f].at + node[f].n)
  BY NodeTypes
<1>3. \A f \in Files : (node[f].at <= j /\ j < node[f].at + node[f].n) => f \in Live(node)
  BY NodeTypes
<1>4. Live(node) \subseteq Files
  BY DEF Live
<1> QED
  BY <1>1, <1>2, <1>3, <1>4

\* find_slot(): a place in the directory as it will be, which does not get
\* shorter, with no entry of a node in it.
LEMMA FindSlotEffect ==
  ASSUME SlotsType, NEW n \in Nat, n > 0
  PROVE  /\ FindSlot(n).at \in Nat /\ FindSlot(n).size \in Nat
         /\ FindSlot(n).at + n <= FindSlot(n).size
         /\ Len(slot) <= FindSlot(n).size
         /\ \A j \in FindSlot(n).at..(FindSlot(n).at + n - 1) : j < Len(slot) => j \notin Taken
         /\ \/ FindSlot(n).at \in Offsets /\ CheckSlot(FindSlot(n).at, n)
            \/ FindSlot(n).at + n > Len(slot)
<1> DEFINE good == {i \in Offsets : Fits(i, n) /\ CheckSlot(i, n)}
           runs == {k \in 0..(n - 1) : \A j \in (Len(slot) - k)..(Len(slot) - 1) :
                                       j >= 0 /\ j \notin Taken}
           at == IF good # {} THEN CHOOSE i \in good : \A j \in good : i <= j
                 ELSE Len(slot) - Counted(n)
           rounded == RoundUp(IF good # {} THEN Len(slot) ELSE at + n)
<1>1. FindSlot(n) = [at |-> at, size |-> rounded]
  BY DEF FindSlot
<1>2. Len(slot) \in Nat
  BY LenProperties DEF SlotsType
<1>3. Offsets \subseteq Nat
  BY <1>2 DEF Offsets
<1>4. CASE good # {}
  <2>1. \E i \in good : \A j \in good : i <= j
    <3>1. good \in SUBSET Nat
      BY <1>3
    <3> HIDE DEF good
    <3> QED
      BY <1>4, <3>1, LeastNatural
  <2>2. at \in good
    BY <1>4, <2>1
  <2>3. at \in Nat /\ at \in Offsets /\ Fits(at, n) /\ CheckSlot(at, n)
    BY <1>3, <2>2
  <2>4. rounded = RoundUp(Len(slot))
    BY <1>4
  <2> HIDE DEF good, at, rounded
  <2>5. rounded \in Nat /\ Len(slot) <= rounded
    BY <1>2, <2>4, RoundUpCovers
  <2> QED
    BY <1>1, <1>2, <2>3, <2>5 DEF Fits
<1>5. CASE good = {}
  <2>1. 0 \in runs
    BY <1>2
  <2>2. \E k \in runs : \A m \in runs : m <= k
    <3>1. runs \in SUBSET (0..(n - 1)) /\ n - 1 \in Nat
      OBVIOUS
    <3> HIDE DEF runs
    <3> QED
      BY <2>1, <3>1, GreatestNatural
  <2>3. Counted(n) = CHOOSE k \in runs : \A m \in runs : m <= k
    BY DEF Counted
  <2>4. Counted(n) \in runs
    BY <2>2, <2>3
  <2>5. /\ Counted(n) \in 0..(n - 1)
        /\ \A j \in (Len(slot) - Counted(n))..(Len(slot) - 1) : j >= 0 /\ j \notin Taken
    BY <2>4
  <2>6. at = Len(slot) - Counted(n) /\ rounded = RoundUp(at + n)
    BY <1>5
  <2> HIDE DEF good, at, rounded, runs
  <2>7. at \in Nat
    <3>1. CASE Counted(n) = 0
      BY <1>2, <2>6, <3>1
    <3>2. CASE Counted(n) > 0
      <4>1. Len(slot) - Counted(n) \in (Len(slot) - Counted(n))..(Len(slot) - 1)
        BY <1>2, <2>5, <3>2
      <4> QED
        BY <1>2, <2>5, <2>6, <4>1
    <3> QED
      BY <2>5, <3>1, <3>2
  <2>8. rounded \in Nat /\ at + n <= rounded
    BY <2>6, <2>7, RoundUpCovers
  <2>9. at + n > Len(slot)
    BY <1>2, <2>5, <2>6
  <2>10. \A j \in at..(at + n - 1) : j < Len(slot) => j \notin Taken
    BY <1>2, <2>5, <2>6, <2>7
  <2> QED
    BY <1>1, <1>2, <2>7, <2>8, <2>9, <2>10
<1> QED
  BY <1>4, <1>5

-----------------------------------------------------------------------------
(* What leaves the entries of a file alone *)

\* From s to t, the entries of f and the m at a change only by being cut off.
Steady(s, t, f, a, m) ==
  \A i \in 1..Len(t) : \/ i <= Len(s) /\ t[i] = s[i]
                       \/ ~(a < i /\ i <= a + m) /\ ~IsOf(t, i, f)

SteadyAll(s, t, nodes, G) ==
  \A f \in Files \ G : Steady(s, t, f, nodes[f].at, nodes[f].n)

\* From s to t, only the n entries at a change, to free ones or ones of g.
Confined(s, t, g, a, n) ==
  /\ Len(t) = Len(s)
  /\ \A i \in 1..Len(t) : \/ t[i] = s[i]
                          \/ a < i /\ i <= a + n /\ (t[i].kind = "file" => t[i].f = g)

\* A directory that is cut or grows.
LEMMA ResizedSteady ==
  ASSUME SlotsType, Placed(node, Len(slot)), NEW n \in Nat, NEW G
  PROVE  SteadyAll(slot, Resized(slot, n), node, G)
<1> SUFFICES ASSUME NEW f \in Files, NEW i \in 1..Len(Resized(slot, n)),
                    ~(i <= Len(slot) /\ Resized(slot, n)[i] = slot[i])
             PROVE  /\ ~(node[f].at < i /\ i <= node[f].at + node[f].n)
                    /\ ~IsOf(Resized(slot, n), i, f)
  BY DEF SteadyAll, Steady
<1>1. Len(slot) \in Nat /\ slot \in Seq(Cell)
  BY LenProperties DEF SlotsType
<1>2. /\ Len(Resized(slot, n)) = n
      /\ \A j \in 1..n : Resized(slot, n)[j] = IF j <= Len(slot) THEN slot[j] ELSE Free
  BY <1>1, ResizedEffect
<1>3. i \in Nat /\ i > Len(slot) /\ Resized(slot, n)[i] = Free
  BY <1>1, <1>2
<1>4. ~IsOf(Resized(slot, n), i, f)
  BY <1>3 DEF IsOf, Free
<1>5. ~(node[f].at < i /\ i <= node[f].at + node[f].n)
  <2>1. CASE f \in Live(node)
    BY <1>1, <1>3, <2>1, NodeTypes DEF Placed
  <2>2. CASE f \notin Live(node)
    BY <1>3, <2>2, NodeTypes
  <2> QED
    BY <2>1, <2>2
<1> QED
  BY <1>4, <1>5

\* Writing or erasing in a place that is apart from the sets of other files.
LEMMA ConfinedSteady ==
  ASSUME SlotsType, NEW t, NEW g \in Files, NEW a \in Nat, NEW n \in Nat, n > 0,
         Reserved(node, Len(slot), g, a, n), Confined(slot, t, g, a, n)
  PROVE  SteadyAll(slot, t, node, {g})
<1> SUFFICES ASSUME NEW f \in Files \ {g}, NEW i \in 1..Len(t),
                    ~(i <= Len(slot) /\ t[i] = slot[i])
             PROVE  /\ ~(node[f].at < i /\ i <= node[f].at + node[f].n)
                    /\ ~IsOf(t, i, f)
  BY DEF SteadyAll, Steady
<1>1. Len(slot) \in Nat
  BY LenProperties DEF SlotsType
<1>2. i \in Nat /\ i <= Len(slot)
  BY <1>1 DEF Confined
<1>3. a < i /\ i <= a + n /\ (t[i].kind = "file" => t[i].f = g)
  BY <1>2 DEF Confined
<1>4. ~IsOf(t, i, f)
  BY <1>3 DEF IsOf
<1>5. ~(node[f].at < i /\ i <= node[f].at + node[f].n)
  <2>1. CASE f \in Live(node)
    <3>1. Apart(a, n, node[f].at, node[f].n)
      BY <2>1 DEF Reserved
    <3>2. node[f].at \in Nat /\ node[f].n \in Nat
      BY <2>1, NodeTypes
    <3> QED
      BY <1>2, <1>3, <3>1, <3>2 DEF Apart
  <2>2. CASE f \notin Live(node)
    BY <1>2, <2>2, NodeTypes
  <2> QED
    BY <2>1, <2>2
<1> QED
  BY <1>4, <1>5

\* The entries of a file that a step leaves alone.
LEMMA SteadyKeeps ==
  ASSUME NEW s, NEW t, NEW f, NEW a \in Int, NEW m \in Nat, NEW n,
         Len(s) \in Nat, Len(t) \in Nat, Steady(s, t, f, a, m)
  PROVE  /\ OwnCells(s, f, a, m, n) => OwnCells(t, f, a, m, n)
         /\ WholeCells(s, f, a, m, n) => WholeCells(t, f, a, m, n)
         /\ OnlyIn(s, f, a, m) => OnlyIn(t, f, a, m)
<1>1. OwnCells(s, f, a, m, n) => OwnCells(t, f, a, m, n)
  BY DEF OwnCells, Steady
<1>2. WholeCells(s, f, a, m, n) => WholeCells(t, f, a, m, n)
  BY DEF WholeCells, Steady
<1>3. OnlyIn(s, f, a, m) => OnlyIn(t, f, a, m)
  BY DEF OnlyIn, Steady, IsOf
<1> QED
  BY <1>1, <1>2, <1>3

\* The kinds of calls are told apart.
LEMMA TaskKinds ==
  ASSUME NEW t
  PROVE  /\ t \in WriteTask => t.op = "write"
         /\ t \in DeleteTask => t.op = "erase" /\ t.then = "delete"
         /\ t \in RenameTask => t.op = "erase" /\ t.then = "rename"
         /\ t \in {NoTask} \cup ShrinkTask \cup FlushTask =>
              t \notin WriteTask \cup RenameTask /\ Writing(t) = {} /\ Erasing(t) = {}
  BY DEF NoTask, ShrinkTask, FlushTask, Writing, Erasing, WriteTask, DeleteTask, RenameTask

\* The files that a step is not about keep their entries.
LEMMA OthersStep ==
  ASSUME EntriesInv, slot' \in Seq(Cell), NEW G \in SUBSET Files,
         hurt \subseteq hurt', hurt' \subseteq hurt \cup G,
         Writing(task) \subseteq G, Erasing(task) \subseteq G,
         \A f \in Files \ G : node'[f] = node[f],
         SteadyAll(slot, slot', node, G)
  PROVE  /\ \A f \in Live(node') \ G : Kept(slot', node', hurt', task', f)
         /\ \A f \in Files \ (Live(node') \cup hurt' \cup G) : OnlyIn(slot', f, 0, 0)
<1>1. Len(slot) \in Nat /\ Len(slot') \in Nat /\ SlotsType
  BY LenProperties DEF EntriesInv, SlotsType
<1>2. ASSUME NEW f \in Live(node') \ G PROVE Kept(slot', node', hurt', task', f)
  <2>1. f \in Files /\ f \in Live(node) /\ node'[f] = node[f]
    BY <1>2 DEF Live
  <2>2. f \notin Writing(task) /\ f \notin Erasing(task) /\ (f \in hurt' <=> f \in hurt)
    BY <1>2
  <2>3. Kept(slot, node, hurt, task, f)
    BY <2>1, <2>2 DEF EntriesInv
  <2>4. Steady(slot, slot', f, node[f].at, node[f].n)
    BY <1>2, <2>1 DEF SteadyAll
  <2>5. node[f].at \in Int /\ node[f].n \in Nat
    BY <1>1, <2>1, NodeTypes
  <2>6. /\ OwnCells(slot', f, node[f].at, node[f].n, node[f].n)
        /\ OnlyIn(slot', f, node[f].at, node[f].n)
    BY <1>1, <2>3, <2>4, <2>5, SteadyKeeps DEF Kept
  <2>7. f \notin hurt' => WholeCells(slot', f, node[f].at, node[f].n, node[f].n)
    BY <1>1, <2>2, <2>3, <2>4, <2>5, SteadyKeeps DEF Kept
  <2> QED
    BY <2>1, <2>3, <2>6, <2>7 DEF Kept
<1>3. ASSUME NEW f \in Files \ (Live(node') \cup hurt' \cup G) PROVE OnlyIn(slot', f, 0, 0)
  <2>1. f \notin Live(node) /\ f \notin hurt /\ f \notin Writing(task)
    BY <1>3 DEF Live
  <2>2. OnlyIn(slot, f, 0, 0)
    BY <1>3, <2>1 DEF EntriesInv
  <2>3. Steady(slot, slot', f, node[f].at, node[f].n)
    BY <1>3 DEF SteadyAll
  <2> QED
    BY <1>1, <2>2, <2>3 DEF OnlyIn, Steady, IsOf
<1> QED
  BY <1>2, <1>3

\* A step that makes no entries of files keeps them as they lie.
LEMMA UniformKept ==
  ASSUME NEW s, NEW t, Len(s) \in Nat, Len(t) \in Nat, Uniform(s),
         \A i \in 1..Len(t) : (i <= Len(s) /\ t[i] = s[i]) \/ t[i].kind # "file"
  PROVE  Uniform(t)
  BY DEF Uniform

\* So does one that makes entries of one file in order.
LEMMA UniformWritten ==
  ASSUME NEW s \in Seq(Cell), NEW t \in Seq(Cell), NEW g, NEW a \in Nat, NEW m \in Nat,
         NEW n \in Nat, Uniform(s), Confined(s, t, g, a, n),
         OnlyIn(t, g, a, m), OwnCells(t, g, a, m, n)
  PROVE  Uniform(t)
<1>1. Len(s) \in Nat /\ Len(t) = Len(s)
  BY LenProperties DEF Confined
<1>2. ASSUME NEW i \in 1..Len(t), IsOf(t, i, g) PROVE t[i].k - i = 0 - a
  <2>1. a < i /\ i <= a + m
    BY <1>2 DEF OnlyIn
  <2>2. t[i] # Free
    BY <1>2 DEF IsOf, Free
  <2>3. t[i] = Entry(g, i - a, n)
    BY <2>1, <2>2 DEF OwnCells
  <2> QED
    BY <1>1, <2>3 DEF Entry
<1> SUFFICES ASSUME NEW i \in 1..Len(t), NEW j \in 1..Len(t),
                    t[i].kind = "file", t[j].kind = "file", t[i].f = t[j].f
             PROVE  t[i].k - i = t[j].k - j
  BY DEF Uniform
<1>3. CASE t[i].f = g
  BY <1>2, <1>3 DEF IsOf
<1>4. CASE t[i].f # g
  <2>1. t[i] = s[i] /\ t[j] = s[j]
    BY <1>1, <1>4 DEF Confined
  <2> QED
    BY <1>1, <2>1 DEF Uniform
<1> QED
  BY <1>3, <1>4

\* The place that find_slot() has found is apart from all sets.
LEMMA FoundApart ==
  ASSUME EntriesInv, NEW n \in Nat, n > 0, NEW g \in Live(node)
  PROVE  Apart(FindSlot(n).at, n, node[g].at, node[g].n)
<1> DEFINE at == FindSlot(n).at
           j == IF at <= node[g].at THEN node[g].at ELSE at
<1>1. SlotsType /\ g \in Files /\ Len(slot) \in Nat
  BY LenProperties DEF EntriesInv, SlotsType, Live
<1>2. node[g].at \in Nat /\ node[g].n \in Nat /\ node[g].n > 0
  BY <1>1, NodeTypes
<1>3. node[g].at + node[g].n <= Len(slot)
  BY DEF EntriesInv, Placed
<1>4. at \in Nat
  BY <1>1, FindSlotEffect
<1>5. \A i \in at..(at + n - 1) : i < Len(slot) => i \notin Taken
  BY <1>1, FindSlotEffect
<1> SUFFICES ASSUME ~Apart(at, n, node[g].at, node[g].n) PROVE FALSE
  OBVIOUS
<1> HIDE DEF at
<1>6. at < node[g].at + node[g].n /\ node[g].at < at + n
  BY <1>2, <1>4 DEF Apart
<1>7. j \in Int /\ node[g].at <= j /\ j < node[g].at + node[g].n /\ j \in at..(at + n - 1)
  BY <1>2, <1>4, <1>6
<1> HIDE DEF j
<1>8. j \in Taken
  BY <1>1, <1>7, TakenMeans
<1>9. j < Len(slot)
  BY <1>1, <1>2, <1>3, <1>7
<1> QED
  BY <1>5, <1>7, <1>8, <1>9

\* A call that needs room: the directory becomes as long as the place needs.
LEMMA RoomEffect ==
  ASSUME EntriesInv, NEW n \in Nat, n > 0, Room(n), NEW f
  PROVE  /\ slot' \in Seq(Cell)
         /\ Len(slot') \in Nat /\ Len(slot) <= Len(slot')
         /\ FindSlot(n).at \in Nat
         /\ Reserved(node, Len(slot'), f, FindSlot(n).at, n)
         /\ SteadyAll(slot, slot', node, {})
         /\ Uniform(slot')
         /\ Placed(node, Len(slot'))
<1>1. SlotsType /\ Len(slot) \in Nat /\ slot \in Seq(Cell)
  BY LenProperties DEF EntriesInv, SlotsType
<1>2. /\ FindSlot(n).at \in Nat /\ FindSlot(n).size \in Nat
      /\ FindSlot(n).at + n <= FindSlot(n).size
      /\ Len(slot) <= FindSlot(n).size
  BY <1>1, FindSlotEffect
<1>3. slot' = Resized(slot, FindSlot(n).size)
  BY DEF Room
<1>4. /\ slot' \in Seq(Cell) /\ Len(slot') = FindSlot(n).size
      /\ \A i \in 1..Len(slot') : slot'[i] = IF i <= Len(slot) THEN slot[i] ELSE Free
  BY <1>1, <1>2, <1>3, ResizedEffect
<1>5. SteadyAll(slot, slot', node, {})
  BY <1>1, <1>2, <1>3, ResizedSteady DEF EntriesInv
<1>6. Uniform(slot')
  <2>1. \A i \in 1..Len(slot') : (i <= Len(slot) /\ slot'[i] = slot[i]) \/ slot'[i].kind # "file"
    BY <1>4 DEF Free
  <2> QED
    BY <1>1, <1>2, <1>4, <2>1, UniformKept DEF EntriesInv
<1>7. Placed(node, Len(slot'))
  <2>1. \A g \in Live(node) : node[g].at \in Nat /\ node[g].n \in Nat
    BY <1>1, NodeTypes DEF Live
  <2>2. Placed(node, Len(slot))
    BY DEF EntriesInv
  <2> QED
    BY <1>1, <1>2, <1>4, <2>1, <2>2 DEF Placed
<1>8. Reserved(node, Len(slot'), f, FindSlot(n).at, n)
  BY <1>2, <1>4, FoundApart DEF Reserved
<1> QED
  BY <1>1, <1>2, <1>4, <1>5, <1>6, <1>7, <1>8

\* A file without entries has none anywhere.
LEMMA NoneOf ==
  ASSUME NEW s, Len(s) \in Nat, NEW f, NEW a \in Int, OnlyIn(s, f, 0, 0)
  PROVE  OnlyIn(s, f, a, 0)
  BY DEF OnlyIn

\* No entries are whole and one's own.
LEMMA NoCells ==
  ASSUME NEW s, Len(s) \in Nat, NEW f, NEW a \in Int, NEW n
  PROVE  OwnCells(s, f, a, 0, n) /\ WholeCells(s, f, a, 0, n)
  BY DEF OwnCells, WholeCells

\* No entries are free.
LEMMA NoFree ==
  ASSUME NEW s, Len(s) \in Nat, NEW a \in Int
  PROVE  FreeCells(s, a, 0)
  BY DEF FreeCells

\* create() makes room.
LEMMA CreateStep ==
  ASSUME EntriesInv, NEW f \in Files, NEW n \in Lengths, Create(f, n)
  PROVE  EntriesInv'
<1> DEFINE at == FindSlot(n).at
<1>1. n \in Nat /\ n > 2 /\ SlotsType
  BY SlotsNumbers DEF EntriesInv
<1>2. /\ Idle /\ f \notin Live(node) /\ f \notin hurt /\ Room(n)
      /\ task' = [op |-> "write", f |-> f, at |-> at, n |-> n, done |-> 0, head |-> <<>>]
      /\ root' = root /\ node' = node /\ hurt' = hurt
  BY DEF Create, Live
<1>3. Writing(task) = {} /\ Erasing(task) = {}
  BY <1>2 DEF Idle, Writing, Erasing
<1>4. /\ slot' \in Seq(Cell) /\ Len(slot') \in Nat
      /\ at \in Nat /\ Reserved(node, Len(slot'), f, at, n)
      /\ SteadyAll(slot, slot', node, {}) /\ Uniform(slot') /\ Placed(node, Len(slot'))
  BY <1>1, <1>2, RoomEffect
<1> HIDE DEF at
<1>5. /\ \A g \in Live(node') : Kept(slot', node', hurt', task', g)
      /\ \A g \in Files \ (Live(node') \cup hurt') : OnlyIn(slot', g, 0, 0)
  BY <1>2, <1>3, <1>4, OthersStep
<1>6. task' \in WriteTask
  BY <1>1, <1>2, <1>4, EmptySeq DEF WriteTask
<1>7. SlotsType'
  BY <1>1, <1>2, <1>4, <1>6 DEF SlotsType
<1>8. WriteSane(slot', node', hurt', task')
  <2>1. OnlyIn(slot', f, at, 0)
    BY <1>2, <1>4, <1>5, NoneOf
  <2>2. OwnCells(slot', f, at, 0, n) /\ WholeCells(slot', f, at, 0, n)
    BY <1>4, NoCells
  <2> QED
    BY <1>1, <1>2, <1>4, <2>1, <2>2 DEF WriteSane
<1>9. EraseSane(slot', node', hurt', task')
  BY <1>2 DEF EraseSane
<1>10. Placed(node', Len(slot')) /\ Uniform(slot')
  BY <1>2, <1>4
<1> QED
  BY <1>5, <1>7, <1>8, <1>9, <1>10 DEF EntriesInv

\* Deleting begins to erase.
LEMMA DeleteStep ==
  ASSUME EntriesInv, NEW f \in Files, Delete(f)
  PROVE  EntriesInv'
<1>1. SlotsType /\ Len(slot) \in Nat
  BY LenProperties DEF EntriesInv, SlotsType
<1>2. /\ Idle /\ f \in Live(node)
      /\ task' = [op |-> "erase", f |-> f, done |-> 0, then |-> "delete"]
      /\ root' = root /\ slot' = slot /\ node' = node /\ hurt' = hurt
  BY DEF Delete, Live
<1>3. Writing(task) = {} /\ Erasing(task) = {}
  BY <1>2 DEF Idle, Writing, Erasing
<1>4. node[f].at \in Nat /\ node[f].n \in Nat
  BY <1>1, <1>2, NodeTypes
<1>5. \A g \in Live(node') : Kept(slot', node', hurt', task', g)
  BY <1>2, <1>3 DEF EntriesInv, Kept
<1>6. SlotsType'
  <2>1. task' \in DeleteTask
    BY <1>2 DEF DeleteTask
  <2> QED
    BY <1>1, <1>2, <2>1 DEF SlotsType
<1>7. EraseSane(slot', node', hurt', task')
  <2>1. FreeCells(slot, node[f].at, 0)
    BY <1>1, <1>4, NoFree
  <2> QED
    BY <1>2, <1>4, <2>1 DEF EraseSane
<1>8. WriteSane(slot', node', hurt', task')
  BY <1>2 DEF WriteSane
<1>9. \A g \in Files \ (Live(node') \cup hurt') : OnlyIn(slot', g, 0, 0)
  BY <1>2, <1>3 DEF EntriesInv
<1>10. Placed(node', Len(slot')) /\ Uniform(slot')
  BY <1>2 DEF EntriesInv
<1> QED
  BY <1>5, <1>6, <1>7, <1>8, <1>9, <1>10 DEF EntriesInv

\* What rename_entry() reads of a set.
LEMMA HeadRead ==
  ASSUME EntriesInv, Idle, NEW f \in Live(node)
  PROVE  /\ <<At(node[f].at), At(node[f].at + 1)>> \in Seq(Cell)
         /\ HeadOf(<<At(node[f].at), At(node[f].at + 1)>>, f, f \notin hurt)
<1> DEFINE a == node[f].at
           m == node[f].n
<1>1. SlotsType /\ Len(slot) \in Nat /\ slot \in Seq(Cell) /\ f \in Files
  BY LenProperties DEF EntriesInv, SlotsType, Live
<1>2. a \in Nat /\ m \in Nat /\ m > 2 /\ m \in Lengths /\ a + m <= Len(slot)
  BY <1>1, NodeTypes DEF EntriesInv, Placed
<1>3. Kept(slot, node, hurt, task, f) /\ f \notin Erasing(task)
  BY DEF EntriesInv, Idle, Writing, Erasing
<1>4. OwnCells(slot, f, a, m, m) /\ (f \notin hurt => WholeCells(slot, f, a, m, m))
  BY <1>3 DEF Kept
<1> HIDE DEF a, m
<1>5. At(a) = slot[a + 1] /\ At(a + 1) = slot[a + 2] /\ a + 1 \in 1..Len(slot) /\ a + 2 \in 1..Len(slot)
  BY <1>1, <1>2 DEF At
<1>6. slot[a + 1] \in Cell /\ slot[a + 2] \in Cell
  BY <1>1, <1>5, ElementOfSeq
<1>7. /\ slot[a + 1] = Free \/ slot[a + 1] = Entry(f, 1, m)
      /\ slot[a + 2] = Free \/ slot[a + 2] = Entry(f, 2, m)
  BY <1>2, <1>4, <1>5 DEF OwnCells
<1>8. f \notin hurt => slot[a + 1] = Entry(f, 1, m) /\ slot[a + 2] = Entry(f, 2, m)
  BY <1>2, <1>4, <1>5 DEF WholeCells
<1> DEFINE h == <<At(a), At(a + 1)>>
<1>9. h \in Seq(Cell) /\ Len(h) = 2 /\ h[1] = slot[a + 1] /\ h[2] = slot[a + 2]
  BY <1>5, <1>6
<1> HIDE DEF h
<1>10. \A k \in 1..2 : h[k] = Entry(f, k, m) \/ (~(f \notin hurt) /\ h[k] = Free)
  <2>1. 1..2 = {1, 2}
    OBVIOUS
  <2> QED
    BY <1>7, <1>8, <1>9, <2>1
<1>11. HeadOf(h, f, f \notin hurt)
  BY <1>2, <1>9, <1>10 DEF HeadOf
<1> QED
  BY <1>9, <1>11 DEF h, a

\* Renaming makes room and begins to erase.
LEMMA RenameStep ==
  ASSUME EntriesInv, NEW f \in Files, NEW n \in Lengths, Rename(f, n)
  PROVE  EntriesInv'
<1> DEFINE at == FindSlot(n).at
           h == <<At(node[f].at), At(node[f].at + 1)>>
<1>1. n \in Nat /\ n > 2 /\ SlotsType
  BY SlotsNumbers DEF EntriesInv
<1>2. /\ Idle /\ f \in Live(node) /\ Room(n)
      /\ task' = [op |-> "erase", f |-> f, done |-> 0, then |-> "rename",
                  at |-> at, n |-> n, head |-> h]
      /\ root' = root /\ node' = node /\ hurt' = hurt
  BY DEF Rename, Live
<1>3. Writing(task) = {} /\ Erasing(task) = {}
  BY <1>2 DEF Idle, Writing, Erasing
<1>4. /\ slot' \in Seq(Cell) /\ Len(slot') \in Nat
      /\ at \in Nat /\ Reserved(node, Len(slot'), f, at, n)
      /\ SteadyAll(slot, slot', node, {}) /\ Uniform(slot') /\ Placed(node, Len(slot'))
  <2>1. Room(n)
    BY <1>2
  <2> QED
    BY <1>1, <2>1, RoomEffect
<1>5. Apart(at, n, node[f].at, node[f].n)
  BY <1>1, <1>2, FoundApart
<1>6. h \in Seq(Cell) /\ HeadOf(h, f, f \notin hurt)
  BY <1>2, HeadRead
<1> HIDE DEF at, h
<1>7. /\ \A g \in Live(node') : Kept(slot', node', hurt', task', g)
      /\ \A g \in Files \ (Live(node') \cup hurt') : OnlyIn(slot', g, 0, 0)
  BY <1>2, <1>3, <1>4, OthersStep
<1>8. SlotsType'
  <2>1. task' \in RenameTask
    BY <1>1, <1>2, <1>4, <1>6 DEF RenameTask
  <2> QED
    BY <1>1, <1>2, <1>4, <2>1 DEF SlotsType
<1>9. EraseSane(slot', node', hurt', task')
  <2>1. node[f].at \in Nat /\ node[f].n \in Nat
    BY <1>1, <1>2, NodeTypes
  <2>2. FreeCells(slot', node[f].at, 0)
    BY <1>4, <2>1, NoFree
  <2> QED
    BY <1>2, <1>4, <1>5, <1>6, <2>1, <2>2 DEF EraseSane
<1>10. WriteSane(slot', node', hurt', task')
  BY <1>2 DEF WriteSane
<1>11. Placed(node', Len(slot')) /\ Uniform(slot')
  BY <1>2, <1>4
<1> QED
  BY <1>7, <1>8, <1>9, <1>10, <1>11 DEF EntriesInv

\* The set of a node is apart from the others.
LEMMA OwnReserved ==
  ASSUME EntriesInv, NEW f \in Live(node)
  PROVE  Reserved(node, Len(slot), f, node[f].at, node[f].n)
  BY DEF EntriesInv, Placed, Reserved

\* A call that erases.
LEMMA EraseTypes ==
  ASSUME EntriesInv, task.op = "erase"
  PROVE  /\ task.f \in Files /\ task.f \in Live(node)
         /\ task.done \in Nat /\ task.then \in {"delete", "rename"}
         /\ node[task.f].at \in Nat /\ node[task.f].n \in Nat /\ node[task.f].n > 2
         /\ Writing(task) = {} /\ Erasing(task) = {task.f}
         /\ Kept(slot, node, hurt, task, task.f)
         /\ task \in DeleteTask \cup RenameTask
         /\ task.then = "rename" => task \in RenameTask
<1>1. SlotsType
  BY DEF EntriesInv
<1>2. task \in DeleteTask \cup RenameTask
  BY <1>1 DEF SlotsType, NoTask, WriteTask, ShrinkTask, FlushTask
<1>3. /\ task.f \in Files /\ task.done \in Nat /\ task.then \in {"delete", "rename"}
      /\ task.then = "rename" => task \in RenameTask
  BY <1>2 DEF DeleteTask, RenameTask
<1>4. task.f \in Live(node)
  BY DEF EntriesInv, EraseSane
<1>5. Writing(task) = {} /\ Erasing(task) = {task.f}
  BY DEF Writing, Erasing
<1>6. Kept(slot, node, hurt, task, task.f)
  BY <1>4, <1>5 DEF EntriesInv
<1> QED
  BY <1>1, <1>2, <1>3, <1>4, <1>5, <1>6, NodeTypes

\* erase_node() frees the next piece of the set, or fails.
LEMMA EraseStepStep ==
  ASSUME EntriesInv, EraseStep
  PROVE  EntriesInv'
<1> DEFINE f == task.f
           a == node[f].at
           n == node[f].n
           from == a + task.done
           to == Piece(from, n - task.done)
<1>1. task.op = "erase" /\ task.done < n /\ root' = root /\ node' = node
  BY DEF EraseStep
<1>2. /\ f \in Files /\ f \in Live(node) /\ task.done \in Nat
      /\ a \in Nat /\ n \in Nat /\ n > 2
      /\ Writing(task) = {} /\ Erasing(task) = {f}
      /\ Kept(slot, node, hurt, task, f)
      /\ task \in DeleteTask \cup RenameTask
  BY <1>1, EraseTypes
<1>3. SlotsType /\ slot \in Seq(Cell) /\ Len(slot) \in Nat
  BY LenProperties DEF EntriesInv, SlotsType
<1>4. to \in Nat /\ from < to /\ to <= a + n /\ from \in Nat
  <2>1. from \in Nat /\ n - task.done \in Nat /\ n - task.done > 0
    BY <1>1, <1>2
  <2>2. to \in Nat /\ from < to /\ to <= from + (n - task.done)
    BY <2>1, PieceWithin
  <2> QED
    BY <1>2, <2>1, <2>2
<1>5. \/ /\ slot' = Erased(slot, from, to)
         /\ task' = [task EXCEPT !.done = to - a]
         /\ hurt' = hurt
      \/ /\ slot' \in {slot, Erased(slot, from, to)}
         /\ task' = NoTask
         /\ hurt' = hurt \cup {f}
  BY DEF EraseStep
<1>6. FreeCells(slot, a, task.done)
  BY <1>1 DEF EntriesInv, EraseSane
<1> HIDE DEF f, a, n, from, to
<1>7. /\ slot' \in Seq(Cell) /\ Len(slot') = Len(slot)
      /\ \A i \in 1..Len(slot) : slot'[i] = slot[i]
                                   \/ (from < i /\ i <= to /\ slot'[i] = Free)
  BY <1>3, <1>4, <1>5, ErasedEffect
<1>8. Confined(slot, slot', f, a, n)
  BY <1>2, <1>3, <1>4, <1>7 DEF Confined, Free, from
<1>9. SteadyAll(slot, slot', node, {f})
  <2>1. Reserved(node, Len(slot), f, a, n)
    BY <1>2, OwnReserved DEF a, n
  <2> QED
    BY <1>2, <1>3, <1>8, <2>1, ConfinedSteady
<1>10. /\ \A g \in Live(node') \ {f} : Kept(slot', node', hurt', task', g)
       /\ \A g \in Files \ (Live(node') \cup hurt' \cup {f}) : OnlyIn(slot', g, 0, 0)
  BY <1>1, <1>2, <1>5, <1>7, <1>9, OthersStep
<1>11. Uniform(slot')
  <2>1. \A i \in 1..Len(slot') : (i <= Len(slot) /\ slot'[i] = slot[i]) \/ slot'[i].kind # "file"
    BY <1>3, <1>7 DEF Free
  <2> QED
    BY <1>3, <1>7, <2>1, UniformKept DEF EntriesInv
<1>12. Placed(node', Len(slot'))
  BY <1>1, <1>7 DEF EntriesInv
<1>13. /\ OwnCells(slot', f, a, n, n) /\ OnlyIn(slot', f, a, n)
       /\ node[f].name = n
  <2>1. OwnCells(slot, f, a, n, n) /\ OnlyIn(slot, f, a, n) /\ node[f].name = n
    BY <1>2 DEF Kept, a, n
  <2>2. OwnCells(slot', f, a, n, n)
    BY <1>7, <2>1 DEF OwnCells
  <2>3. OnlyIn(slot', f, a, n)
    BY <1>7, <2>1 DEF OnlyIn, IsOf, Free
  <2> QED
    BY <2>1, <2>2, <2>3
<1>14. CASE /\ slot' = Erased(slot, from, to)
            /\ task' = [task EXCEPT !.done = to - a]
            /\ hurt' = hurt
  <2>1. /\ task' \in DeleteTask \cup RenameTask
        /\ task'.op = "erase" /\ task'.f = f /\ task'.done = to - a
        /\ task'.then = task.then
        /\ task.then = "rename" => task'.at = task.at /\ task'.n = task.n /\ task'.head = task.head
    <3>1. to - a \in Nat
      BY <1>2, <1>4 DEF from
    <3>2. CASE task \in DeleteTask
      BY <1>14, <3>1, <3>2 DEF DeleteTask, f
    <3>3. CASE task \in RenameTask
      BY <1>14, <3>1, <3>3 DEF RenameTask, f
    <3> QED
      BY <1>2, <3>2, <3>3
  <2>2. SlotsType'
    BY <1>1, <1>3, <1>7, <1>14, <2>1 DEF SlotsType
  <2>3. Writing(task') = {} /\ Erasing(task') = {f}
    BY <2>1 DEF Writing, Erasing
  <2>4. Kept(slot', node', hurt', task', f)
    BY <1>1, <1>13, <2>3 DEF Kept, a, n
  <2>5. FreeCells(slot', a, to - a)
    <3>1. \A i \in 1..Len(slot) : slot'[i] = IF from < i /\ i <= to THEN Free ELSE slot[i]
      BY <1>3, <1>4, <1>14, ErasedEffect
    <3> QED
      BY <1>2, <1>3, <1>4, <1>6, <1>7, <3>1 DEF FreeCells, from
  <2>6. EraseSane(slot', node', hurt', task')
    <3>1. EraseSane(slot, node, hurt, task)
      BY DEF EntriesInv
    <3>2. to - a <= n
      BY <1>2, <1>4
    <3> QED
      BY <1>1, <1>2, <1>7, <1>14, <2>1, <2>5, <3>1, <3>2 DEF EraseSane, f, a, n
  <2>7. WriteSane(slot', node', hurt', task')
    BY <2>1 DEF WriteSane
  <2>8. \A g \in Live(node') : Kept(slot', node', hurt', task', g)
    BY <1>10, <2>4
  <2>9. \A g \in Files \ (Live(node') \cup hurt') : OnlyIn(slot', g, 0, 0)
    BY <1>1, <1>2, <1>10
  <2> QED
    BY <1>11, <1>12, <2>2, <2>6, <2>7, <2>8, <2>9 DEF EntriesInv
<1>15. CASE task' = NoTask /\ hurt' = hurt \cup {f}
  <2>1. SlotsType'
    BY <1>1, <1>2, <1>3, <1>7, <1>15 DEF SlotsType
  <2>2. Kept(slot', node', hurt', task', f)
    BY <1>1, <1>13, <1>15 DEF Kept, a, n
  <2>3. WriteSane(slot', node', hurt', task') /\ EraseSane(slot', node', hurt', task')
    BY <1>15 DEF WriteSane, EraseSane, NoTask
  <2>4. \A g \in Live(node') : Kept(slot', node', hurt', task', g)
    BY <1>10, <2>2
  <2>5. \A g \in Files \ (Live(node') \cup hurt') : OnlyIn(slot', g, 0, 0)
    BY <1>1, <1>2, <1>10
  <2> QED
    BY <1>11, <1>12, <2>1, <2>3, <2>4, <2>5 DEF EntriesInv
<1> QED
  BY <1>5, <1>14, <1>15

\* shrink_directory(): no set is cut off, since the last one ends where its
\* name says.
LEMMA ShrunkEffect ==
  ASSUME NEW nodes \in [Files -> Node \cup {NoNode}], NEW deleted \in Nat,
         slot \in Seq(Cell), Placed(nodes, Len(slot)),
         \A f \in Live(nodes) : nodes[f].name = nodes[f].n
  PROVE  \E n \in Nat : /\ Shrunk(slot, nodes, deleted) \in {slot, Resized(slot, n)}
                        /\ \A f \in Live(nodes) : nodes[f].at + nodes[f].n <= n
                        /\ ClusterSlots <= n
<1> DEFINE rest == {f \in Files : nodes[f] # NoNode}
           last == CHOOSE f \in rest : \A g \in rest : nodes[f].at >= nodes[g].at
           end == IF rest = {} THEN 0 ELSE nodes[last].at + nodes[last].name
           n == IF end = 0 THEN ClusterSlots ELSE RoundUp(end)
<1>1. Shrunk(slot, nodes, deleted) \in {slot, Resized(slot, n)}
  BY DEF Shrunk
<1>2. rest = Live(nodes)
  BY DEF Live
<1>3. Len(slot) \in Nat
  BY LenProperties
<1>4. \A f \in rest : /\ nodes[f].at \in Nat /\ nodes[f].n \in Nat /\ nodes[f].n > 2
                      /\ nodes[f].name = nodes[f].n
                      /\ nodes[f].at + nodes[f].n <= Len(slot)
  BY <1>2, SlotsNumbers DEF Placed, Node
<1>5. CASE rest = {}
  <2>1. n = ClusterSlots
    BY <1>5
  <2> HIDE DEF n, rest, last, end
  <2> QED
    BY <1>1, <1>2, <1>5, <2>1, SlotsNumbers
<1>6. CASE rest # {}
  <2>1. \E f \in rest : \A g \in rest : nodes[f].at >= nodes[g].at
    <3> DEFINE S == {nodes[f].at : f \in rest}
    <3>1. S \in SUBSET (0..Len(slot)) /\ S # {}
      <4> HIDE DEF rest
      <4>1. \A f \in rest : nodes[f].at \in 0..Len(slot)
        BY <1>3, <1>4
      <4> QED
        BY <1>6, <4>1
    <3> HIDE DEF S
    <3>2. PICK m \in S : \A k \in S : k <= m
      BY <1>3, <3>1, GreatestNatural
    <3> USE DEF S
    <3>3. PICK f \in rest : m = nodes[f].at
      OBVIOUS
    <3>4. \A g \in rest : nodes[g].at <= m
      BY <3>2
    <3> HIDE DEF S, rest
    <3> QED
      BY <1>4, <3>3, <3>4
  <2>2. last \in rest /\ \A g \in rest : nodes[last].at >= nodes[g].at
    BY <2>1
  <2>3. end = nodes[last].at + nodes[last].n
    BY <1>4, <1>6, <2>2
  <2>4. n = IF end = 0 THEN ClusterSlots ELSE RoundUp(end)
    OBVIOUS
  <2> HIDE DEF n, rest, last, end
  <2>5. end \in Nat /\ end > 0
    BY <1>4, <2>2, <2>3
  <2>6. n \in Nat /\ end <= n /\ ClusterSlots <= n
    BY <2>4, <2>5, RoundUpCovers
  <2>7. \A g \in rest : nodes[g].at + nodes[g].n <= end
    <3> SUFFICES ASSUME NEW g \in rest, g # last PROVE nodes[g].at + nodes[g].n <= end
      BY <1>4, <2>2, <2>3
    <3>1. Apart(nodes[g].at, nodes[g].n, nodes[last].at, nodes[last].n)
      BY <1>2, <2>2 DEF Placed
    <3> QED
      BY SMTT(30), <1>4, <2>2, <2>3, <3>1 DEF Apart
  <2>8. \A g \in rest : nodes[g].at + nodes[g].n <= n
    BY <1>4, <2>5, <2>6, <2>7
  <2> QED
    BY <1>1, <1>2, <2>6, <2>8
<1> QED
  BY <1>5, <1>6

\* A set that has been erased to its end has left nothing of the file.
LEMMA NothingLeft ==
  ASSUME EntriesInv, task.op = "erase", task.done = node[task.f].n
  PROVE  OnlyIn(slot, task.f, 0, 0)
<1>1. Len(slot) \in Nat
  BY LenProperties DEF EntriesInv, SlotsType
<1>2. FreeCells(slot, node[task.f].at, node[task.f].n)
  BY DEF EntriesInv, EraseSane
<1>3. OnlyIn(slot, task.f, node[task.f].at, node[task.f].n)
  BY EraseTypes DEF Kept
<1> QED
  BY <1>1, <1>2, <1>3 DEF OnlyIn, FreeCells, IsOf, Free

\* delete() takes the node of the erased set out of the tree.
LEMMA DeleteEndStep ==
  ASSUME EntriesInv, EraseEnd, task.then = "delete"
  PROVE  EntriesInv'
<1> DEFINE f == task.f
<1>1. /\ task.op = "erase" /\ task.done = node[f].n
      /\ node' = [node EXCEPT ![f] = NoNode]
      /\ slot' = slot
      /\ task' = [op |-> "shrink", f |-> f, at |-> node[f].at]
      /\ root' = root /\ hurt' = hurt
  BY DEF EraseEnd
<1>2. /\ f \in Files /\ f \in Live(node) /\ node[f].at \in Nat
      /\ Writing(task) = {} /\ Erasing(task) = {f}
  BY <1>1, EraseTypes
<1>3. SlotsType /\ slot \in Seq(Cell) /\ Len(slot) \in Nat
  BY LenProperties DEF EntriesInv, SlotsType
<1>4. OnlyIn(slot, f, 0, 0)
  BY <1>1, NothingLeft
<1>5. task' \in ShrinkTask /\ task'.op = "shrink"
  BY <1>1, <1>2 DEF ShrinkTask
<1> HIDE DEF f
<1>6. /\ node' \in [Files -> Node \cup {NoNode}]
      /\ Live(node') = Live(node) \ {f}
      /\ \A g \in Files \ {f} : node'[g] = node[g]
  BY <1>1, <1>2, <1>3 DEF SlotsType, Live
<1>7. Placed(node', Len(slot'))
  BY <1>1, <1>6 DEF EntriesInv, Placed, Live
<1>8. SteadyAll(slot, slot', node, {f})
  BY <1>1, <1>3 DEF SteadyAll, Steady
<1>9. /\ \A g \in Live(node') \ {f} : Kept(slot', node', hurt', task', g)
      /\ \A g \in Files \ (Live(node') \cup hurt' \cup {f}) : OnlyIn(slot', g, 0, 0)
  <2>1. /\ {f} \in SUBSET Files /\ hurt \subseteq hurt' /\ hurt' \subseteq hurt \cup {f}
        /\ Writing(task) \subseteq {f} /\ Erasing(task) \subseteq {f}
    BY <1>1, <1>2
  <2>2. slot' \in Seq(Cell)
    BY <1>1, <1>3
  <2> QED
    BY <1>6, <1>8, <2>1, <2>2, OthersStep
<1>10. OnlyIn(slot', f, 0, 0) /\ Uniform(slot')
  BY <1>1, <1>4 DEF EntriesInv
<1>11. SlotsType'
  BY <1>1, <1>3, <1>5, <1>6 DEF SlotsType
<1>12. WriteSane(slot', node', hurt', task') /\ EraseSane(slot', node', hurt', task')
  BY <1>5 DEF WriteSane, EraseSane
<1>13. /\ \A g \in Live(node') : Kept(slot', node', hurt', task', g)
       /\ \A g \in Files \ (Live(node') \cup hurt') : OnlyIn(slot', g, 0, 0)
  BY <1>6, <1>9, <1>10
<1> QED
  BY <1>7, <1>10, <1>11, <1>12, <1>13 DEF EntriesInv

\* A call that shrinks the directory.
LEMMA ShrinkTypes ==
  ASSUME EntriesInv, task.op = "shrink"
  PROVE  task \in ShrinkTask /\ task.f \in Files /\ task.at \in Nat
<1>1. task \in ShrinkTask
  BY DEF EntriesInv, SlotsType, NoTask, WriteTask, DeleteTask, RenameTask, FlushTask
<1> QED
  BY <1>1 DEF ShrinkTask

\* What a call that shrinks the directory makes of it.
LEMMA ShrinkEffect ==
  ASSUME EntriesInv, Shrink
  PROVE  \E n \in Nat : /\ slot' \in {slot, Resized(slot, n)}
                        /\ \A g \in Live(node) : node[g].at + node[g].n <= n
                        /\ ClusterSlots <= n
<1>1. task.op = "shrink" /\ slot' \in {slot, Shrunk(slot, node, task.at)}
  BY DEF Shrink
<1>2. /\ node \in [Files -> Node \cup {NoNode}] /\ slot \in Seq(Cell)
      /\ Placed(node, Len(slot)) /\ task.at \in Nat
  BY <1>1, ShrinkTypes DEF EntriesInv, SlotsType
<1>3. \A f \in Live(node) : node[f].name = node[f].n
  <2>1. Writing(task) = {}
    BY <1>1 DEF Writing
  <2> QED
    BY <2>1 DEF EntriesInv, Kept
<1>4. PICK n \in Nat : /\ Shrunk(slot, node, task.at) \in {slot, Resized(slot, n)}
                       /\ \A g \in Live(node) : node[g].at + node[g].n <= n
                       /\ ClusterSlots <= n
  BY <1>2, <1>3, ShrunkEffect
<1> QED
  BY <1>1, <1>4

\* delete() cuts the directory behind the last set.
LEMMA ShrinkStep ==
  ASSUME EntriesInv, Shrink
  PROVE  EntriesInv'
<1>1. /\ task.op = "shrink" /\ task' = [op |-> "flush", f |-> task.f]
      /\ root' = root /\ node' = node /\ hurt' = hurt
  BY DEF Shrink
<1>2. task' \in FlushTask /\ task'.op = "flush" /\ Writing(task) = {} /\ Erasing(task) = {}
      /\ Writing(task') = {}
  BY <1>1, ShrinkTypes DEF FlushTask, Writing, Erasing
<1>3. SlotsType /\ slot \in Seq(Cell) /\ Len(slot) \in Nat /\ Placed(node, Len(slot))
  BY LenProperties DEF EntriesInv, SlotsType
<1>4. PICK n \in Nat : /\ slot' \in {slot, Resized(slot, n)}
                       /\ \A g \in Live(node) : node[g].at + node[g].n <= n
  BY ShrinkEffect
<1>5. /\ slot' \in Seq(Cell) /\ Len(slot') \in Nat
      /\ Placed(node, Len(slot'))
      /\ SteadyAll(slot, slot', node, {})
      /\ \A i \in 1..Len(slot') : (i <= Len(slot) /\ slot'[i] = slot[i]) \/ slot'[i] = Free
  <2>1. CASE slot' = slot
    <3>1. SteadyAll(slot, slot', node, {})
      BY <1>3, <2>1 DEF SteadyAll, Steady
    <3> QED
      BY <1>3, <2>1, <3>1
  <2>2. CASE slot' = Resized(slot, n)
    <3>1. /\ slot' \in Seq(Cell) /\ Len(slot') = n
          /\ \A i \in 1..n : slot'[i] = IF i <= Len(slot) THEN slot[i] ELSE Free
      BY <1>3, <2>2, ResizedEffect
    <3>2. SteadyAll(slot, slot', node, {})
      BY <1>3, <2>2, ResizedSteady DEF EntriesInv
    <3>3. Placed(node, Len(slot'))
      BY <1>3, <1>4, <3>1 DEF Placed
    <3> QED
      BY <3>1, <3>2, <3>3
  <2> QED
    BY <1>4, <2>1, <2>2
<1>6. /\ \A g \in Live(node') : Kept(slot', node', hurt', task', g)
      /\ \A g \in Files \ (Live(node') \cup hurt') : OnlyIn(slot', g, 0, 0)
  BY <1>1, <1>2, <1>5, OthersStep
<1>7. Uniform(slot')
  <2>1. \A i \in 1..Len(slot') : (i <= Len(slot) /\ slot'[i] = slot[i]) \/ slot'[i].kind # "file"
    BY <1>5 DEF Free
  <2> QED
    BY <1>3, <1>5, <2>1, UniformKept DEF EntriesInv
<1>8. SlotsType'
  BY <1>1, <1>2, <1>3, <1>5 DEF SlotsType
<1>9. WriteSane(slot', node', hurt', task') /\ EraseSane(slot', node', hurt', task')
  BY <1>2 DEF WriteSane, EraseSane
<1> QED
  BY <1>1, <1>2, <1>5, <1>6, <1>7, <1>8, <1>9 DEF EntriesInv

\* A call that ends with the flush of the directory.
LEMMA FlushTypes ==
  ASSUME EntriesInv, task.op = "flush"
  PROVE  task \in FlushTask /\ task.f \in Files
<1>1. task \in FlushTask
  BY DEF EntriesInv, SlotsType, NoTask, WriteTask, DeleteTask, RenameTask, ShrinkTask
<1> QED
  BY <1>1 DEF FlushTask

\* The flush of the directory leaves its entries alone.
LEMMA FlushStep ==
  ASSUME EntriesInv, Flush
  PROVE  EntriesInv'
<1>1. /\ task.op = "flush" /\ task' = NoTask
      /\ root' = root /\ slot' = slot /\ node' = node
      /\ hurt \subseteq hurt' /\ hurt' \subseteq hurt \cup {task.f}
  BY DEF Flush
<1>2. /\ task.f \in Files /\ SlotsType /\ Writing(task) = {} /\ Erasing(task) = {}
      /\ Writing(task') = {} /\ Erasing(task') = {} /\ task'.op = "none"
  BY <1>1, FlushTypes DEF EntriesInv, Writing, Erasing, NoTask
<1>3. SlotsType'
  BY <1>1, <1>2 DEF SlotsType
<1>4. /\ \A g \in Live(node') : Kept(slot', node', hurt', task', g)
      /\ \A g \in Files \ (Live(node') \cup hurt') : OnlyIn(slot', g, 0, 0)
  <2>1. \A g \in Live(node) : Kept(slot, node, hurt, task, g)
    BY <1>2 DEF EntriesInv
  <2>2. \A g \in Files \ (Live(node) \cup hurt) : OnlyIn(slot, g, 0, 0)
    BY <1>2 DEF EntriesInv
  <2> QED
    BY <1>1, <1>2, <2>1, <2>2 DEF Kept
<1>5. WriteSane(slot', node', hurt', task') /\ EraseSane(slot', node', hurt', task')
  BY <1>2 DEF WriteSane, EraseSane
<1> QED
  BY <1>1, <1>2, <1>3, <1>4, <1>5 DEF EntriesInv

\* Putting a set in a place that was reserved for it keeps the sets apart.
LEMMA PlacedAt ==
  ASSUME NEW nodes \in [Files -> Node \cup {NoNode}], NEW nodes2, NEW len \in Nat,
         NEW f \in Files, NEW a \in Nat, NEW n \in Nat,
         Placed(nodes, len), Reserved(nodes, len, f, a, n),
         Live(nodes2) = Live(nodes) \cup {f},
         nodes2[f].at = a, nodes2[f].n = n,
         \A g \in Files \ {f} : nodes2[g] = nodes[g]
  PROVE  Placed(nodes2, len)
<1>1. \A g \in Live(nodes2) : g \in Files /\ (g # f => g \in Live(nodes) /\ nodes2[g] = nodes[g])
  BY DEF Live
<1>2. \A g \in Live(nodes2) : nodes2[g].at + nodes2[g].n <= len
  BY <1>1 DEF Placed, Reserved
<1>3. ASSUME NEW g \in Live(nodes2), NEW h \in Live(nodes2), g # h
      PROVE  Apart(nodes2[g].at, nodes2[g].n, nodes2[h].at, nodes2[h].n)
  <2>1. CASE g # f /\ h # f
    BY <1>1, <1>3, <2>1 DEF Placed
  <2>2. CASE g = f
    BY <1>1, <1>3, <2>2 DEF Reserved
  <2>3. CASE h = f
    BY <1>1, <1>3, <2>3 DEF Reserved, Apart
  <2> QED
    BY <2>1, <2>2, <2>3
<1> QED
  BY <1>2, <1>3 DEF Placed

\* rename_entry() has erased the old set and goes on with the new place.
LEMMA RenameEndStep ==
  ASSUME EntriesInv, EraseEnd, task.then = "rename"
  PROVE  EntriesInv'
<1> DEFINE f == task.f
<1>1. /\ task.op = "erase" /\ task.done = node[f].n
      /\ node' = [node EXCEPT ![f].at = task.at, ![f].n = task.n]
      /\ task' = [op |-> "write", f |-> f, at |-> task.at, n |-> task.n,
                  done |-> 0, head |-> task.head]
      /\ slot' = slot /\ root' = root /\ hurt' = hurt
  BY DEF EraseEnd
<1>2. /\ f \in Files /\ f \in Live(node)
      /\ Writing(task) = {} /\ Erasing(task) = {f} /\ task \in RenameTask
  BY <1>1, EraseTypes
<1>3. SlotsType /\ slot \in Seq(Cell) /\ Len(slot) \in Nat
  BY LenProperties DEF EntriesInv, SlotsType
<1>4. OnlyIn(slot, f, 0, 0)
  BY <1>1, NothingLeft
<1>5. task.at \in Nat /\ task.n \in Nat /\ task.n \in Lengths /\ task.head \in Seq(Cell)
  BY <1>2, SlotsNumbers DEF RenameTask
<1>6. /\ Reserved(node, Len(slot), f, task.at, task.n)
      /\ HeadOf(task.head, f, f \notin hurt)
  BY <1>1 DEF EntriesInv, EraseSane
<1> HIDE DEF f
<1>7. /\ node'[f].at = task.at /\ node'[f].n = task.n /\ node'[f] \in Node
      /\ node' \in [Files -> Node \cup {NoNode}]
      /\ \A g \in Files \ {f} : node'[g] = node[g]
  <2>1. node[f] \in Node
    BY <1>2, <1>3, NodeTypes
  <2>2. /\ node' = [node EXCEPT ![f] = [node[f] EXCEPT !.at = task.at, !.n = task.n]]
    BY <1>1
  <2>3. [node[f] EXCEPT !.at = task.at, !.n = task.n] \in Node
    BY <1>5, <2>1 DEF Node
  <2>4. /\ [node[f] EXCEPT !.at = task.at, !.n = task.n].at = task.at
        /\ [node[f] EXCEPT !.at = task.at, !.n = task.n].n = task.n
    BY <2>1 DEF Node
  <2> DEFINE x == [node[f] EXCEPT !.at = task.at, !.n = task.n]
  <2> HIDE DEF x
  <2>5. node' = [node EXCEPT ![f] = x] /\ x \in Node /\ x.at = task.at /\ x.n = task.n
    BY <2>2, <2>3, <2>4 DEF x
  <2> QED
    BY <1>2, <1>3, <2>5 DEF SlotsType
<1>8. Live(node') = Live(node) /\ Live(node') = Live(node) \cup {f}
  <2>1. node'[f] # NoNode
    BY <1>7 DEF Node, NoNode
  <2> QED
    BY <1>2, <1>7, <2>1 DEF Live
<1>9. Placed(node', Len(slot'))
  <2>1. Placed(node, Len(slot)) /\ node \in [Files -> Node \cup {NoNode}]
    BY <1>3 DEF EntriesInv, SlotsType
  <2>2. Placed(node', Len(slot))
    BY <1>2, <1>3, <1>5, <1>6, <1>7, <1>8, <2>1, PlacedAt
  <2> QED
    BY <1>1, <2>2
<1>10. Writing(task') = {f}
  BY <1>1 DEF Writing
<1>11. /\ \A g \in Live(node') \ {f} : Kept(slot', node', hurt', task', g)
       /\ \A g \in Files \ (Live(node') \cup hurt' \cup {f}) : OnlyIn(slot', g, 0, 0)
  <2>1. /\ {f} \in SUBSET Files /\ hurt \subseteq hurt' /\ hurt' \subseteq hurt \cup {f}
        /\ Writing(task) \subseteq {f} /\ Erasing(task) \subseteq {f}
    BY <1>1, <1>2
  <2>2. slot' \in Seq(Cell) /\ SteadyAll(slot, slot', node, {f})
    BY <1>1, <1>3 DEF SteadyAll, Steady
  <2>3. \A g \in Files \ {f} : node'[g] = node[g]
    BY <1>7
  <2> QED
    BY <2>1, <2>2, <2>3, OthersStep
<1>12. SlotsType'
  <2>1. task' \in WriteTask
    BY <1>1, <1>2, <1>5 DEF WriteTask
  <2> QED
    BY <1>1, <1>3, <1>7, <2>1 DEF SlotsType
<1>13. WriteSane(slot', node', hurt', task')
  <2>1. OnlyIn(slot, f, task.at, 0)
    BY <1>3, <1>4, <1>5, NoneOf
  <2>2. OwnCells(slot, f, task.at, 0, task.n) /\ WholeCells(slot, f, task.at, 0, task.n)
    BY <1>3, <1>5, NoCells
  <2>3. Reserved(node', Len(slot), f, task.at, task.n)
    BY <1>6, <1>7, <1>8 DEF Reserved, Live
  <2>4. /\ task'.f = f /\ task'.at = task.at /\ task'.n = task.n /\ task'.done = 0
        /\ task'.head = task.head
    BY <1>1
  <2>5. HeadOf(task'.head, task'.f, task'.f \notin hurt')
    BY <1>1, <1>6, <2>4, Zenon
  <2>6. slot' = slot /\ f \in Live(node') /\ node'[f].at = task.at /\ node'[f].n = task.n
    BY <1>1, <1>2, <1>7, <1>8
  <2>7. 0 <= task.n
    BY <1>5
  <2> QED
    BY <2>1, <2>2, <2>3, <2>4, <2>5, <2>6, <2>7 DEF WriteSane
<1>14. EraseSane(slot', node', hurt', task')
  BY <1>1 DEF EraseSane
<1>15. Uniform(slot')
  BY <1>1 DEF EntriesInv
<1> QED
  BY <1>9, <1>10, <1>11, <1>12, <1>13, <1>14, <1>15 DEF EntriesInv

\* A call that writes.
LEMMA WriteTypes ==
  ASSUME EntriesInv, task.op = "write"
  PROVE  /\ task \in WriteTask
         /\ task.f \in Files /\ task.at \in Nat /\ task.done \in Nat
         /\ task.n \in Nat /\ task.n > 2 /\ task.n \in Lengths
         /\ task.head \in Seq(Cell) /\ Len(task.head) \in Nat
         /\ Writing(task) = {task.f} /\ Erasing(task) = {}
         /\ WriteSane(slot, node, hurt, task)
<1>1. task \in WriteTask
  BY DEF EntriesInv, SlotsType, NoTask, DeleteTask, RenameTask, ShrinkTask, FlushTask
<1>2. /\ task.f \in Files /\ task.at \in Nat /\ task.done \in Nat /\ task.n \in Lengths
      /\ task.head \in Seq(Cell)
  BY <1>1 DEF WriteTask
<1>3. Writing(task) = {task.f} /\ Erasing(task) = {}
  BY DEF Writing, Erasing
<1> QED
  BY <1>1, <1>2, <1>3, SlotsNumbers, LenProperties DEF EntriesInv

\* Every entry that a call writes is in its place, except that those which a
\* failed call had erased before stay free.
LEMMA ContentIs ==
  ASSUME EntriesInv, task.op = "write", NEW k \in Nat, k > 0
  PROVE  \/ Content(k) = Entry(task.f, k, task.n)
         \/ task.f \in hurt /\ Content(k) = Free
<1>1. /\ task \in WriteTask /\ Len(task.head) \in Nat
      /\ WriteSane(slot, node, hurt, task)
  BY WriteTypes
<1>2. CASE task.head = <<>>
  BY <1>1, <1>2, ContentType
<1>3. CASE HeadOf(task.head, task.f, task.f \notin hurt) /\ k <= 2
  <2>1. Len(task.head) = 2 /\ k \in 1..2
    BY <1>3 DEF HeadOf
  <2>2. PICK m \in Lengths : task.head[k] = Entry(task.f, k, m)
                               \/ (task.f \in hurt /\ task.head[k] = Free)
    BY <1>3, <2>1 DEF HeadOf
  <2>3. CASE task.head[k] = Free /\ task.f \in hurt
    BY <1>1, <2>1, <2>3, ContentType
  <2>4. CASE task.head[k] = Entry(task.f, k, m)
    <3>1. task.head[k].kind = "file"
      BY <2>4 DEF Entry
    <3>2. Content(k) = [task.head[k] EXCEPT !.n = task.n]
      BY <1>1, <2>1, <3>1 DEF Content
    <3>3. [Entry(task.f, k, m) EXCEPT !.n = task.n] = Entry(task.f, k, task.n)
      BY DEF Entry
    <3> QED
      BY <2>4, <3>2, <3>3
  <2> QED
    BY <2>2, <2>3, <2>4
<1>4. CASE HeadOf(task.head, task.f, task.f \notin hurt) /\ k > 2
  <2>1. k > Len(task.head)
    BY <1>4 DEF HeadOf
  <2> QED
    BY <1>1, <2>1, ContentType
<1> QED
  BY <1>1, <1>2, <1>3, <1>4 DEF WriteSane

\* The medium after a device write of a set, from entry done to entry done2.
LEMMA WrittenPiece ==
  ASSUME EntriesInv, task.op = "write", NEW done2 \in Nat,
         task.done <= done2, done2 <= task.n,
         NEW t, t = Written(slot, task.at + task.done, task.at + done2)
  PROVE  /\ t \in Seq(Cell) /\ Len(t) = Len(slot)
         /\ Confined(slot, t, task.f, task.at, task.n)
         /\ OnlyIn(t, task.f, task.at, done2)
         /\ OwnCells(t, task.f, task.at, done2, task.n)
         /\ task.f \notin hurt => WholeCells(t, task.f, task.at, done2, task.n)
         /\ Uniform(t)
<1> DEFINE f == task.f
           a == task.at
           n == task.n
           d == task.done
<1>1. /\ task \in WriteTask /\ f \in Files /\ a \in Nat /\ n \in Nat /\ d \in Nat
      /\ WriteSane(slot, node, hurt, task)
  BY WriteTypes
<1>2. slot \in Seq(Cell) /\ Len(slot) \in Nat
  BY LenProperties DEF EntriesInv, SlotsType
<1>3. OnlyIn(slot, f, a, d) /\ OwnCells(slot, f, a, d, n) /\ (f \notin hurt => WholeCells(slot, f, a, d, n))
  BY <1>1 DEF WriteSane
<1>4. /\ t \in Seq(Cell) /\ Len(t) = Len(slot)
      /\ \A i \in 1..Len(slot) :
           t[i] = IF a + d < i /\ i <= a + done2 THEN Content(i - a) ELSE slot[i]
  <2> DEFINE from == a + d
             to == a + done2
  <2>1. from \in Nat /\ to \in Nat /\ task.at <= from
    BY <1>1
  <2>2. t = Written(slot, from, to)
    OBVIOUS
  <2> HIDE DEF from, to
  <2>3. /\ t \in Seq(Cell) /\ Len(t) = Len(slot)
        /\ \A i \in 1..Len(slot) : t[i] = IF from < i /\ i <= to THEN Content(i - task.at) ELSE slot[i]
    BY <1>1, <1>2, <2>1, <2>2, WrittenEffect
  <2> QED
    BY <2>3 DEF from, to
<1>5. ASSUME NEW i \in 1..Len(slot), a + d < i, i <= a + done2
      PROVE  t[i] = Entry(f, i - a, n) \/ (f \in hurt /\ t[i] = Free)
  <2>1. i - a \in Nat /\ i - a > 0
    BY <1>1, <1>2, <1>5
  <2> QED
    BY <1>4, <1>5, <2>1, ContentIs
<1> HIDE DEF f, a, n, d
<1>6. \A i \in 1..Len(slot) :
        \/ t[i] = slot[i] /\ ~(a + d < i /\ i <= a + done2)
        \/ a + d < i /\ i <= a + done2 /\ (t[i] = Entry(f, i - a, n) \/ (f \in hurt /\ t[i] = Free))
  BY <1>4, <1>5
<1>7. d <= done2 /\ done2 <= n
  BY DEF d, n
<1>8. Confined(slot, t, f, a, n)
  <2> SUFFICES ASSUME NEW i \in 1..Len(slot)
               PROVE  \/ t[i] = slot[i]
                      \/ a < i /\ i <= a + n /\ (t[i].kind = "file" => t[i].f = f)
    BY <1>4 DEF Confined
  <2>1. CASE a + d < i /\ i <= a + done2
    <3>1. a < i /\ i <= a + n
      BY <1>1, <1>2, <1>7, <2>1 DEF a, n, d
    <3>2. t[i].kind = "file" => t[i].f = f
      <4>1. t[i] = Entry(f, i - a, n) \/ t[i] = Free
        BY <1>6, <2>1
      <4>2. Entry(f, i - a, n).f = f /\ Free.kind # "file"
        BY DEF Entry, Free
      <4> QED
        BY <4>1, <4>2
    <3> QED
      BY <3>1, <3>2
  <2> QED
    BY <1>6, <2>1
<1>9. OnlyIn(t, f, a, done2)
  <2> SUFFICES ASSUME NEW i \in 1..Len(slot), IsOf(t, i, f) PROVE a < i /\ i <= a + done2
    BY <1>4 DEF OnlyIn
  <2>1. CASE t[i] = slot[i]
    <3>1. a < i /\ i <= a + d
      BY <1>3, <2>1 DEF OnlyIn, IsOf, f, a, d
    <3> QED
      BY <1>1, <1>2, <1>7, <3>1 DEF a, n, d
  <2>2. CASE a + d < i /\ i <= a + done2
    BY <1>1, <1>2, <2>2 DEF a, d
  <2> QED
    BY <1>6, <2>1, <2>2
<1>10. ASSUME NEW i \in 1..Len(slot), a < i, i <= a + done2
       PROVE  t[i] = Entry(f, i - a, n) \/ t[i] = Free
  <2>1. CASE i <= a + d
    BY <1>1, <1>2, <1>3, <1>6, <1>10, <2>1 DEF OwnCells, f, a, n, d
  <2>2. CASE ~(i <= a + d)
    BY <1>1, <1>2, <1>6, <1>10, <2>2 DEF a, d
  <2> QED
    BY <2>1, <2>2
<1>11. ASSUME NEW i \in 1..Len(slot), a < i, i <= a + done2, f \notin hurt
       PROVE  t[i] = Entry(f, i - a, n)
  <2>1. CASE i <= a + d
    BY <1>1, <1>2, <1>3, <1>6, <1>11, <2>1 DEF WholeCells, f, a, n, d
  <2>2. CASE ~(i <= a + d)
    BY <1>1, <1>2, <1>6, <1>11, <2>2 DEF a, d
  <2> QED
    BY <2>1, <2>2
<1>12. OwnCells(t, f, a, done2, n)
  BY <1>4, <1>10 DEF OwnCells
<1>13. f \notin hurt => WholeCells(t, f, a, done2, n)
  BY <1>4, <1>11 DEF WholeCells
<1>14. Uniform(t)
  <2>1. f \in Files /\ a \in Nat /\ n \in Nat /\ Uniform(slot)
    BY <1>1 DEF f, a, n, EntriesInv
  <2> QED
    BY <1>2, <1>4, <1>8, <1>9, <1>12, <2>1, UniformWritten
<1> QED
  BY <1>4, <1>8, <1>9, <1>12, <1>13, <1>14 DEF f, a, n

\* write_entries() writes the next piece of the set, or fails, which only the
\* one of a new file may do.
LEMMA WriteStepStep ==
  ASSUME "rename" \notin Faults, EntriesInv, WriteStep
  PROVE  EntriesInv'
<1> DEFINE f == task.f
           from == task.at + task.done
           to == Piece(from, task.n - task.done)
<1>1. task.op = "write" /\ task.done < task.n /\ root' = root /\ node' = node
  BY DEF WriteStep
<1>2. /\ task \in WriteTask /\ f \in Files /\ task.at \in Nat /\ task.done \in Nat
      /\ task.n \in Nat /\ task.n > 2 /\ task.head \in Seq(Cell)
      /\ Writing(task) = {f} /\ Erasing(task) = {}
      /\ WriteSane(slot, node, hurt, task)
  BY <1>1, WriteTypes
<1>3. SlotsType /\ slot \in Seq(Cell) /\ Len(slot) \in Nat
  BY LenProperties DEF EntriesInv, SlotsType
<1>4. to \in Nat /\ from < to /\ to <= task.at + task.n /\ from \in Nat
  <2>1. from \in Nat /\ task.n - task.done \in Nat /\ task.n - task.done > 0
    BY <1>1, <1>2
  <2>2. to \in Nat /\ from < to /\ to <= from + (task.n - task.done)
    BY <2>1, PieceWithin
  <2> QED
    BY <1>2, <2>1, <2>2
<1>5. \/ /\ slot' = Written(slot, from, to)
         /\ task' = [task EXCEPT !.done = to - task.at]
         /\ hurt' = hurt
      \/ /\ task.head = <<>>
         /\ slot' \in {slot, Written(slot, from, to)}
         /\ task' = NoTask
         /\ hurt' = hurt \cup {f}
  BY DEF WriteStep
<1> DEFINE done2 == to - task.at
<1>6. /\ done2 \in Nat /\ task.done <= done2 /\ done2 <= task.n
      /\ to = task.at + done2 /\ from = task.at + task.done
  BY <1>2, <1>4
<1> HIDE DEF from, to, done2
<1>7. /\ slot' \in Seq(Cell) /\ Len(slot') = Len(slot) /\ Len(slot') \in Nat
      /\ Confined(slot, slot', f, task.at, task.n)
      /\ Uniform(slot')
      /\ slot' = Written(slot, from, to) =>
           /\ OnlyIn(slot', f, task.at, done2)
           /\ OwnCells(slot', f, task.at, done2, task.n)
           /\ f \notin hurt => WholeCells(slot', f, task.at, done2, task.n)
  <2>1. CASE slot' = Written(slot, from, to)
    <3>1. slot' = Written(slot, task.at + task.done, task.at + done2)
      BY <1>6, <2>1
    <3> QED
      BY <1>1, <1>3, <1>6, <3>1, WrittenPiece
  <2>2. CASE slot' # Written(slot, from, to)
    <3>1. slot' = slot
      BY <1>5, <2>2
    <3> QED
      BY <1>3, <2>2, <3>1 DEF Confined, EntriesInv
  <2> QED
    BY <2>1, <2>2
<1>8. Reserved(node, Len(slot), f, task.at, task.n)
  BY <1>1, <1>2 DEF WriteSane
<1>9. SteadyAll(slot, slot', node, {f})
  <2> HIDE DEF f
  <2>1. task.n > 0
    BY <1>2
  <2> QED
    BY <1>2, <1>3, <1>7, <1>8, <2>1, ConfinedSteady
<1>10. /\ \A g \in Live(node') \ {f} : Kept(slot', node', hurt', task', g)
       /\ \A g \in Files \ (Live(node') \cup hurt' \cup {f}) : OnlyIn(slot', g, 0, 0)
  <2> HIDE DEF f
  <2>1. /\ {f} \in SUBSET Files /\ hurt \subseteq hurt' /\ hurt' \subseteq hurt \cup {f}
        /\ Writing(task) \subseteq {f} /\ Erasing(task) \subseteq {f}
    BY <1>2, <1>5
  <2>2. \A g \in Files \ {f} : node'[g] = node[g]
    BY <1>1
  <2> QED
    BY <1>7, <1>9, <2>1, <2>2, OthersStep
<1>11. Placed(node', Len(slot'))
  BY <1>1, <1>7 DEF EntriesInv
<1>12. CASE /\ slot' = Written(slot, from, to)
            /\ task' = [task EXCEPT !.done = to - task.at]
            /\ hurt' = hurt
  <2>1. /\ task' \in WriteTask
        /\ task'.op = "write" /\ task'.f = f /\ task'.done = done2
        /\ task'.at = task.at /\ task'.n = task.n /\ task'.head = task.head
    BY <1>2, <1>6, <1>12 DEF WriteTask, done2
  <2>2. SlotsType'
    BY <1>1, <1>3, <1>7, <1>12, <2>1 DEF SlotsType
  <2>3. Writing(task') = {f}
    BY <2>1 DEF Writing
  <2>4. EraseSane(slot', node', hurt', task')
    BY <2>1 DEF EraseSane
  <2>5. WriteSane(slot', node', hurt', task')
    <3>1. Reserved(node', Len(slot'), f, task.at, task.n)
      BY <1>1, <1>7, <1>8
    <3>2. \/ task.head = <<>> /\ f \notin Live(node') /\ f \notin hurt'
          \/ /\ HeadOf(task'.head, task'.f, task'.f \notin hurt')
             /\ f \in Live(node') /\ node'[f].at = task.at /\ node'[f].n = task.n
      <4>1. CASE HeadOf(task.head, f, f \notin hurt)
        <5>1. HeadOf(task'.head, task'.f, task'.f \notin hurt')
          <6>1. task'.head = task.head /\ task'.f = f /\ hurt' = hurt
            BY <1>12, <2>1
          <6> QED
            BY <4>1, <6>1, Zenon
        <5> QED
          BY <1>1, <1>2, <1>12, <5>1 DEF WriteSane
      <4> QED
        BY <1>1, <1>2, <1>12, <4>1 DEF WriteSane
    <3> HIDE DEF f
    <3> QED
      BY <1>6, <1>7, <1>12, <2>1, <3>1, <3>2 DEF WriteSane
  <2> QED
    BY <1>7, <1>10, <1>11, <2>2, <2>3, <2>4, <2>5 DEF EntriesInv
<1>13. CASE task.head = <<>> /\ task' = NoTask /\ hurt' = hurt \cup {f}
  <2>1. SlotsType'
    BY <1>1, <1>2, <1>3, <1>7, <1>13 DEF SlotsType
  <2>2. Writing(task') = {}
    BY <1>13 DEF Writing, NoTask
  <2>3. f \notin Live(node')
    <3>1. ~HeadOf(task.head, task.f, task.f \notin hurt)
      BY <1>13 DEF HeadOf
    <3> QED
      BY <1>1, <1>2, <3>1 DEF WriteSane
  <2>4. WriteSane(slot', node', hurt', task') /\ EraseSane(slot', node', hurt', task')
    BY <1>13 DEF WriteSane, EraseSane, NoTask
  <2>5. \A g \in Live(node') : Kept(slot', node', hurt', task', g)
    BY <1>10, <2>3
  <2>6. \A g \in Files \ (Live(node') \cup hurt') : OnlyIn(slot', g, 0, 0)
    BY <1>10, <1>13
  <2> QED
    BY <1>7, <1>11, <2>1, <2>2, <2>4, <2>5, <2>6 DEF EntriesInv
<1> QED
  BY <1>5, <1>12, <1>13

\* All of the set is written: the node is made, or has its new name.
LEMMA WriteEndStep ==
  ASSUME EntriesInv, WriteEnd
  PROVE  EntriesInv'
<1> DEFINE f == task.f
           x == [at |-> task.at, n |-> task.n, name |-> task.n]
<1>1. /\ task.op = "write" /\ task.done = task.n
      /\ node' = [node EXCEPT ![f] = x]
      /\ task' \in {NoTask, [op |-> "flush", f |-> f]}
      /\ root' = root /\ slot' = slot /\ hurt' = hurt
  BY DEF WriteEnd
<1>2. /\ f \in Files /\ task.at \in Nat /\ task.n \in Nat /\ task.n \in Lengths
      /\ Writing(task) = {f} /\ Erasing(task) = {}
      /\ WriteSane(slot, node, hurt, task)
  BY <1>1, WriteTypes
<1>3. SlotsType /\ slot \in Seq(Cell) /\ Len(slot) \in Nat
  BY LenProperties DEF EntriesInv, SlotsType
<1>4. /\ Reserved(node, Len(slot), f, task.at, task.n)
      /\ OnlyIn(slot, f, task.at, task.n)
      /\ OwnCells(slot, f, task.at, task.n, task.n)
      /\ f \notin hurt => WholeCells(slot, f, task.at, task.n, task.n)
  BY <1>1, <1>2 DEF WriteSane
<1>5. x \in Node /\ x.at = task.at /\ x.n = task.n /\ x.name = task.n /\ x # NoNode
  BY <1>2 DEF Node, NoNode
<1>0. /\ task' \in {NoTask} \cup FlushTask /\ task'.op \in {"none", "flush"}
  BY <1>1, <1>2 DEF NoTask, FlushTask
<1> HIDE DEF f, x
<1>6. /\ node'[f] = x /\ node' \in [Files -> Node \cup {NoNode}]
      /\ Live(node') = Live(node) \cup {f}
      /\ \A g \in Files \ {f} : node'[g] = node[g]
  BY <1>1, <1>2, <1>3, <1>5 DEF SlotsType, Live
<1>7. Placed(node', Len(slot'))
  <2>1. Placed(node, Len(slot)) /\ node \in [Files -> Node \cup {NoNode}]
    BY <1>3 DEF EntriesInv, SlotsType
  <2>2. node'[f].at = task.at /\ node'[f].n = task.n
    BY <1>5, <1>6
  <2>3. Placed(node', Len(slot))
    BY <1>2, <1>3, <1>4, <1>6, <2>1, <2>2, PlacedAt
  <2> QED
    BY <1>1, <2>3
<1>8. /\ \A g \in Live(node') \ {f} : Kept(slot', node', hurt', task', g)
      /\ \A g \in Files \ (Live(node') \cup hurt' \cup {f}) : OnlyIn(slot', g, 0, 0)
  <2>1. /\ {f} \in SUBSET Files /\ hurt \subseteq hurt' /\ hurt' \subseteq hurt \cup {f}
        /\ Writing(task) \subseteq {f} /\ Erasing(task) \subseteq {f}
    BY <1>1, <1>2
  <2>2. slot' \in Seq(Cell) /\ SteadyAll(slot, slot', node, {f})
    BY <1>1, <1>3 DEF SteadyAll, Steady
  <2>3. \A g \in Files \ {f} : node'[g] = node[g]
    BY <1>6
  <2> QED
    BY <2>1, <2>2, <2>3, OthersStep
<1>9. Kept(slot', node', hurt', task', f)
  <2>1. /\ node'[f].at = task.at /\ node'[f].n = task.n /\ node'[f].name = task.n
        /\ slot' = slot /\ hurt' = hurt
    BY <1>1, <1>5, <1>6
  <2> QED
    BY <1>4, <2>1 DEF Kept
<1>10. SlotsType'
  BY <1>0, <1>1, <1>3, <1>6 DEF SlotsType
<1>11. WriteSane(slot', node', hurt', task') /\ EraseSane(slot', node', hurt', task')
  BY <1>0 DEF WriteSane, EraseSane
<1>12. Uniform(slot')
  BY <1>1 DEF EntriesInv
<1>13. /\ \A g \in Live(node') : Kept(slot', node', hurt', task', g)
       /\ \A g \in Files \ (Live(node') \cup hurt') : OnlyIn(slot', g, 0, 0)
  BY <1>6, <1>8, <1>9
<1> QED
  BY <1>7, <1>10, <1>11, <1>12, <1>13 DEF EntriesInv

\* Where exfat_set_label() writes: at a label, or in a free place, in a
\* directory that does not get shorter.
LabelPlace(at, len) ==
  /\ at \in Nat /\ len \in Nat /\ at < len /\ Len(slot) <= len
  /\ \/ at < Len(slot) /\ slot[at + 1] = Label
     \/ /\ \A j \in Offsets : At(j) # Label
        /\ at = FindSlot(1).at
        /\ \A g \in Live(node) : Apart(at, 1, node[g].at, node[g].n)

\* exfat_set_label() finds such a place.
LEMMA SetLabelEffect ==
  ASSUME EntriesInv, NEW on \in BOOLEAN, SetLabel(on)
  PROVE  \E at, len \in Nat : /\ LabelPlace(at, len)
                               /\ slot' = [Resized(slot, len) EXCEPT ![at + 1] = IF on THEN Label ELSE Free]
<1> DEFINE there == {i \in Offsets : At(i) = Label}
           at == IF there # {} THEN CHOOSE i \in there : \A j \in there : i <= j
                 ELSE FindSlot(1).at
           len == IF there # {} THEN Len(slot) ELSE FindSlot(1).size
<1>1. slot' = [Resized(slot, len) EXCEPT ![at + 1] = IF on THEN Label ELSE Free]
  BY DEF SetLabel
<1>2. SlotsType /\ slot \in Seq(Cell) /\ Len(slot) \in Nat
  BY LenProperties DEF EntriesInv, SlotsType
<1>3. CASE there # {}
  <2>1. there \in SUBSET Nat
    BY <1>2 DEF Offsets
  <2>2. \E i \in there : \A j \in there : i <= j
    <3> HIDE DEF there
    <3> QED
      BY <1>3, <2>1, LeastNatural
  <2>3. at \in there
    BY <1>3, <2>2
  <2>4. at \in Nat /\ at < Len(slot) /\ slot[at + 1] = Label
    <3>1. at \in Offsets /\ At(at) = Label
      BY <2>3
    <3> HIDE DEF at, there
    <3> QED
      BY <1>2, <3>1 DEF Offsets, At
  <2>5. len = Len(slot)
    BY <1>3
  <2> HIDE DEF there, at, len
  <2>6. LabelPlace(at, len)
    BY <1>2, <2>4, <2>5 DEF LabelPlace
  <2> QED
    BY <1>1, <1>2, <2>4, <2>5, <2>6
<1>4. CASE there = {}
  <2>1. at = FindSlot(1).at /\ len = FindSlot(1).size
    BY <1>4
  <2>2. \A j \in Offsets : At(j) # Label
    BY <1>4
  <2> HIDE DEF there, at, len
  <2>3. at \in Nat /\ len \in Nat /\ at + 1 <= len /\ Len(slot) <= len
    BY <1>2, <2>1, FindSlotEffect
  <2>4. \A g \in Live(node) : Apart(at, 1, node[g].at, node[g].n)
    BY <2>1, FoundApart
  <2>5. LabelPlace(at, len)
    BY <2>1, <2>2, <2>3, <2>4 DEF LabelPlace
  <2> QED
    BY <1>1, <2>3, <2>5
<1> QED
  BY <1>3, <1>4

\* The label is an entry.
LEMMA LabelType == Label \in Cell /\ Free \in Cell
  BY DEF Cell, Label, Special

\* What a change of the label leaves of each entry.
LEMMA LabelCells ==
  ASSUME slot \in Seq(Cell), NEW on \in BOOLEAN, NEW at \in Nat, NEW len \in Nat,
         LabelPlace(at, len),
         slot' = [Resized(slot, len) EXCEPT ![at + 1] = IF on THEN Label ELSE Free]
  PROVE  /\ slot' \in Seq(Cell) /\ Len(slot') = len /\ Len(slot) \in Nat
         /\ slot'[at + 1] \in {Label, Free}
         /\ \A i \in 1..len : i # at + 1 => slot'[i] = IF i <= Len(slot) THEN slot[i] ELSE Free
<1> DEFINE c == IF on THEN Label ELSE Free
           r == Resized(slot, len)
<1>1. /\ r \in Seq(Cell) /\ Len(r) = len
      /\ \A i \in 1..len : r[i] = IF i <= Len(slot) THEN slot[i] ELSE Free
  BY ResizedEffect
<1>2. c \in Cell /\ c \in {Label, Free}
  BY LabelType
<1>3. at + 1 \in 1..Len(r) /\ Len(slot) \in Nat
  BY <1>1, LenProperties DEF LabelPlace
<1> HIDE DEF c, r
<1>4. slot' = [r EXCEPT ![at + 1] = c]
  BY DEF c, r
<1>5. slot' \in Seq(Cell) /\ Len(slot') = Len(r)
  <2>1. r \in [1..len -> Cell] /\ len \in Nat
    BY <1>1, LenProperties
  <2>2. slot' \in [1..len -> Cell]
    BY <1>2, <1>4, <2>1
  <2> QED
    BY ZenonT(30), <1>1, <2>1, <2>2, LengthOf
<1>6. slot'[at + 1] = c /\ \A i \in 1..len : i # at + 1 => slot'[i] = r[i]
  BY <1>1, <1>3, <1>4
<1> QED
  BY <1>1, <1>2, <1>3, <1>5, <1>6

\* exfat_set_label() touches no file.
LEMMA SetLabelStep ==
  ASSUME EntriesInv, NEW on \in BOOLEAN, SetLabel(on)
  PROVE  EntriesInv'
<1>1. /\ Idle /\ root' = root /\ node' = node /\ hurt' = hurt /\ task' = task
  BY DEF SetLabel
<1>2. PICK at, len \in Nat : /\ LabelPlace(at, len)
                              /\ slot' = [Resized(slot, len) EXCEPT ![at + 1] = IF on THEN Label ELSE Free]
  BY SetLabelEffect
<1>3. SlotsType /\ slot \in Seq(Cell) /\ Writing(task) = {} /\ Erasing(task) = {}
  BY <1>1 DEF EntriesInv, SlotsType, Idle, Writing, Erasing
<1>4. /\ slot' \in Seq(Cell) /\ Len(slot') = len /\ Len(slot) \in Nat
      /\ slot'[at + 1] \in {Label, Free}
      /\ \A i \in 1..len : i # at + 1 => slot'[i] = IF i <= Len(slot) THEN slot[i] ELSE Free
  BY <1>2, <1>3, LabelCells
<1>5. len \in Nat /\ at \in Nat /\ at < len /\ Len(slot) <= len
  BY <1>2 DEF LabelPlace
<1>6. slot'[at + 1].kind # "file" /\ Free.kind # "file" /\ Label # Free /\ Label.kind = "special"
  BY <1>4 DEF Label, Special, Free
<1>7. \A i \in 1..Len(slot') : (i <= Len(slot) /\ slot'[i] = slot[i]) \/ slot'[i].kind # "file"
  BY <1>4, <1>6
<1>8. ASSUME NEW g \in Live(node)
      PROVE  ~(node[g].at < at + 1 /\ at + 1 <= node[g].at + node[g].n)
  <2>1. /\ g \in Files /\ node[g].at \in Nat /\ node[g].n \in Nat
        /\ node[g].at + node[g].n <= Len(slot)
    BY <1>3, NodeTypes DEF EntriesInv, Placed, Live
  <2>2. CASE at < Len(slot) /\ slot[at + 1] = Label
    <3>1. OwnCells(slot, g, node[g].at, node[g].n, node[g].n)
      BY <1>3 DEF EntriesInv, Kept
    <3> DEFINE i == at + 1
    <3>2. i \in 1..Len(slot) /\ slot[i] # Free /\ slot[i] = Label
      BY <1>4, <1>5, <1>6, <2>2
    <3>3. slot[i] # Entry(g, i - node[g].at, node[g].n)
      BY <3>2 DEF Entry, Label, Special
    <3> SUFFICES ~(node[g].at < i /\ i <= node[g].at + node[g].n)
      OBVIOUS
    <3> HIDE DEF i
    <3> QED
      BY <3>1, <3>2, <3>3 DEF OwnCells
  <2>3. CASE Apart(at, 1, node[g].at, node[g].n)
    BY <1>5, <2>1, <2>3 DEF Apart
  <2> QED
    BY <1>2, <2>2, <2>3 DEF LabelPlace
<1>9. SteadyAll(slot, slot', node, {})
  <2> SUFFICES ASSUME NEW g \in Files, NEW i \in 1..Len(slot'),
                      ~(i <= Len(slot) /\ slot'[i] = slot[i])
               PROVE  /\ ~(node[g].at < i /\ i <= node[g].at + node[g].n)
                      /\ ~IsOf(slot', i, g)
    BY DEF SteadyAll, Steady
  <2>1. ~IsOf(slot', i, g)
    BY <1>7 DEF IsOf
  <2>2. i \in Nat /\ (i = at + 1 \/ i > Len(slot))
    BY <1>4, <1>5
  <2>3. CASE g \in Live(node)
    <3>1. node[g].at \in Nat /\ node[g].n \in Nat /\ node[g].at + node[g].n <= Len(slot)
      BY <1>3, <2>3, NodeTypes DEF EntriesInv, Placed
    <3>2. i > Len(slot) => ~(i <= node[g].at + node[g].n)
      BY <1>4, <2>2, <3>1
    <3> QED
      BY <1>8, <2>1, <2>2, <2>3, <3>2
  <2>4. CASE g \notin Live(node)
    BY <1>3, <2>1, <2>2, <2>4, NodeTypes
  <2> QED
    BY <2>3, <2>4
<1>10. /\ \A g \in Live(node') : Kept(slot', node', hurt', task', g)
       /\ \A g \in Files \ (Live(node') \cup hurt') : OnlyIn(slot', g, 0, 0)
  BY <1>1, <1>3, <1>4, <1>9, OthersStep
<1>11. Uniform(slot')
  BY <1>4, <1>5, <1>7, UniformKept DEF EntriesInv
<1>12. Placed(node', Len(slot'))
  <2>1. \A g \in Live(node) : node[g].at \in Nat /\ node[g].n \in Nat
    BY <1>3, NodeTypes DEF Live
  <2>2. Placed(node, Len(slot))
    BY DEF EntriesInv
  <2> QED
    BY <1>1, <1>4, <1>5, <2>1, <2>2 DEF Placed
<1>13. SlotsType'
  BY <1>1, <1>3, <1>4 DEF SlotsType
<1>14. WriteSane(slot', node', hurt', task') /\ EraseSane(slot', node', hurt', task')
  BY <1>1 DEF WriteSane, EraseSane, Idle
<1> QED
  BY <1>10, <1>11, <1>12, <1>13, <1>14 DEF EntriesInv

-----------------------------------------------------------------------------
(* The entries of files *)

\* An empty directory, or the root with its special entries.
LEMMA EntriesInit == Init => EntriesInv
<1> SUFFICES ASSUME Init PROVE EntriesInv
  OBVIOUS
<1>1. ClusterSlots \in Nat /\ Layout \in Seq(Cell) /\ Len(Layout) \in Nat
  BY SlotsNumbers, LenProperties
<1>2. \A i \in 1..Len(Layout) : Layout[i] \in Cell /\ Layout[i].kind # "file"
  <2>1. \A i \in 1..Len(Layout) : Layout[i] \in [kind: {"special"}, s: STRING] \cup {Free}
    BY SlotsAssumption, ElementOfSeq
  <2> QED
    BY <2>1 DEF Cell, Free
<1>3. \A i \in 1..ClusterSlots :
        (IF root /\ i <= Len(Layout) THEN Layout[i] ELSE Free) \in {c \in Cell : c.kind # "file"}
  BY <1>1, <1>2 DEF Cell, Free
<1>4. slot \in [1..ClusterSlots -> {c \in Cell : c.kind # "file"}]
  BY <1>3 DEF Init
<1>5. slot \in [1..ClusterSlots -> Cell]
  BY <1>4
<1>6. slot \in Seq(Cell) /\ Len(slot) = ClusterSlots
  BY <1>1, <1>5, LengthOf, Zenon
<1>7. \A i \in 1..Len(slot) : slot[i].kind # "file"
  BY <1>4, <1>6
<1>8. Live(node) = {} /\ Writing(task) = {} /\ task = NoTask
  BY DEF Init, Live, Writing, NoTask
<1>9. SlotsType
  BY <1>6, <1>8 DEF Init, SlotsType
<1>10. Uniform(slot) /\ \A f \in Files : OnlyIn(slot, f, 0, 0)
  BY <1>7 DEF Uniform, OnlyIn, IsOf
<1>11. Placed(node, Len(slot))
  BY <1>8 DEF Placed
<1>12. WriteSane(slot, node, hurt, task) /\ EraseSane(slot, node, hurt, task)
  BY <1>8 DEF WriteSane, EraseSane, NoTask
<1> QED
  BY <1>8, <1>9, <1>10, <1>11, <1>12 DEF EntriesInv

\* Every call and every device write of it keeps the entries in order.
LEMMA EntriesStep ==
  ASSUME "rename" \notin Faults
  PROVE  EntriesInv /\ [Next]_vars => EntriesInv'
<1> SUFFICES ASSUME EntriesInv, [Next]_vars PROVE EntriesInv'
  OBVIOUS
<1>1. CASE EraseEnd
  <2>1. task.then \in {"delete", "rename"}
    BY <1>1, EraseTypes DEF EraseEnd
  <2> QED
    BY <1>1, <2>1, DeleteEndStep, RenameEndStep
<1>2. CASE UNCHANGED vars
  BY <1>2 DEF vars, EntriesInv, SlotsType
<1> QED
  BY <1>1, <1>2, CreateStep, DeleteStep, RenameStep, EraseStepStep, WriteStepStep,
     ShrinkStep, FlushStep, WriteEndStep, SetLabelStep DEF Next

-----------------------------------------------------------------------------
(* The size of a directory other than the root *)

\* The sets of files that are not being changed lie within the size that the
\* directory has on the medium.
OthersFit ==
  \A f \in Live(node) : f \notin hurt /\ (Idle \/ task.f # f) => node[f].at + node[f].n <= size

\* The size is that of the clusters between two calls, if no write has failed,
\* and in a call that has flushed the directory since it last grew.
SizeExact ==
  \/ Idle /\ hurt = {}
  \/ task.op = "shrink"
  \/ task.op = "write" /\ task.head # <<>>
  => size = Len(slot)

SizeInv ==
  /\ EntriesInv
  /\ size \in Nat
  /\ ~root => OthersFit /\ SizeExact /\ SizeFits

\* A new directory has one cluster.
LEMMA SizeInit == Init => SizeInv
<1> SUFFICES ASSUME Init PROVE SizeInv
  OBVIOUS
<1>1. EntriesInv /\ size = ClusterSlots /\ size \in Nat
  BY EntriesInit, SlotsNumbers DEF Init
<1>2. Live(node) = {}
  BY DEF Init, Live
<1>3. Len(slot) = ClusterSlots
  <2>1. slot \in Seq(Cell) /\ DOMAIN slot = 1..ClusterSlots
    BY <1>1 DEF Init, EntriesInv, SlotsType
  <2>2. Len(slot) \in Nat /\ 1..Len(slot) = 1..ClusterSlots
    BY <2>1, LenProperties
  <2> QED
    BY <2>2, SlotsNumbers
<1> QED
  BY <1>1, <1>2, <1>3 DEF SizeInv, OthersFit, SizeExact, SizeFits, Size

\* A step after which the size is that of the clusters.
LEMMA SizeFlushed ==
  ASSUME EntriesInv', size' = Len(slot')
  PROVE  SizeInv'
<1>1. Len(slot') \in Nat /\ Placed(node', Len(slot'))
  BY LenProperties DEF EntriesInv, SlotsType
<1>2. OthersFit'
  BY <1>1 DEF OthersFit, Placed
<1>3. SizeExact'
  BY DEF SizeExact
<1>4. SizeFits'
  BY <1>1 DEF SizeFits, Size
<1> QED
  BY <1>1, <1>2, <1>3, <1>4 DEF SizeInv

\* A call that begins may make the directory grow, not its size on the medium.
LEMMA SizeBegins ==
  ASSUME SizeInv, EntriesInv', NEW f \in Files,
         Delete(f) \/ \E n \in Lengths : Create(f, n) \/ Rename(f, n)
  PROVE  SizeInv'
<1>1. /\ Idle /\ node' = node /\ hurt' = hurt /\ size' = size /\ root' = root
      /\ task'.op = "erase" \/ (task'.op = "write" /\ task'.head = <<>>)
  BY DEF Delete, Create, Rename
<1>2. Len(slot) \in Nat /\ Len(slot') \in Nat /\ Len(slot) <= Len(slot')
  <2>1. SlotsType /\ slot' \in Seq(Cell)
    BY DEF SizeInv, EntriesInv, SlotsType
  <2>2. Len(slot) \in Nat /\ Len(slot') \in Nat
    BY <2>1, LenProperties DEF SlotsType
  <2>3. CASE slot' = slot
    BY <2>2, <2>3
  <2>4. ASSUME NEW n \in Lengths, Room(n) PROVE Len(slot) <= Len(slot')
    <3>1. n \in Nat /\ n > 0
      BY SlotsNumbers
    <3>2. FindSlot(n).size \in Nat /\ Len(slot) <= FindSlot(n).size
      BY <2>1, <3>1, FindSlotEffect
    <3>3. slot' = Resized(slot, FindSlot(n).size) /\ slot \in Seq(Cell)
      BY <2>1, <2>4 DEF Room, SlotsType
    <3>4. Len(slot') = FindSlot(n).size
      BY <3>2, <3>3, ResizedEffect
    <3> QED
      BY <3>2, <3>4
  <2> QED
    BY <2>2, <2>3, <2>4 DEF Delete, Create, Rename
<1>3. SizeExact'
  BY <1>1 DEF SizeExact, Idle
<1>4. ASSUME ~root PROVE OthersFit'
  BY <1>1, <1>4 DEF SizeInv, OthersFit
<1>5. ASSUME ~root PROVE SizeFits'
  <2>1. hurt = {} => size = Len(slot)
    BY <1>1, <1>5 DEF SizeInv, SizeExact
  <2> QED
    BY <1>1, <1>2, <2>1 DEF SizeFits, Size, SizeInv
<1> QED
  BY <1>1, <1>3, <1>4, <1>5 DEF SizeInv

\* A device write of a set, or its failure, changes neither the clusters of the
\* directory nor its size.
LEMMA SizeWrites ==
  ASSUME SizeInv, EntriesInv', EraseStep \/ WriteStep
  PROVE  SizeInv'
<1>1. /\ task.op \in {"erase", "write"} /\ node' = node /\ size' = size /\ root' = root
      /\ \/ /\ task'.op = task.op /\ task'.f = task.f /\ hurt' = hurt
            /\ task.op = "write" => task'.head = task.head
         \/ task' = NoTask /\ hurt' = hurt \cup {task.f}
  <2>1. CASE EraseStep
    <3>1. task \in DeleteTask \cup RenameTask
      BY <2>1, EraseTypes DEF SizeInv, EraseStep
    <3> QED
      BY <2>1, <3>1 DEF EraseStep, DeleteTask, RenameTask
  <2>2. CASE WriteStep
    <3>1. task \in WriteTask
      BY <2>2, WriteTypes DEF SizeInv, WriteStep
    <3> QED
      BY <2>2, <3>1 DEF WriteStep, WriteTask
  <2> QED
    BY <2>1, <2>2
<1>2. Len(slot') = Len(slot)
  <2>1. slot \in Seq(Cell) /\ slot' \in Seq(Cell)
    BY DEF SizeInv, EntriesInv, SlotsType
  <2>2. Len(slot) \in Nat /\ Len(slot') \in Nat /\ DOMAIN slot = 1..Len(slot)
        /\ DOMAIN slot' = 1..Len(slot')
    BY <2>1, LenProperties
  <2>3. DOMAIN slot' = 1..Len(slot)
    BY <2>2 DEF EraseStep, WriteStep, Erased, Written
  <2>4. slot' \in [1..Len(slot) -> Cell]
    <3>1. slot' \in [1..Len(slot') -> Cell]
      BY <2>1, LenProperties
    <3>2. 1..Len(slot') = 1..Len(slot)
      BY <2>2, <2>3
    <3> QED
      BY <3>1, <3>2
  <2> QED
    BY <2>2, <2>4, LengthOf
<1>3. ASSUME ~root PROVE OthersFit'
  BY <1>1, <1>3 DEF SizeInv, OthersFit, Idle, NoTask
<1>4. ASSUME ~root PROVE SizeExact'
  <2>1. CASE task' = NoTask
    BY <1>1, <2>1 DEF SizeExact, NoTask
  <2> QED
    BY <1>1, <1>2, <1>4, <2>1 DEF SizeInv, SizeExact, Idle
<1>5. ASSUME ~root PROVE SizeFits'
  BY <1>1, <1>2, <1>5 DEF SizeInv, SizeFits, Size, NoTask
<1> QED
  BY <1>1, <1>3, <1>4, <1>5 DEF SizeInv

\* Cutting the directory, and flushing it.
LEMMA SizeCut ==
  ASSUME SizeInv, EntriesInv', Shrink \/ Flush
  PROVE  SizeInv'
<1>1. CASE Shrink
  <2>1. /\ task.op = "shrink" /\ task'.op = "flush" /\ task'.f = task.f
        /\ node' = node /\ hurt' = hurt /\ size' = size /\ root' = root
    BY <1>1 DEF Shrink
  <2>2. ASSUME ~root PROVE OthersFit'
    BY <2>1, <2>2 DEF SizeInv, OthersFit, Idle
  <2>3. SizeExact' /\ SizeFits'
    BY <2>1 DEF SizeExact, SizeFits, Idle
  <2> QED
    BY <2>1, <2>2, <2>3 DEF SizeInv
<1>2. CASE Flush /\ size' = Len(slot)
  <2>1. slot' = slot
    BY <1>2 DEF Flush
  <2> QED
    BY <1>2, <2>1, SizeFlushed
<1>3. CASE Flush /\ size' = size /\ hurt' = hurt \cup {task.f}
  <2>1. /\ task.op = "flush" /\ task' = NoTask /\ node' = node /\ root' = root
    BY <1>3 DEF Flush
  <2>2. ASSUME ~root PROVE OthersFit'
    BY <1>3, <2>1, <2>2 DEF SizeInv, OthersFit, Idle
  <2>3. SizeExact' /\ SizeFits'
    BY <1>3, <2>1 DEF SizeExact, SizeFits, NoTask
  <2> QED
    BY <1>3, <2>1, <2>2, <2>3 DEF SizeInv
<1> QED
  BY <1>1, <1>2, <1>3 DEF Flush

\* The end of a set's device writes: a rename has flushed the directory before,
\* create() is about to.
LEMMA SizeWritten ==
  ASSUME SizeInv, EntriesInv', WriteEnd
  PROVE  SizeInv'
<1>1. /\ task.op = "write" /\ size' = size /\ root' = root /\ slot' = slot /\ hurt' = hurt
      /\ \A f \in Files \ {task.f} : node'[f] = node[f]
  <2>1. node \in [Files -> Node \cup {NoNode}]
    BY DEF SizeInv, EntriesInv, SlotsType
  <2> QED
    BY <2>1 DEF WriteEnd
<1>2. CASE ~root /\ task.head # <<>>
  <2>1. size' = Len(slot')
    BY <1>1, <1>2 DEF SizeInv, SizeExact
  <2> QED
    BY <2>1, SizeFlushed
<1>3. CASE task.head = <<>>
  <2>1. task'.op = "flush" /\ task'.f = task.f
    BY <1>3 DEF WriteEnd
  <2>2. ASSUME ~root PROVE OthersFit'
    BY <1>1, <2>1, <2>2 DEF SizeInv, OthersFit, Idle, Live
  <2>3. SizeExact' /\ SizeFits'
    BY <2>1 DEF SizeExact, SizeFits, Idle
  <2> QED
    BY <1>1, <2>2, <2>3 DEF SizeInv
<1> QED
  BY <1>1, <1>2, <1>3 DEF SizeInv

\* Every step keeps the size in order.
LEMMA SizeStep ==
  ASSUME "rename" \notin Faults
  PROVE  SizeInv /\ [Next]_vars => SizeInv'
<1> SUFFICES ASSUME SizeInv, [Next]_vars PROVE SizeInv'
  OBVIOUS
<1>1. EntriesInv'
  BY EntriesStep DEF SizeInv
<1>2. CASE EraseEnd
  BY <1>1, <1>2, SizeFlushed DEF EraseEnd
<1>3. ASSUME NEW on \in BOOLEAN, SetLabel(on) PROVE SizeInv'
  BY <1>1, <1>3 DEF SetLabel, SizeInv
<1>4. CASE UNCHANGED vars
  BY <1>1, <1>4 DEF vars, SizeInv, OthersFit, SizeExact, SizeFits, Size, Idle
<1> QED
  BY <1>1, <1>2, <1>3, <1>4, SizeBegins, SizeWrites, SizeCut, SizeWritten DEF Next

\* As long as no write of a rename fails, whatever else does, and at whichever
\* moment the power is cut: every file that was not being changed is on the
\* medium whole, where its node says and within the size of the directory, no
\* file is there twice, and the directory claims clusters that it does not have
\* only while it is being cut, or after a write that failed.
THEOREM EntriesSoundHolds ==
  ASSUME "rename" \notin Faults
  PROVE  Spec => []EntriesSound
<1>1. SizeInv => EntriesSound
  <2> SUFFICES ASSUME SizeInv PROVE EntriesSound
    OBVIOUS
  <2> USE DEF SizeInv
  <2>0. SlotsType /\ Len(slot) \in Nat
    BY LenProperties DEF EntriesInv, SlotsType
  <2>1. OthersIntact
    <3> SUFFICES ASSUME NEW f \in Files, node[f] # NoNode, f \notin hurt,
                        Idle \/ task.f # f
                 PROVE  Good(f)
      BY DEF OthersIntact
    <3>1. f \in Live(node) /\ f \notin Writing(task) /\ f \notin Erasing(task)
      BY DEF Live, Writing, Erasing, Idle
    <3>2. WholeCells(slot, f, node[f].at, node[f].n, node[f].n)
      BY <3>1 DEF EntriesInv, Kept
    <3>3. node[f].at \in Nat /\ node[f].n \in Nat /\ node[f].at + node[f].n <= Len(slot)
      BY <2>0, <3>1, NodeTypes DEF EntriesInv, Placed
    <3>4. ASSUME NEW k \in 1..node[f].n
          PROVE  At(node[f].at + k - 1) = Entry(f, k, node[f].n)
      <4> DEFINE i == node[f].at + k
      <4>1. i \in 1..Len(slot) /\ node[f].at < i /\ i <= node[f].at + node[f].n
            /\ i - node[f].at = k /\ node[f].at + k - 1 + 1 = i
        BY SMTT(30), <2>0, <3>3
      <4> HIDE DEF i
      <4>2. slot[i] = Entry(f, k, node[f].n)
        BY <3>2, <4>1 DEF WholeCells
      <4> QED
        BY <4>1, <4>2 DEF At
    <3>5. node[f].at + node[f].n <= Size
      BY <3>1, <3>3 DEF Size, OthersFit
    <3> QED
      BY <3>3, <3>4, <3>5 DEF Good
  <2>2. NeverTwice
    <3> SUFFICES ASSUME NEW i \in Offsets, NEW j \in Offsets,
                        At(i).kind = "file", At(j).kind = "file",
                        At(i).k = 1, At(j).k = 1, At(i).f = At(j).f
                 PROVE  i = j
      BY DEF NeverTwice
    <3>1. i + 1 \in 1..Len(slot) /\ j + 1 \in 1..Len(slot)
      BY <2>0 DEF Offsets
    <3>2. slot[i + 1].k - (i + 1) = slot[j + 1].k - (j + 1)
      BY <3>1 DEF EntriesInv, Uniform, At
    <3> QED
      BY <2>0, <3>2 DEF At, Offsets
  <2>3. SizeFits
    BY <2>0 DEF SizeFits, Size
  <2> QED
    BY <2>1, <2>2, <2>3 DEF EntriesSound
<1> QED
  BY <1>1, SizeInit, SizeStep, PTL DEF Spec

-----------------------------------------------------------------------------
(* The special entries *)

\* The order in which mkexfatfs makes the entries of the root, a label or room
\* for one first, in a cluster that is large enough: behind the special entries
\* it has room for all entries of the longest name but one.
MkfsOrder ==
  /\ Len(Layout) >= 2
  /\ Layout[1] \in {Free, Label}
  /\ \A i \in 2..Len(Layout) : Layout[i].kind = "special" /\ Layout[i] # Label
  /\ \A n \in Lengths : Len(Layout) + n <= ClusterSlots + 1

\* The special entries are those of Layout, except that the label comes and
\* goes, and everything else lies behind them.
SpecialCells(r, s) ==
  /\ Len(s) >= ClusterSlots
  /\ \A i \in 1..Len(s) : s[i].kind = "special" => r /\ i <= Len(Layout)
  /\ r => /\ s[1] \in {Free, Label}
          /\ \A i \in 2..Len(Layout) : s[i] = Layout[i]

Behind(r, nodes, t) ==
  r => /\ \A f \in Live(nodes) : nodes[f].at >= Len(Layout)
       /\ t \in WriteTask \cup RenameTask => t.at >= Len(Layout)

SpecialsInv == EntriesInv /\ SpecialCells(root, slot) /\ Behind(root, node, task)

\* From s to t the first entries of the root stay, and none becomes special.
Spares(s, t) ==
  /\ Len(t) >= ClusterSlots
  /\ \A i \in 1..Len(t) : \/ i <= Len(s) /\ t[i] = s[i]
                          \/ t[i].kind # "special" /\ (root => i > Len(Layout))

\* What is said of the special entries in a step.
SparedStep ==
  \A i \in Offsets : At(i).kind = "special" =>
    i < Len(slot') /\ (slot'[i + 1] = At(i) \/ (At(i) = Label /\ slot'[i + 1] = Free))

\* A step that spares them keeps them.
LEMMA SparesKeeps ==
  ASSUME MkfsOrder, SpecialsInv, slot' \in Seq(Cell), root' = root, Spares(slot, slot')
  PROVE  SpecialCells(root, slot') /\ SparedStep
<1>1. Len(slot) \in Nat /\ Len(slot') \in Nat /\ Len(Layout) \in Nat /\ ClusterSlots \in Nat
      /\ Len(Layout) <= ClusterSlots /\ Len(slot) >= ClusterSlots /\ Len(slot') >= ClusterSlots
  BY LenProperties, SlotsNumbers DEF SpecialsInv, SpecialCells, EntriesInv, SlotsType, Spares
<1>2. ASSUME NEW i \in 1..Len(slot), slot[i].kind = "special"
      PROVE  root /\ i <= Len(Layout) /\ i \in 1..Len(slot') /\ slot'[i] = slot[i]
  <2>1. root /\ i <= Len(Layout)
    BY <1>2 DEF SpecialsInv, SpecialCells
  <2>2. i \in 1..Len(slot')
    BY <1>1, <2>1
  <2> QED
    BY <1>1, <2>1, <2>2 DEF Spares
<1>3. ASSUME NEW i \in 1..Len(slot'), slot'[i].kind = "special"
      PROVE  root /\ i <= Len(Layout)
  BY <1>1, <1>3 DEF Spares, SpecialsInv, SpecialCells
<1>4. ASSUME root, NEW i \in 1..Len(Layout) PROVE slot'[i] = slot[i]
  BY <1>1, <1>4 DEF Spares
<1>5. ASSUME root PROVE slot'[1] \in {Free, Label} /\ \A i \in 2..Len(Layout) : slot'[i] = Layout[i]
  <2>1. 1 \in 1..Len(Layout)
    BY <1>1 DEF MkfsOrder
  <2>2. slot[1] \in {Free, Label} /\ \A i \in 2..Len(Layout) : slot[i] = Layout[i]
    BY <1>5 DEF SpecialsInv, SpecialCells
  <2> QED
    BY <1>1, <1>4, <1>5, <2>1, <2>2
<1>6. SpecialCells(root, slot')
  BY <1>1, <1>3, <1>5 DEF SpecialCells
<1>7. SparedStep
  <2> SUFFICES ASSUME NEW i \in Offsets, At(i).kind = "special"
               PROVE  i < Len(slot') /\ slot'[i + 1] = At(i)
    BY DEF SparedStep
  <2>1. i \in Nat /\ i + 1 \in 1..Len(slot) /\ At(i) = slot[i + 1]
    BY <1>1 DEF Offsets, At
  <2>2. i + 1 \in 1..Len(slot') /\ slot'[i + 1] = slot[i + 1]
    BY <1>2, <2>1
  <2> QED
    BY <1>1, <2>1, <2>2
<1> QED
  BY <1>6, <1>7

\* Cutting and growing to at least a cluster spares them.
LEMMA ResizedSpares ==
  ASSUME SpecialsInv, NEW n \in Nat, n >= ClusterSlots
  PROVE  Spares(slot, Resized(slot, n))
<1>1. Len(slot) \in Nat /\ slot \in Seq(Cell) /\ Len(slot) >= ClusterSlots
      /\ Len(Layout) \in Nat /\ ClusterSlots \in Nat /\ Len(Layout) <= ClusterSlots
  BY LenProperties, SlotsNumbers DEF SpecialsInv, SpecialCells, EntriesInv, SlotsType
<1>2. /\ Len(Resized(slot, n)) = n
      /\ \A i \in 1..n : Resized(slot, n)[i] = IF i <= Len(slot) THEN slot[i] ELSE Free
  BY <1>1, ResizedEffect
<1> QED
  BY <1>1, <1>2 DEF Spares, Free

\* Writing or erasing behind them does.
LEMMA ConfinedSpares ==
  ASSUME SpecialsInv, NEW t, NEW a \in Nat, Len(t) = Len(slot), root => a >= Len(Layout),
         \A i \in 1..Len(slot) : t[i] = slot[i] \/ (a < i /\ t[i].kind # "special")
  PROVE  Spares(slot, t)
<1>1. Len(slot) \in Nat /\ Len(slot) >= ClusterSlots /\ Len(Layout) \in Nat
  BY LenProperties, SlotsNumbers DEF SpecialsInv, SpecialCells, EntriesInv, SlotsType
<1> QED
  BY <1>1 DEF Spares

\* find_slot() takes the first place that fits.
LEMMA FindsFirst ==
  ASSUME SlotsType, NEW n \in Nat, NEW i \in Offsets, Fits(i, n), CheckSlot(i, n)
  PROVE  FindSlot(n).at <= i
<1> DEFINE good == {j \in Offsets : Fits(j, n) /\ CheckSlot(j, n)}
<1>1. Len(slot) \in Nat
  BY LenProperties DEF SlotsType
<1>2. i \in good /\ good \in SUBSET Nat
  BY <1>1 DEF Offsets
<1>3. FindSlot(n).at = IF good # {} THEN CHOOSE j \in good : \A k \in good : j <= k
                       ELSE Len(slot) - Counted(n)
  BY DEF FindSlot
<1> HIDE DEF good
<1>4. \E j \in good : \A k \in good : j <= k
  BY <1>2, LeastNatural
<1> QED
  BY <1>2, <1>3, <1>4

\* In the root, the place for a set is behind the special entries: before them
\* there is room for one entry only, and the free entries that find_slot()
\* counts at the end of the first cluster are fewer than lie behind them.
LEMMA FoundBehind ==
  ASSUME MkfsOrder, SpecialsInv, root, NEW n \in Lengths
  PROVE  FindSlot(n).at >= Len(Layout)
<1> DEFINE at == FindSlot(n).at
<1>1. /\ SlotsType /\ Len(slot) \in Nat /\ Len(slot) >= ClusterSlots /\ Len(Layout) \in Nat
      /\ ClusterSlots \in Nat /\ Len(Layout) <= ClusterSlots /\ n \in Nat /\ n > 2
      /\ Len(Layout) >= 2 /\ Len(Layout) + n <= ClusterSlots + 1
  BY LenProperties, SlotsNumbers DEF SpecialsInv, SpecialCells, EntriesInv, SlotsType, MkfsOrder
<1>2. /\ at \in Nat
      /\ \/ at \in Offsets /\ CheckSlot(at, n)
         \/ at + n > Len(slot)
  BY <1>1, FindSlotEffect
<1> HIDE DEF at
<1>3. CASE at + n > Len(slot)
  BY <1>1, <1>2, <1>3 DEF at
<1>4. CASE CheckSlot(at, n)
  <2> SUFFICES ASSUME at < Len(Layout) PROVE FALSE
    BY <1>1, <1>2 DEF at
  <2> DEFINE j == IF at = 0 THEN 1 ELSE at
  <2>1. j \in at..(at + n - 1) /\ j + 1 \in 2..Len(Layout)
    BY <1>1, <1>2
  <2> HIDE DEF j
  <2>2. At(j) = Free
    BY <1>4, <2>1 DEF CheckSlot
  <2>3. At(j) = Layout[j + 1] /\ Layout[j + 1].kind = "special"
    BY <2>1 DEF SpecialsInv, SpecialCells, MkfsOrder, At
  <2> QED
    BY <2>2, <2>3 DEF Free
<1> QED
  BY <1>2, <1>3, <1>4

\* The place that create() and exfat_rename() find spares the special entries.
LEMMA RoomSpares ==
  ASSUME MkfsOrder, SpecialsInv, NEW n \in Lengths, Room(n)
  PROVE  Spares(slot, slot') /\ (root => FindSlot(n).at >= Len(Layout))
<1>1. /\ SlotsType /\ Len(slot) \in Nat /\ Len(slot) >= ClusterSlots
      /\ ClusterSlots \in Nat /\ n \in Nat /\ n > 2
  BY LenProperties, SlotsNumbers DEF SpecialsInv, SpecialCells, EntriesInv, SlotsType
<1>2. FindSlot(n).size \in Nat /\ Len(slot) <= FindSlot(n).size
  BY <1>1, FindSlotEffect
<1>3. FindSlot(n).size >= ClusterSlots
  BY <1>1, <1>2
<1>4. Spares(slot, Resized(slot, FindSlot(n).size))
  BY <1>2, <1>3, ResizedSpares
<1>5. slot' = Resized(slot, FindSlot(n).size)
  BY DEF Room
<1> QED
  BY <1>4, <1>5, FoundBehind

\* Leaving the directory alone does.
LEMMA SameSpares ==
  ASSUME SpecialsInv, slot' = slot
  PROVE  Spares(slot, slot')
  BY LenProperties DEF SpecialsInv, SpecialCells, Spares, EntriesInv, SlotsType

\* create(), deleting and exfat_rename() begin behind the special entries.
LEMMA CallsBehind ==
  ASSUME MkfsOrder, SpecialsInv, NEW f \in Files,
         Delete(f) \/ \E n \in Lengths : Create(f, n) \/ Rename(f, n)
  PROVE  Spares(slot, slot') /\ Behind(root, node', task')
<1>1. CASE Delete(f)
  <2>1. slot' = slot /\ node' = node /\ task'.op = "erase" /\ task'.then = "delete"
    BY <1>1 DEF Delete
  <2>2. task' \notin WriteTask \cup RenameTask
    BY <2>1, TaskKinds
  <2> QED
    BY <2>1, <2>2, SameSpares DEF SpecialsInv, Behind
<1>2. ASSUME NEW n \in Lengths, Create(f, n) \/ Rename(f, n)
      PROVE  Spares(slot, slot') /\ Behind(root, node', task')
  <2>1. Room(n) /\ node' = node /\ task'.at = FindSlot(n).at
    BY <1>2 DEF Create, Rename
  <2> QED
    BY <2>1, RoomSpares DEF SpecialsInv, Behind
<1> QED
  BY <1>1, <1>2

\* Erasing a set touches nothing before it.
LEMMA EraseBehind ==
  ASSUME SpecialsInv, EraseStep
  PROVE  Spares(slot, slot') /\ Behind(root, node', task')
<1> DEFINE f == task.f
           a == node[f].at
           n == node[f].n
           from == a + task.done
           to == Piece(from, n - task.done)
<1>1. task.op = "erase" /\ task.done < n /\ node' = node
  BY DEF EraseStep
<1>2. /\ f \in Files /\ f \in Live(node) /\ task.done \in Nat /\ a \in Nat /\ n \in Nat
      /\ task \in DeleteTask \cup RenameTask
  BY <1>1, EraseTypes DEF SpecialsInv
<1>3. slot \in Seq(Cell) /\ Len(slot) \in Nat
  BY LenProperties DEF SpecialsInv, EntriesInv, SlotsType
<1>4. to \in Nat /\ from \in Nat /\ a <= from
  <2>1. from \in Nat /\ a <= from /\ n - task.done \in Nat /\ n - task.done > 0
    BY <1>1, <1>2
  <2>2. to \in Nat
    BY <2>1, PieceWithin
  <2> QED
    BY <2>1, <2>2
<1>5. /\ slot' \in {slot, Erased(slot, from, to)}
      /\ task' = [task EXCEPT !.done = to - a] \/ task' = NoTask
  BY DEF EraseStep
<1>6. root => a >= Len(Layout)
  BY <1>2 DEF SpecialsInv, Behind
<1> HIDE DEF f, a, n, from, to
<1>7. Spares(slot, slot')
  <2>1. Len(slot') = Len(slot)
        /\ \A i \in 1..Len(slot) : slot'[i] = slot[i] \/ (from < i /\ slot'[i] = Free)
    BY <1>3, <1>4, <1>5, ErasedEffect
  <2>2. \A i \in 1..Len(slot) : slot'[i] = slot[i] \/ (a < i /\ slot'[i].kind # "special")
    BY <1>2, <1>3, <1>4, <2>1 DEF Free
  <2> QED
    BY <1>2, <1>6, <2>1, <2>2, ConfinedSpares
<1>8. ASSUME task' \in WriteTask \cup RenameTask PROVE task \in RenameTask /\ task'.at = task.at
  <2>1. CASE task' = NoTask
    BY <1>8, <2>1, TaskKinds DEF NoTask
  <2>2. CASE task' = [task EXCEPT !.done = to - a] /\ task \in RenameTask
    BY <2>2 DEF RenameTask
  <2>3. CASE task' = [task EXCEPT !.done = to - a] /\ task \in DeleteTask
    <3>1. task'.op = "erase" /\ task'.then = "delete"
      BY <2>3 DEF DeleteTask
    <3> QED
      BY <1>8, <3>1, TaskKinds
  <2> QED
    BY <1>2, <1>5, <2>1, <2>2, <2>3
<1> QED
  BY <1>1, <1>7, <1>8 DEF SpecialsInv, Behind

\* The end of erasing a set leaves the directory alone.
LEMMA EraseEndBehind ==
  ASSUME SpecialsInv, EraseEnd
  PROVE  Spares(slot, slot') /\ Behind(root, node', task')
<1> DEFINE f == task.f
<1>1. /\ EntriesInv /\ task.op = "erase"
      /\ SlotsType /\ slot \in Seq(Cell) /\ Len(slot) \in Nat
  BY LenProperties DEF SpecialsInv, EntriesInv, SlotsType, EraseEnd
<1>2. /\ f \in Files /\ f \in Live(node) /\ node[f].at \in Nat
      /\ Writing(task) = {} /\ task.then \in {"delete", "rename"}
      /\ task.then = "rename" => task \in RenameTask
  BY <1>1, EraseTypes
<1>3. CASE task.then = "delete"
  <2>1. /\ node' = [node EXCEPT ![f] = NoNode] /\ slot' = slot
        /\ task' = [op |-> "shrink", f |-> f, at |-> node[f].at]
    BY <1>3 DEF EraseEnd
  <2>2. task' \notin WriteTask \cup RenameTask
    BY <2>1, TaskKinds
  <2> HIDE DEF f
  <2>3. \A g \in Live(node') : g \in Live(node) /\ node'[g] = node[g]
    BY <1>1, <1>2, <2>1 DEF SlotsType, Live
  <2>4. Behind(root, node', task')
    BY <2>2, <2>3 DEF SpecialsInv, Behind
  <2> QED
    BY <2>1, <2>4, SameSpares
<1>4. CASE task.then = "rename"
  <2>1. /\ node' = [node EXCEPT ![f].at = task.at, ![f].n = task.n]
        /\ task'.at = task.at /\ slot' = slot
    BY <1>4 DEF EraseEnd, f
  <2> HIDE DEF f
  <2>2. root => task.at >= Len(Layout)
    BY <1>2, <1>4 DEF SpecialsInv, Behind
  <2>3. \A g \in Live(node') : \/ g = f /\ node'[g].at = task.at
                               \/ g \in Live(node) /\ node'[g] = node[g]
    <3>1. node[f] \in Node /\ node \in [Files -> Node \cup {NoNode}]
      BY <1>1, <1>2, NodeTypes DEF SlotsType
    <3>2. node'[f].at = task.at
      BY <1>2, <2>1, <3>1 DEF Node
    <3>3. \A g \in Files \ {f} : node'[g] = node[g]
      BY <2>1, <3>1
    <3> QED
      BY <3>2, <3>3 DEF Live
  <2>4. Behind(root, node', task')
    BY <2>1, <2>2, <2>3 DEF SpecialsInv, Behind
  <2> QED
    BY <2>1, <2>4, SameSpares
<1> QED
  BY <1>2, <1>3, <1>4

\* Shrinking the directory cuts behind the first cluster.
LEMMA ShrinkBehind ==
  ASSUME SpecialsInv, Shrink
  PROVE  Spares(slot, slot') /\ Behind(root, node', task')
<1>1. EntriesInv /\ node' = node /\ task' = [op |-> "flush", f |-> task.f]
  BY DEF SpecialsInv, Shrink
<1>2. PICK n \in Nat : slot' \in {slot, Resized(slot, n)} /\ ClusterSlots <= n
  BY <1>1, ShrinkEffect
<1>3. Spares(slot, slot')
  <2>1. n >= ClusterSlots
    BY <1>2, SlotsNumbers
  <2>2. Spares(slot, Resized(slot, n))
    BY <2>1, ResizedSpares
  <2> QED
    BY <1>2, <2>2, SameSpares
<1>4. task' \notin WriteTask \cup RenameTask
  BY <1>1, TaskKinds
<1> QED
  BY <1>1, <1>3, <1>4 DEF SpecialsInv, Behind

\* The flush of the directory leaves its entries alone.
LEMMA FlushBehind ==
  ASSUME SpecialsInv, Flush
  PROVE  Spares(slot, slot') /\ Behind(root, node', task')
<1>1. node' = node /\ slot' = slot /\ task' = NoTask
  BY DEF Flush
<1>2. task' \notin WriteTask \cup RenameTask
  BY <1>1, TaskKinds
<1> QED
  BY <1>1, <1>2, SameSpares DEF SpecialsInv, Behind

\* Writing a set touches nothing before it and writes nothing special.
LEMMA WriteBehind ==
  ASSUME SpecialsInv, WriteStep
  PROVE  Spares(slot, slot') /\ Behind(root, node', task')
<1> DEFINE a == task.at
           from == a + task.done
           to == Piece(from, task.n - task.done)
<1>1. EntriesInv /\ task.op = "write" /\ task.done < task.n /\ node' = node
  BY DEF WriteStep, SpecialsInv
<1>2. task \in WriteTask /\ a \in Nat /\ task.done \in Nat /\ task.n \in Nat
  BY <1>1, WriteTypes
<1>3. slot \in Seq(Cell) /\ Len(slot) \in Nat
  BY <1>1, LenProperties DEF EntriesInv, SlotsType
<1>4. to \in Nat /\ from \in Nat /\ a <= from
  <2>1. from \in Nat /\ a <= from /\ task.n - task.done \in Nat /\ task.n - task.done > 0
    BY <1>1, <1>2
  <2>2. to \in Nat
    BY <2>1, PieceWithin
  <2> QED
    BY <2>1, <2>2
<1>5. /\ slot' \in {slot, Written(slot, from, to)}
      /\ task' = [task EXCEPT !.done = to - a] \/ task' = NoTask
  BY DEF WriteStep
<1>6. root => a >= Len(Layout)
  BY <1>2 DEF SpecialsInv, Behind
<1>7. \A k \in Nat : k > 0 => Content(k).kind # "special"
  BY <1>1, ContentIs DEF Entry, Free
<1> HIDE DEF a, from, to
<1>8. Spares(slot, slot')
  <2>1. Len(slot') = Len(slot)
        /\ \A i \in 1..Len(slot) : slot'[i] = slot[i] \/ (from < i /\ slot'[i] = Content(i - a))
    <3>1. CASE slot' = slot
      BY <3>1
    <3>2. CASE slot' = Written(slot, from, to)
      <4>1. task.at <= from
        BY <1>4 DEF a
      <4>2. /\ Len(Written(slot, from, to)) = Len(slot)
            /\ \A i \in 1..Len(slot) : Written(slot, from, to)[i] =
                 IF from < i /\ i <= to THEN Content(i - task.at) ELSE slot[i]
        BY <1>2, <1>3, <1>4, <4>1, WrittenEffect
      <4> QED
        BY <3>2, <4>2 DEF a
    <3> QED
      BY <1>5, <3>1, <3>2
  <2>2. ASSUME NEW i \in 1..Len(slot), slot'[i] # slot[i]
        PROVE  a < i /\ slot'[i].kind # "special"
    <3>1. i - a \in Nat /\ i - a > 0 /\ a < i
      BY <1>2, <1>3, <1>4, <2>1, <2>2
    <3> QED
      BY <1>7, <2>1, <2>2, <3>1
  <2> QED
    BY <1>2, <1>6, <2>1, <2>2, ConfinedSpares
<1>9. ASSUME task' \in WriteTask \cup RenameTask PROVE task'.at = task.at
  <2>1. CASE task' = NoTask
    BY <1>9, <2>1, TaskKinds DEF NoTask
  <2>2. CASE task' = [task EXCEPT !.done = to - a]
    BY <1>2, <2>2 DEF WriteTask
  <2> QED
    BY <1>5, <2>1, <2>2
<1> QED
  BY <1>1, <1>2, <1>8, <1>9 DEF SpecialsInv, Behind

\* The new node lies where the set was written.
LEMMA WriteEndBehind ==
  ASSUME SpecialsInv, WriteEnd
  PROVE  Spares(slot, slot') /\ Behind(root, node', task')
<1>1. /\ EntriesInv /\ task.op = "write" /\ slot' = slot
      /\ task' \in {NoTask, [op |-> "flush", f |-> task.f]}
      /\ node' = [node EXCEPT ![task.f] = [at |-> task.at, n |-> task.n, name |-> task.n]]
  BY DEF WriteEnd, SpecialsInv
<1>2. task \in WriteTask /\ task.f \in Files /\ node \in [Files -> Node \cup {NoNode}]
  BY <1>1, WriteTypes DEF EntriesInv, SlotsType
<1>3. root => task.at >= Len(Layout)
  BY <1>2 DEF SpecialsInv, Behind
<1>4. \A g \in Live(node') : \/ g = task.f /\ node'[g].at = task.at
                             \/ g \in Live(node) /\ node'[g] = node[g]
  BY <1>1, <1>2 DEF Live
<1>5. task' \notin WriteTask \cup RenameTask
  BY <1>1, TaskKinds DEF NoTask
<1>6. Behind(root, node', task')
  BY <1>3, <1>4, <1>5 DEF SpecialsInv, Behind
<1> QED
  BY <1>1, <1>6, SameSpares

\* exfat_set_label() uses the first entry of the root only.
LEMMA LabelFirst ==
  ASSUME MkfsOrder, SpecialsInv, root, NEW at \in Nat, NEW len \in Nat, LabelPlace(at, len)
  PROVE  at = 0
<1>1. /\ SlotsType /\ Len(slot) \in Nat /\ Len(slot) >= ClusterSlots /\ Len(Layout) \in Nat
      /\ ClusterSlots \in Nat /\ Len(Layout) <= ClusterSlots /\ Len(Layout) >= 2
  BY LenProperties, SlotsNumbers DEF SpecialsInv, SpecialCells, EntriesInv, SlotsType, MkfsOrder
<1>2. /\ slot[1] \in {Free, Label}
      /\ \A i \in 2..Len(Layout) : slot[i] # Label
      /\ \A i \in 1..Len(slot) : slot[i] = Label => i <= Len(Layout)
  BY DEF SpecialsInv, SpecialCells, MkfsOrder, Label, Special
<1>3. CASE at < Len(slot) /\ slot[at + 1] = Label
  <2>1. at + 1 \in 1..Len(slot)
    BY <1>1, <1>3
  <2>2. at + 1 <= Len(Layout) /\ at + 1 \notin 2..Len(Layout)
    BY <1>2, <1>3, <2>1
  <2> QED
    BY <1>1, <2>2
<1>4. CASE (\A j \in Offsets : At(j) # Label) /\ at = FindSlot(1).at
  <2>1. 0 \in Offsets
    BY <1>1 DEF Offsets
  <2>2. At(0) = Free
    BY <1>2, <1>4, <2>1 DEF At
  <2>3. CheckSlot(0, 1)
    <3>1. \A j \in 0..(0 + 1 - 1) : j = 0
      OBVIOUS
    <3> QED
      BY <2>2, <3>1 DEF CheckSlot
  <2>4. 0 \notin Taken
    <3>1. \A f \in Live(node) : node[f].at \in Nat /\ node[f].at >= 2
      BY <1>1, NodeTypes DEF SpecialsInv, Behind, Live
    <3> QED
      BY <1>1, <3>1, TakenMeans
  <2>5. Fits(0, 1)
    <3>1. \A j \in 0..(0 + 1 - 1) : j = 0
      OBVIOUS
    <3> QED
      BY <1>1, <2>4, <3>1 DEF Fits
  <2>6. FindSlot(1).at <= 0
    BY <1>1, <2>1, <2>3, <2>5, FindsFirst
  <2> QED
    BY <1>4, <2>6
<1> QED
  BY <1>3, <1>4 DEF LabelPlace

\* exfat_set_label() keeps the bitmap and the upcase table.
LEMMA LabelKeeps ==
  ASSUME MkfsOrder, SpecialsInv, NEW on \in BOOLEAN, SetLabel(on)
  PROVE  SpecialCells(root, slot') /\ SparedStep
<1>1. EntriesInv /\ root /\ slot \in Seq(Cell)
  BY DEF SpecialsInv, EntriesInv, SlotsType, SetLabel
<1>2. PICK at, len \in Nat : /\ LabelPlace(at, len)
                              /\ slot' = [Resized(slot, len) EXCEPT ![at + 1] = IF on THEN Label ELSE Free]
  BY <1>1, SetLabelEffect
<1>3. at = 0
  BY <1>1, <1>2, LabelFirst
<1>4. /\ Len(slot') = len /\ Len(slot) \in Nat
      /\ slot'[at + 1] \in {Label, Free}
      /\ \A i \in 1..len : i # at + 1 => slot'[i] = IF i <= Len(slot) THEN slot[i] ELSE Free
  BY <1>1, <1>2, LabelCells
<1>5. /\ Len(slot) <= Len(slot') /\ Len(slot) >= ClusterSlots /\ Len(slot') \in Nat
      /\ Len(Layout) \in Nat /\ ClusterSlots \in Nat /\ Len(Layout) <= ClusterSlots
      /\ Len(Layout) >= 2
  BY <1>2, <1>4, LenProperties, SlotsNumbers DEF LabelPlace, SpecialsInv, SpecialCells, MkfsOrder
<1>6. slot'[1] \in {Free, Label}
  BY <1>3, <1>4
<1>7. ASSUME NEW i \in 2..Len(slot')
      PROVE  (i <= Len(slot) /\ slot'[i] = slot[i]) \/ (i > Len(slot) /\ slot'[i] = Free)
  BY <1>3, <1>4, <1>5
<1>8. /\ slot[1] \in {Free, Label}
      /\ \A i \in 2..Len(Layout) : slot[i] = Layout[i]
      /\ \A i \in 1..Len(slot) : slot[i].kind = "special" => i <= Len(Layout)
  BY <1>1 DEF SpecialsInv, SpecialCells
<1>9. Free.kind # "special"
  BY DEF Free
<1>10. SpecialCells(root, slot')
  <2>1. ASSUME NEW i \in 1..Len(slot'), slot'[i].kind = "special" PROVE i <= Len(Layout)
    <3>1. CASE i = 1
      BY <1>5, <3>1
    <3>2. CASE i \in 2..Len(slot')
      BY <1>4, <1>5, <1>7, <1>8, <1>9, <2>1, <3>2
    <3> QED
      BY <1>5, <3>1, <3>2
  <2>2. \A i \in 2..Len(Layout) : slot'[i] = Layout[i]
    BY <1>4, <1>5, <1>7, <1>8
  <2>3. Len(slot') >= ClusterSlots
    BY <1>5
  <2> QED
    BY <1>1, <1>6, <2>1, <2>2, <2>3 DEF SpecialCells
<1>11. SparedStep
  <2> SUFFICES ASSUME NEW i \in Offsets, At(i).kind = "special"
               PROVE  /\ i < Len(slot')
                      /\ slot'[i + 1] = At(i) \/ (At(i) = Label /\ slot'[i + 1] = Free)
    BY DEF SparedStep
  <2>1. i \in Nat /\ i < Len(slot) /\ At(i) = slot[i + 1] /\ i < Len(slot')
    BY <1>4, <1>5 DEF Offsets, At
  <2>2. CASE i = 0
    <3>1. At(i) = Label /\ slot'[i + 1] \in {Free, Label}
      BY <1>6, <1>8, <1>9, <2>1, <2>2
    <3> QED
      BY <2>1, <3>1
  <2>3. CASE i # 0
    <3>1. i + 1 \in 2..Len(slot') /\ i + 1 <= Len(slot)
      BY <1>4, <1>5, <2>1, <2>3
    <3>2. slot'[i + 1] = slot[i + 1]
      BY <1>4, <1>7, <3>1
    <3> QED
      BY <2>1, <3>2
  <2> QED
    BY <2>2, <2>3
<1> QED
  BY <1>10, <1>11

\* The root that mkexfatfs has made, or an empty directory.
LEMMA SpecialsInit == ASSUME MkfsOrder, Init PROVE SpecialsInv
<1>1. EntriesInv /\ node = [f \in Files |-> NoNode] /\ task = NoTask
  BY EntriesInit DEF Init
<1>2. ClusterSlots \in Nat /\ Len(Layout) \in Nat /\ Len(Layout) >= 2 /\ Len(Layout) <= ClusterSlots
  BY SlotsNumbers, LenProperties DEF MkfsOrder
<1>3. slot = [i \in 1..ClusterSlots |-> IF root /\ i <= Len(Layout) THEN Layout[i] ELSE Free]
  BY DEF Init
<1>4. Len(slot) = ClusterSlots
  <2>1. slot \in Seq(Cell) /\ DOMAIN slot = 1..ClusterSlots
    BY <1>1, <1>3 DEF EntriesInv, SlotsType
  <2>2. Len(slot) \in Nat /\ 1..Len(slot) = 1..ClusterSlots
    BY <2>1, LenProperties
  <2> QED
    BY <1>2, <2>2
<1>5. SpecialCells(root, slot)
  <2>1. \A i \in 1..ClusterSlots : slot[i] = IF root /\ i <= Len(Layout) THEN Layout[i] ELSE Free
    BY <1>3
  <2>2. Len(slot) >= ClusterSlots
    BY <1>2, <1>4
  <2>3. \A i \in 1..Len(slot) : slot[i].kind = "special" => root /\ i <= Len(Layout)
    BY <1>4, <2>1 DEF Free
  <2>4. root => slot[1] \in {Free, Label} /\ \A i \in 2..Len(Layout) : slot[i] = Layout[i]
    BY <1>2, <2>1 DEF MkfsOrder
  <2> QED
    BY <2>2, <2>3, <2>4 DEF SpecialCells
<1>6. Behind(root, node, task)
  <2>1. Live(node) = {}
    BY <1>1 DEF Live
  <2>2. task \notin WriteTask \cup RenameTask
    BY <1>1, TaskKinds DEF NoTask
  <2> QED
    BY <2>1, <2>2 DEF Behind
<1> QED
  BY <1>1, <1>5, <1>6 DEF SpecialsInv

\* Every step keeps the special entries, and everything else behind them.
LEMMA SpecialsStep ==
  ASSUME MkfsOrder, "rename" \notin Faults, SpecialsInv, Next
  PROVE  SpecialsInv' /\ SparedStep
<1>1. EntriesInv'
  BY EntriesStep DEF SpecialsInv
<1>2. root' = root
  BY DEF Next, Delete, Create, Rename, EraseStep, EraseEnd, Shrink, Flush, WriteStep, WriteEnd,
        SetLabel
<1>3. slot' \in Seq(Cell)
  BY <1>1 DEF EntriesInv, SlotsType
<1>4. CASE Spares(slot, slot') /\ Behind(root, node', task')
  <2>1. SpecialCells(root', slot') /\ SparedStep
    BY <1>2, <1>3, <1>4, SparesKeeps
  <2> QED
    BY <1>1, <1>2, <1>4, <2>1 DEF SpecialsInv
<1>5. ASSUME NEW on \in BOOLEAN, SetLabel(on) PROVE SpecialsInv' /\ SparedStep
  <2>1. node' = node /\ task' = task
    BY <1>5 DEF SetLabel
  <2>2. SpecialCells(root', slot') /\ SparedStep
    BY <1>2, <1>5, LabelKeeps
  <2>3. Behind(root', node', task')
    BY <1>2, <2>1 DEF SpecialsInv
  <2> QED
    BY <1>1, <2>2, <2>3 DEF SpecialsInv
<1> QED
  BY <1>4, <1>5, CallsBehind, EraseBehind, EraseEndBehind, ShrinkBehind, FlushBehind,
     WriteBehind, WriteEndBehind DEF Next

\* In a root directory that mkexfatfs has made, as long as no write of a rename
\* fails: no step of create(), delete(), rename_entry() or exfat_set_label()
\* overwrites or cuts off the entries of the bitmap and the upcase table, and
\* nothing but a free entry takes the place of the label.
THEOREM SpecialsKeptHolds ==
  ASSUME MkfsOrder, "rename" \notin Faults
  PROVE  Spec => SpecialsKept
<1>1. Init => SpecialsInv
  BY SpecialsInit
<1>2. SpecialsInv /\ [Next]_vars => SpecialsInv'
  <2>1. ASSUME SpecialsInv, UNCHANGED vars PROVE SpecialsInv'
    BY <2>1 DEF vars, SpecialsInv, EntriesInv, SlotsType
  <2> QED
    BY <2>1, SpecialsStep
<1>3. SpecialsInv /\ [Next]_vars =>
        [\A i \in Offsets : At(i).kind = "special" =>
           i < Len(slot') /\ (slot'[i + 1] = At(i) \/ (At(i) = Label /\ slot'[i + 1] = Free))]_vars
  BY SpecialsStep DEF SparedStep
<1> QED
  BY <1>1, <1>2, <1>3, PTL DEF Spec, SpecialsKept

-----------------------------------------------------------------------------
(* Reading the directory back *)

\* What readdir() makes of the entries from o on, if later ones give g.
ReadFrom(s, g, o) ==
  IF o = Len(s) THEN {}
  ELSE LET e == s[o + 1] IN
       IF e.kind # "file" THEN g[o + 1]
       ELSE IF e.k = 1 /\ WholeSet(s, o, e.n)
       THEN {[f |-> e.f, at |-> o, n |-> e.n]} \cup g[o + e.n]
       ELSE {Broken}

\* ReadDir is given by its own equation, if that has a solution and no other.
LEMMA ReadDirSolves ==
  ASSUME NEW s, NEW g, g = [o \in 0..Len(s) |-> ReadFrom(s, g, o)],
         \A w : w = [o \in 0..Len(s) |-> ReadFrom(s, w, o)] => w = g
  PROVE  ReadDir(s) = g[0]
<1> DEFINE from == CHOOSE w : w = [o \in 0..Len(s) |-> ReadFrom(s, w, o)]
<1>1. from = g
  OBVIOUS
<1>2. ReadDir(s) = from[0]
  BY DEF ReadDir, ReadFrom
<1> QED
  BY <1>1, <1>2

\* The equation has no second solution.
LEMMA ReadsOnce ==
  ASSUME NEW s \in Seq(Cell),
         \A i \in 1..Len(s) : s[i].kind = "file" => s[i].n > 0,
         NEW g, g = [o \in 0..Len(s) |-> ReadFrom(s, g, o)],
         NEW w, w = [o \in 0..Len(s) |-> ReadFrom(s, w, o)]
  PROVE  w = g
<1> DEFINE D == {o \in 0..Len(s) : w[o] # g[o]}
<1>1. Len(s) \in Nat
  BY LenProperties
<1>2. /\ \A o \in 0..Len(s) : g[o] = ReadFrom(s, g, o)
      /\ \A o \in 0..Len(s) : w[o] = ReadFrom(s, w, o)
  OBVIOUS
<1>3. D = {}
  <2> SUFFICES ASSUME D # {} PROVE FALSE
    OBVIOUS
  <2>1. D \in SUBSET (0..Len(s))
    OBVIOUS
  <2>2. PICK o \in D : \A p \in D : p <= o
    <3> HIDE DEF D
    <3> QED
      BY <1>1, <2>1, GreatestNatural
  <2>3. o \in 0..Len(s) /\ w[o] # g[o] /\ \A p \in 0..Len(s) : p > o => w[p] = g[p]
    BY <1>1, <2>2
  <2>4. CASE o = Len(s)
    BY <1>2, <2>3, <2>4 DEF ReadFrom
  <2>5. CASE o # Len(s)
    <3> DEFINE e == s[o + 1]
    <3>1. o \in Nat /\ o + 1 \in 1..Len(s)
      BY <1>1, <2>3, <2>5
    <3>2. e \in Cell /\ (e.kind = "file" => e.n \in Nat /\ e.n > 0)
      <4>1. s[o + 1] \in Cell
        BY <3>1, ElementOfSeq
      <4>2. s[o + 1].kind = "file" => s[o + 1].n \in Nat
        BY <4>1 DEF Cell, Free
      <4> QED
        BY <3>1, <4>1, <4>2
    <3>3. w[o + 1] = g[o + 1]
      BY <1>1, <2>3, <3>1
    <3>4. e.kind = "file" /\ WholeSet(s, o, e.n) => w[o + e.n] = g[o + e.n]
      <4> SUFFICES ASSUME e.kind = "file", WholeSet(s, o, e.n) PROVE w[o + e.n] = g[o + e.n]
        OBVIOUS
      <4>1. o + e.n <= Len(s)
        BY DEF WholeSet
      <4> HIDE DEF e
      <4> QED
        BY <1>1, <2>3, <3>1, <3>2, <4>1
    <3>5. ReadFrom(s, w, o) = ReadFrom(s, g, o)
      BY <3>3, <3>4 DEF ReadFrom
    <3> QED
      BY <1>2, <2>3, <3>5
  <2> QED
    BY <2>4, <2>5
<1>4. \A o \in 0..Len(s) : w[o] = g[o]
  BY <1>3
<1> QED
  <2>1. w = [o \in 0..Len(s) |-> w[o]] /\ g = [o \in 0..Len(s) |-> g[o]]
    OBVIOUS
  <2>2. [o \in 0..Len(s) |-> w[o]] = [o \in 0..Len(s) |-> g[o]]
    BY <1>4
  <2> QED
    BY <2>1, <2>2

\* Between calls, with no write failed, every entry of a file belongs to its
\* node, and all entries are there.
LEMMA Settled ==
  ASSUME EntriesInv, Idle, hurt = {}
  PROVE  /\ slot \in Seq(Cell) /\ Len(slot) \in Nat
         /\ \A f \in Live(node) : /\ node[f].at \in Nat /\ node[f].n \in Nat /\ node[f].n > 2
                                  /\ node[f].at + node[f].n <= Len(slot)
                                  /\ WholeCells(slot, f, node[f].at, node[f].n, node[f].n)
         /\ \A f, g \in Live(node) : f # g => Apart(node[f].at, node[f].n, node[g].at, node[g].n)
         /\ \A i \in 1..Len(slot) : slot[i].kind = "file" =>
              \E f \in Live(node) : /\ node[f].at < i /\ i <= node[f].at + node[f].n
                                    /\ slot[i] = Entry(f, i - node[f].at, node[f].n)
<1>1. SlotsType /\ slot \in Seq(Cell) /\ Len(slot) \in Nat /\ Writing(task) = {} /\ Erasing(task) = {}
  BY LenProperties DEF EntriesInv, SlotsType, Idle, Writing, Erasing
<1>2. ASSUME NEW f \in Live(node)
      PROVE  /\ node[f].at \in Nat /\ node[f].n \in Nat /\ node[f].n > 2
             /\ node[f].at + node[f].n <= Len(slot)
             /\ WholeCells(slot, f, node[f].at, node[f].n, node[f].n)
             /\ OnlyIn(slot, f, node[f].at, node[f].n)
  <2>1. node[f].at \in Nat /\ node[f].n \in Nat /\ node[f].n > 2
    BY <1>1, NodeTypes DEF Live
  <2>2. node[f].at + node[f].n <= Len(slot)
    BY DEF EntriesInv, Placed
  <2>3. Kept(slot, node, hurt, task, f)
    BY <1>1 DEF EntriesInv
  <2> QED
    BY <1>1, <2>1, <2>2, <2>3 DEF Kept
<1>3. ASSUME NEW i \in 1..Len(slot), slot[i].kind = "file"
      PROVE  \E f \in Live(node) : /\ node[f].at < i /\ i <= node[f].at + node[f].n
                                   /\ slot[i] = Entry(f, i - node[f].at, node[f].n)
  <2> DEFINE f == slot[i].f
  <2>1. f \in Files /\ IsOf(slot, i, f)
    <3>1. slot[i] \in Cell
      BY <1>1, ElementOfSeq
    <3> QED
      BY <1>3, <3>1 DEF Cell, Free, IsOf
  <2> HIDE DEF f
  <2>2. f \in Live(node)
    <3> SUFFICES ASSUME f \notin Live(node) PROVE FALSE
      OBVIOUS
    <3>1. OnlyIn(slot, f, 0, 0)
      BY <1>1, <2>1 DEF EntriesInv
    <3> QED
      BY <1>1, <2>1, <3>1 DEF OnlyIn
  <2>3. node[f].at < i /\ i <= node[f].at + node[f].n
    BY <1>2, <2>1, <2>2 DEF OnlyIn
  <2>4. slot[i] = Entry(f, i - node[f].at, node[f].n)
    BY <1>2, <2>2, <2>3 DEF WholeCells
  <2> QED
    BY <2>2, <2>3, <2>4
<1>4. \A f, g \in Live(node) : f # g => Apart(node[f].at, node[f].n, node[g].at, node[g].n)
  BY DEF EntriesInv, Placed
<1> QED
  BY <1>1, <1>2, <1>3, <1>4

\* What readdir() finds from offset o on, unless that is inside a set.
FoundFrom(o) ==
  {[f |-> f, at |-> node[f].at, n |-> node[f].n] : f \in {x \in Live(node) : node[x].at >= o}}

InsideSet(o) == \E f \in Live(node) : node[f].at < o /\ o < node[f].at + node[f].n

ReadAll == [o \in 0..Len(slot) |-> IF InsideSet(o) THEN {Broken} ELSE FoundFrom(o)]

\* An entry that is of no file is passed over.
LEMMA ReadsOther ==
  ASSUME EntriesInv, Idle, hurt = {}, NEW o \in 0..(Len(slot) - 1), slot[o + 1].kind # "file"
  PROVE  ReadAll[o] = ReadAll[o + 1]
<1>1. /\ Len(slot) \in Nat
      /\ \A f \in Live(node) : /\ node[f].at \in Nat /\ node[f].n \in Nat /\ node[f].n > 2
                               /\ WholeCells(slot, f, node[f].at, node[f].n, node[f].n)
  BY Settled
<1>2. o \in Nat /\ o + 1 \in 1..Len(slot) /\ o \in 0..Len(slot) /\ o + 1 \in 0..Len(slot)
  BY <1>1
<1>3. ASSUME NEW f \in Live(node) PROVE ~(node[f].at <= o /\ o < node[f].at + node[f].n)
  <2> SUFFICES ASSUME node[f].at <= o, o < node[f].at + node[f].n PROVE FALSE
    OBVIOUS
  <2> DEFINE i == o + 1
  <2>1. i \in 1..Len(slot) /\ node[f].at < i /\ i <= node[f].at + node[f].n
    BY <1>1, <1>2
  <2>2. slot[i].kind # "file"
    OBVIOUS
  <2> HIDE DEF i
  <2>3. slot[i] = Entry(f, i - node[f].at, node[f].n)
    BY <1>1, <2>1 DEF WholeCells
  <2> QED
    BY <2>2, <2>3 DEF Entry
<1>4. ~InsideSet(o) /\ ~InsideSet(o + 1)
  BY <1>1, <1>2, <1>3 DEF InsideSet
<1>5. FoundFrom(o) = FoundFrom(o + 1)
  <2>1. \A x \in Live(node) : node[x].at >= o <=> node[x].at >= o + 1
    BY <1>1, <1>2, <1>3
  <2> QED
    BY <2>1 DEF FoundFrom
<1> QED
  BY <1>2, <1>4, <1>5 DEF ReadAll

\* The first entry of a set is read with the set, and reading goes on behind it.
LEMMA ReadsSet ==
  ASSUME EntriesInv, Idle, hurt = {}, NEW f \in Live(node)
  PROVE  /\ WholeSet(slot, node[f].at, node[f].n)
         /\ node[f].at + node[f].n \in 0..Len(slot)
         /\ ReadAll[node[f].at] =
              {[f |-> f, at |-> node[f].at, n |-> node[f].n]}
                \cup ReadAll[node[f].at + node[f].n]
<1> DEFINE a == node[f].at
           n == node[f].n
<1>1. /\ Len(slot) \in Nat
      /\ \A x \in Live(node) : /\ node[x].at \in Nat /\ node[x].n \in Nat /\ node[x].n > 2
                               /\ node[x].at + node[x].n <= Len(slot)
      /\ WholeCells(slot, f, a, n, n)
      /\ \A x \in Live(node) : x # f => Apart(node[x].at, node[x].n, a, n)
  BY Settled
<1>2. a \in Nat /\ n \in Nat /\ n > 2 /\ a + n <= Len(slot)
  BY <1>1
<1>3. ASSUME NEW x \in Live(node)
      PROVE  /\ ~(node[x].at < a /\ a < node[x].at + node[x].n)
             /\ ~(node[x].at < a + n /\ a + n < node[x].at + node[x].n)
             /\ node[x].at >= a <=> (x = f \/ node[x].at >= a + n)
  <2>1. CASE x = f
    BY <1>2, <2>1
  <2>2. CASE x # f
    <3>1. Apart(node[x].at, node[x].n, a, n) /\ node[x].at \in Nat /\ node[x].n \in Nat /\ node[x].n > 2
      BY <1>1, <2>2
    <3> HIDE DEF a, n
    <3> QED
      BY <1>2, <2>2, <3>1 DEF Apart
  <2> QED
    BY <2>1, <2>2
<1>4. WholeSet(slot, a, n)
  <2>1. ASSUME NEW k \in 1..n PROVE slot[a + k] = Entry(f, k, n)
    <3>1. a + k \in 1..Len(slot) /\ a < a + k /\ a + k <= a + n /\ a + k - a = k
      BY SMTT(30), <1>1, <1>2
    <3> QED
      BY <1>1, <3>1 DEF WholeCells
  <2>2. 1 \in 1..n
    BY <1>2
  <2>3. slot[a + 1] = Entry(f, 1, n)
    BY <2>1, <2>2
  <2>4. \A k \in 1..n : slot[a + k] = [slot[a + 1] EXCEPT !.k = k]
    BY <2>1, <2>3 DEF Entry
  <2> QED
    BY <1>2, <2>4 DEF WholeSet
<1> HIDE DEF a, n
<1>5. a \in 0..Len(slot) /\ a + n \in 0..Len(slot)
  BY <1>1, <1>2
<1>6. ~InsideSet(a) /\ ~InsideSet(a + n)
  BY <1>3 DEF InsideSet
<1>7. FoundFrom(a) = {[f |-> f, at |-> a, n |-> n]} \cup FoundFrom(a + n)
  <2>1. {x \in Live(node) : node[x].at >= a} = {f} \cup {x \in Live(node) : node[x].at >= a + n}
    BY <1>3
  <2> QED
    BY <2>1 DEF FoundFrom, a, n
<1> QED
  BY <1>4, <1>5, <1>6, <1>7 DEF ReadAll, a, n

\* Reading gives what ReadAll says, entry by entry.
LEMMA ReadsAll ==
  ASSUME EntriesInv, Idle, hurt = {}
  PROVE  ReadAll = [o \in 0..Len(slot) |-> ReadFrom(slot, ReadAll, o)]
<1>1. /\ Len(slot) \in Nat
      /\ \A f \in Live(node) : /\ node[f].at \in Nat /\ node[f].n \in Nat /\ node[f].n > 2
                               /\ node[f].at + node[f].n <= Len(slot)
      /\ \A i \in 1..Len(slot) : slot[i].kind = "file" =>
           \E f \in Live(node) : /\ node[f].at < i /\ i <= node[f].at + node[f].n
                                 /\ slot[i] = Entry(f, i - node[f].at, node[f].n)
  BY Settled
<1>2. ASSUME NEW o \in 0..Len(slot) PROVE ReadAll[o] = ReadFrom(slot, ReadAll, o)
  <2>1. CASE o = Len(slot)
    <3>1. ~InsideSet(o) /\ FoundFrom(o) = {}
      BY <1>1, <2>1 DEF InsideSet, FoundFrom
    <3> QED
      BY <2>1, <3>1 DEF ReadAll, ReadFrom
  <2>2. CASE o # Len(slot) /\ slot[o + 1].kind # "file"
    <3>1. o \in 0..(Len(slot) - 1)
      BY <1>1, <2>2
    <3>2. ReadAll[o] = ReadAll[o + 1]
      BY <2>2, <3>1, ReadsOther
    <3> QED
      BY <2>2, <3>2 DEF ReadFrom
  <2>3. CASE o # Len(slot) /\ slot[o + 1].kind = "file"
    <3> DEFINE i == o + 1
               e == slot[i]
    <3>1. o \in Nat /\ i \in 1..Len(slot) /\ i = o + 1 /\ e.kind = "file"
      BY <1>1, <2>3
    <3> HIDE DEF i
    <3>2. PICK f \in Live(node) : /\ node[f].at < i /\ i <= node[f].at + node[f].n
                                  /\ e = Entry(f, i - node[f].at, node[f].n)
      BY <1>1, <3>1
    <3>3. e.f = f /\ e.k = i - node[f].at /\ e.n = node[f].n
      BY <3>2 DEF Entry
    <3>4. CASE node[f].at = o
      <4>1. e.k = 1
        BY <1>1, <3>1, <3>3, <3>4
      <4>2. WholeSet(slot, o, e.n) /\ ReadAll[o] = {[f |-> f, at |-> o, n |-> e.n]} \cup ReadAll[o + e.n]
        BY <3>3, <3>4, ReadsSet
      <4> QED
        BY <2>3, <3>3, <4>1, <4>2 DEF ReadFrom, i
    <3>5. CASE node[f].at # o
      <4>1. e.k # 1 /\ node[f].at < o /\ o < node[f].at + node[f].n
        BY <1>1, <3>1, <3>2, <3>3, <3>5
      <4>2. InsideSet(o)
        BY <4>1 DEF InsideSet
      <4> QED
        BY <2>3, <4>1, <4>2 DEF ReadFrom, ReadAll, i
    <3> QED
      BY <3>4, <3>5
  <2> QED
    BY <2>1, <2>2, <2>3
<1>3. ReadAll = [o \in 0..Len(slot) |-> ReadAll[o]]
  BY DEF ReadAll
<1> HIDE DEF ReadAll
<1> QED
  BY <1>2, <1>3

\* As long as no write has failed, a mount between two calls finds exactly the
\* files that the session had, each at its place with its length, in a directory
\* of the size that its clusters have.
THEOREM RemountAgreesHolds ==
  ASSUME "rename" \notin Faults
  PROVE  Spec => []RemountAgrees
<1>1. SizeInv => RemountAgrees
  <2>0. SizeInv /\ Idle /\ hurt = {} => Size = Len(slot)
    BY DEF SizeInv, SizeExact, Size
  <2> SUFFICES ASSUME EntriesInv, Idle, hurt = {}
               PROVE  ReadDir(slot) = {[f |-> f, at |-> node[f].at, n |-> node[f].n] :
                                         f \in {g \in Files : node[g] # NoNode}}
    BY <2>0 DEF RemountAgrees, SizeInv
  <2>1. /\ slot \in Seq(Cell) /\ Len(slot) \in Nat
        /\ \A f \in Live(node) : node[f].at \in Nat /\ node[f].n \in Nat /\ node[f].n > 2
        /\ \A i \in 1..Len(slot) : slot[i].kind = "file" => slot[i].n > 0
    <3>1. /\ slot \in Seq(Cell) /\ Len(slot) \in Nat
          /\ \A f \in Live(node) : node[f].at \in Nat /\ node[f].n \in Nat /\ node[f].n > 2
      BY Settled
    <3>2. \A i \in 1..Len(slot) : slot[i].kind = "file" =>
            \E f \in Live(node) : slot[i] = Entry(f, i - node[f].at, node[f].n)
      BY Settled
    <3>3. ASSUME NEW i \in 1..Len(slot), slot[i].kind = "file" PROVE slot[i].n > 0
      <4>1. PICK f \in Live(node) : slot[i] = Entry(f, i - node[f].at, node[f].n)
        BY <3>2, <3>3
      <4>2. slot[i].n = node[f].n
        BY <4>1 DEF Entry
      <4> QED
        BY <3>1, <4>2
    <3> QED
      BY <3>1, <3>3
  <2>2. ReadAll = [o \in 0..Len(slot) |-> ReadFrom(slot, ReadAll, o)]
    BY ReadsAll
  <2>3. \A w : w = [o \in 0..Len(slot) |-> ReadFrom(slot, w, o)] => w = ReadAll
    BY <2>1, <2>2, ReadsOnce
  <2>4. ReadDir(slot) = ReadAll[0]
    BY <2>2, <2>3, ReadDirSolves
  <2>5. ReadAll[0] = FoundFrom(0)
    BY <2>1 DEF ReadAll, InsideSet
  <2>6. {x \in Live(node) : node[x].at >= 0} = {g \in Files : node[g] # NoNode}
    BY <2>1 DEF Live
  <2> QED
    BY <2>4, <2>5, <2>6 DEF FoundFrom
<1> QED
  BY <1>1, SizeInit, SizeStep, PTL DEF Spec

================================================================================
