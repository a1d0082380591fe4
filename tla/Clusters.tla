------------------------------- MODULE Clusters -------------------------------
(***************************************************************************)
(* Cluster allocation of libexfat/cluster.c: the allocation bitmap, the    *)
(* FAT, the cluster chains of files and the cached position in them, under *)
(* exfat_truncate() and exfat_advance_cluster().                           *)
(*                                                                         *)
(* libexfat runs one call at a time.  A call is taken apart at its FAT     *)
(* accesses, each of which may fail in the phases Faults names; a write    *)
(* that fails may have reached the medium.  Sizes are in clusters.         *)
(*                                                                         *)
(* The FAT entry of an invalid cluster number is taken to lie outside the  *)
(* device, so that reading it fails.                                       *)
(***************************************************************************)
EXTENDS Integers, FiniteSets

CONSTANTS
  Files,         \* file and directory nodes
  ClusterCount,  \* sb->cluster_count
  Reserved,      \* clusters of the bitmap, the upcase table and the root
  Faults         \* where accesses may fail: in grow, shrink, erase, position

Data == 2..(ClusterCount + 1)   \* the valid cluster numbers
FREE == 0                       \* EXFAT_CLUSTER_FREE
BAD == -9                       \* EXFAT_CLUSTER_BAD
END == -1                       \* EXFAT_CLUSTER_END
Wrapped == ClusterCount + 1     \* (uint32_t)-1 as a chain index: past any chain

ASSUME ClustersAssumption ==
  /\ ClusterCount \in Nat \ {0}
  /\ Reserved \subseteq Data
  /\ Faults \subseteq {"grow", "shrink", "erase", "position"}

VARIABLES
  used,    \* the set bits of ef->cmap.chunk
  fat,     \* the FAT on the medium
  node,    \* struct exfat_node of each file
  task,    \* the exfat_truncate() in progress
  result,  \* what the last one returned
  bug      \* exfat_bug() has been called

vars == <<used, fat, node, task, result, bug>>

\* size, valid: size and valid_size; fi, fc: fptr_index and fptr_cluster.
Node == [start: Data \cup {FREE}, contig: BOOLEAN, size: 0..ClusterCount,
         valid: 0..ClusterCount, fi: 0..Wrapped,
         fc: Data \cup {FREE, BAD, END, ClusterCount + 2}]

NoTask == [op |-> "none"]

Init ==
  /\ used = Reserved
  /\ fat = [c \in Data |-> FREE]
  /\ node = [f \in Files |-> [start |-> FREE, contig |-> FALSE, size |-> 0,
                              valid |-> 0, fi |-> 0, fc |-> FREE]]
  /\ task = NoTask
  /\ result \in [rc: {"ok"}, f: Files, n: {0}]
  /\ bug = FALSE

-----------------------------------------------------------------------------
(* Chains *)

Invalid(c) == c \notin Data

\* exfat_next_cluster(), for a cluster number it accepts.
NextCluster(x, c) ==
  IF x.contig THEN c + 1 ELSE IF Invalid(c) THEN BAD ELSE fat[c]

\* The k-th cluster after c in the chain of x; a chain ends where it is invalid.
Walk(x, c, k) ==
  LET w[i \in 0..Wrapped] ==
        IF i = 0 THEN c
        ELSE IF i > 1 /\ Invalid(w[i - 1]) THEN w[i - 1]
        ELSE NextCluster(x, w[i - 1])
  IN  w[k]

\* Mutation: the cached position is used although it lies behind.
AdvanceNoRewind(x, i, faulty) ==
  IF x.fc = FREE /\ i > 0 THEN {[x EXCEPT !.fi = i, !.fc = FREE]}
  ELSE {[x EXCEPT !.fi = i, !.fc = Walk(x, x.fc, IF x.fi > i THEN 0 ELSE i - x.fi)]}

\* exfat_advance_cluster(x, i): the node with the position it can leave.  A walk
\* that has to read the FAT may fail if faulty, and then sets the index anyway.
Advance(x, i, faulty) ==
  LET p == IF x.fi > i THEN [fi |-> 0, fc |-> x.start] ELSE [fi |-> x.fi, fc |-> x.fc]
      reads == faulty /\ ~x.contig /\ i > p.fi
  IN  {[x EXCEPT !.fi = i, !.fc = c] :
         c \in {Walk(x, p.fc, i - p.fi)} \cup (IF reads THEN {BAD} ELSE {})}

\* It calls exfat_bug() when it has to step from a number below 2.
AdvanceBug(x, i) ==
  LET p == IF x.fi > i THEN [fi |-> 0, fc |-> x.start] ELSE [fi |-> x.fi, fc |-> x.fc]
  IN  i > p.fi /\ p.fc = FREE

\* The clusters of f: the first n of its chain, as far as it goes.
Chain(x, n) ==
  IF x.start = FREE THEN {}
  ELSE {Walk(x, x.start, k) : k \in 0..(n - 1)} \cap Data

\* allocate_cluster(): the first free cluster from the hint on, then from the
\* start; a hint outside the bitmap counts as the start.
Allocate(hint) ==
  LET free == Data \ used
      from == IF Invalid(hint) THEN free ELSE {c \in free : c >= hint}
      pool == IF from = {} THEN free ELSE from
  IN  IF pool = {} THEN END ELSE CHOOSE c \in pool : \A d \in pool : c <= d

-----------------------------------------------------------------------------
(* The course of a call *)

Running == task.op # "none" /\ ~bug

Return(rc) ==
  /\ task' = NoTask
  /\ result' = [rc |-> rc, f |-> task.f, n |-> task.n]

Bug == bug' = TRUE /\ UNCHANGED <<used, fat, node, task, result>>

\* exfat_truncate(f, n, erase).
Truncate(f, n, erase) ==
  /\ task.op = "none" /\ ~bug
  /\ n # node[f].size
  /\ task' = [op |-> IF n > node[f].size THEN "grow" ELSE "shrink",
              f |-> f, n |-> n, erase |-> erase, rc |-> "ok",
              left |-> IF n > node[f].size THEN n - node[f].size
                                           ELSE node[f].size - n]
  /\ UNCHANGED <<used, fat, node, result, bug>>

\* grow_file() on an empty file: its first cluster.
GrowFirst ==
  LET x == node[task.f]
      c == Allocate(0)
  IN
  /\ Running /\ task.op = "grow" /\ x.start = FREE
  /\ IF x.fi # 0 THEN Bug
     ELSE IF c = END
     THEN Return("ENOSPC") /\ UNCHANGED <<used, fat, node, bug>>
     ELSE /\ used' = used \cup {c}
          /\ node' = [node EXCEPT ![task.f].start = c, ![task.f].fc = c,
                                  ![task.f].contig = TRUE]
          /\ task' = [op |-> "link", f |-> task.f, n |-> task.n,
                      erase |-> task.erase, rc |-> "ok",
                      left |-> task.left - 1, prev |-> c, new |-> 1]
          /\ UNCHANGED <<fat, result, bug>>

\* grow_file() on any other: find its last cluster.
GrowFromLast ==
  LET x == node[task.f]
      last == IF x.size = 0 THEN Wrapped ELSE x.size - 1
  IN
  /\ Running /\ task.op = "grow" /\ x.start # FREE
  /\ IF AdvanceBug(x, last) THEN Bug
     ELSE \E y \in Advance(x, last, "grow" \in Faults) :
            /\ node' = [node EXCEPT ![task.f] = y]
            /\ IF Invalid(y.fc) THEN Return("EIO")
               ELSE /\ task' = [op |-> "link", f |-> task.f, n |-> task.n,
                                erase |-> task.erase, rc |-> "ok",
                                left |-> task.left, prev |-> y.fc, new |-> 0]
                    /\ UNCHANGED result
            /\ UNCHANGED <<used, fat, bug>>

\* The FAT after make_noncontiguous() has got as far as cluster b.
Linked(a, b) == [c \in Data |-> IF c \in a..(b - 1) THEN c + 1 ELSE fat[c]]

\* Mutation: a contiguous file is extended without writing its links.
GrowUnlinked ==
  LET x == node[task.f]
      c == Allocate(task.prev + 1)
  IN
  /\ Running /\ task.op = "link" /\ task.left > 0 /\ c # END
  /\ used' = used \cup {c}
  /\ node' = [node EXCEPT ![task.f].contig = @ /\ c = task.prev + 1]
  /\ fat' = IF x.contig THEN fat ELSE [fat EXCEPT ![task.prev] = c]
  /\ task' = [task EXCEPT !.left = @ - 1, !.prev = c, !.new = @ + 1]
  /\ UNCHANGED <<result, bug>>

\* grow_file(): one more cluster.  A contiguous file that cannot stay so gets
\* its links written first.
GrowNext ==
  LET x == node[task.f]
      c == Allocate(task.prev + 1)
      breaks == x.contig /\ c # task.prev + 1
      linked == IF breaks THEN Linked(x.start, task.prev) ELSE fat
  IN
  /\ Running /\ task.op = "link" /\ task.left > 0 /\ c # END
  /\ used' = used \cup {c}
  /\ \/ /\ node' = [node EXCEPT ![task.f].contig = @ /\ ~breaks]
        /\ fat' = IF x.contig /\ ~breaks THEN fat
                  ELSE [linked EXCEPT ![task.prev] = c]
        /\ task' = [task EXCEPT !.left = @ - 1, !.prev = c, !.new = @ + 1]
        /\ UNCHANGED result
     \/ /\ "grow" \in Faults /\ breaks
        /\ \E b \in x.start..task.prev : fat' = Linked(x.start, b)
        /\ UNCHANGED node
        /\ Return("EIO")
     \/ /\ "grow" \in Faults /\ (breaks \/ ~x.contig)
        /\ node' = [node EXCEPT ![task.f].contig = FALSE]
        /\ fat' \in {linked, [linked EXCEPT ![task.prev] = c]}
        /\ Return("EIO")
  /\ UNCHANGED bug

\* Mutation: what has been allocated so far is kept.
GrowFullKeep ==
  /\ Running /\ task.op = "link" /\ task.left > 0
  /\ Allocate(task.prev + 1) = END
  /\ Return("ENOSPC")
  /\ UNCHANGED <<used, fat, node, bug>>

\* Mutation: the size is recorded as if all had been allocated.
GrowFullGoesOn ==
  /\ Running /\ task.op = "link" /\ task.left > 0
  /\ Allocate(task.prev + 1) = END
  /\ task' = [task EXCEPT !.left = 0]
  /\ UNCHANGED <<used, fat, node, result, bug>>

\* No space: what has been allocated so far is given back.
GrowFull ==
  /\ Running /\ task.op = "link" /\ task.left > 0
  /\ Allocate(task.prev + 1) = END
  /\ IF task.new = 0
     THEN Return("ENOSPC")
     ELSE /\ task' = [op |-> "shrink", f |-> task.f, n |-> task.n,
                      erase |-> task.erase, rc |-> "ENOSPC", left |-> task.new]
          /\ UNCHANGED result
  /\ UNCHANGED <<used, fat, node, bug>>

\* The chain is terminated.
GrowEnd ==
  LET x == node[task.f] IN
  /\ Running /\ task.op = "link" /\ task.left = 0
  /\ \/ /\ fat' = IF x.contig THEN fat ELSE [fat EXCEPT ![task.prev] = END]
        /\ task' = [op |-> "erase", f |-> task.f, n |-> task.n,
                    erase |-> task.erase, rc |-> "ok", left |-> 0]
        /\ UNCHANGED result
     \/ /\ "grow" \in Faults /\ ~x.contig
        /\ fat' \in {fat, [fat EXCEPT ![task.prev] = END]}
        /\ Return("EIO")
  /\ UNCHANGED <<used, node, bug>>

-----------------------------------------------------------------------------
(* shrink_file() *)

\* The clusters the file has: those of its size, or also those a growth that
\* is being undone has added.
Current ==
  node[task.f].size + IF task.rc = "ENOSPC" THEN task.left ELSE 0

\* The whole file goes.
ShrinkAll ==
  LET x == node[task.f] IN
  /\ Running /\ task.op = "shrink" /\ Current = task.left
  /\ IF x.start = FREE THEN Bug
     ELSE /\ node' = [node EXCEPT ![task.f].start = FREE, ![task.f].fi = 0,
                                  ![task.f].fc = FREE]
          /\ task' = [op |-> "free", f |-> task.f, n |-> task.n, prev |-> x.start,
                      erase |-> task.erase, rc |-> task.rc, left |-> task.left]
          /\ UNCHANGED <<used, fat, result, bug>>

\* The file is cropped after its last remaining cluster.  A failure is EIO to
\* exfat_truncate(), and ignored by grow_file().
ShrinkCrop ==
  LET x == node[task.f]
      last == Current - task.left - 1
      failed == IF task.rc = "ok" THEN "EIO" ELSE task.rc
  IN
  /\ Running /\ task.op = "shrink" /\ Current > task.left
  /\ IF x.start = FREE \/ AdvanceBug(x, last) THEN Bug
     ELSE \E y \in Advance(x, last, "shrink" \in Faults) :
       \/ /\ Invalid(y.fc)
          /\ node' = [node EXCEPT ![task.f] = y]
          /\ Return(failed)
          /\ UNCHANGED <<used, fat, bug>>
       \/ /\ ~Invalid(y.fc)
          /\ \E p \in {NextCluster(x, y.fc)} \cup
                      (IF "shrink" \in Faults /\ ~x.contig THEN {BAD} ELSE {}) :
               task' = [op |-> "free", f |-> task.f, n |-> task.n, prev |-> p,
                        erase |-> task.erase, rc |-> task.rc, left |-> task.left]
          /\ fat' = IF x.contig THEN fat ELSE [fat EXCEPT ![y.fc] = END]
          /\ node' = [node EXCEPT ![task.f].fi = 0, ![task.f].fc = x.start]
          /\ UNCHANGED <<used, result, bug>>
       \/ /\ "shrink" \in Faults /\ ~Invalid(y.fc) /\ ~x.contig
          /\ fat' \in {fat, [fat EXCEPT ![y.fc] = END]}
          /\ node' = [node EXCEPT ![task.f] = y]
          /\ Return(failed)
          /\ UNCHANGED <<used, bug>>

\* One cluster is freed.
ShrinkFree ==
  LET x == node[task.f]
      failed == IF task.rc = "ok" THEN "EIO" ELSE task.rc
  IN
  /\ Running /\ task.op = "free" /\ task.left > 0
  /\ IF Invalid(task.prev)
     THEN Return(failed) /\ UNCHANGED <<used, fat>>
     ELSE \/ /\ \E p \in {NextCluster(x, task.prev)} \cup
                         (IF "shrink" \in Faults /\ ~x.contig THEN {BAD} ELSE {}) :
                  task' = [task EXCEPT !.left = @ - 1, !.prev = p]
             /\ fat' = IF x.contig THEN fat ELSE [fat EXCEPT ![task.prev] = FREE]
             /\ used' = used \ {task.prev}
             /\ UNCHANGED result
          \/ /\ "shrink" \in Faults /\ ~x.contig
             /\ fat' \in {fat, [fat EXCEPT ![task.prev] = FREE]}
             /\ Return(failed)
             /\ UNCHANGED used
  /\ UNCHANGED <<node, bug>>

\* All freed: on to the erasing, or back to the failed growth.
ShrinkEnd ==
  /\ Running /\ task.op = "free" /\ task.left = 0
  /\ IF task.rc = "ok"
     THEN /\ task' = [op |-> "erase", f |-> task.f, n |-> task.n,
                      erase |-> task.erase, rc |-> "ok", left |-> 0]
          /\ UNCHANGED result
     ELSE Return(task.rc)
  /\ UNCHANGED <<used, fat, node, bug>>

-----------------------------------------------------------------------------
(* erase_range() and the end of exfat_truncate() *)

\* The new size is recorded.
Resized(y) ==
  /\ node' = [node EXCEPT ![task.f] =
       [y EXCEPT !.size = task.n,
                 !.valid = IF task.erase THEN task.n
                           ELSE IF y.valid < task.n THEN y.valid ELSE task.n]]
  /\ Return("ok")
  /\ UNCHANGED bug

Finish ==
  LET x == node[task.f] IN
  /\ Running /\ task.op = "erase"
  /\ IF ~task.erase \/ x.valid >= task.n THEN Resized(x)
     ELSE IF AdvanceBug(x, x.valid) THEN bug' = TRUE /\ UNCHANGED <<node, task, result>>
     ELSE \E y \in Advance(x, x.valid, "erase" \in Faults) :
       \/ ~Invalid(y.fc) /\ Resized(y)
       \/ /\ Invalid(y.fc) \/ "erase" \in Faults
          /\ node' = [node EXCEPT ![task.f] = y]
          /\ Return("EIO")
          /\ UNCHANGED bug
       \/ /\ ~Invalid(y.fc) /\ "erase" \in Faults /\ ~x.contig /\ task.n - x.valid > 1
          /\ bug' = TRUE
          /\ node' = [node EXCEPT ![task.f] = y]
          /\ UNCHANGED <<task, result>>
  /\ UNCHANGED <<used, fat>>

\* A read or a write positions itself at cluster i of the file.
Position(f, i) ==
  LET x == node[f] IN
  /\ task.op = "none" /\ ~bug
  /\ i < x.size
  /\ IF AdvanceBug(x, i) THEN Bug
     ELSE /\ \E y \in Advance(x, i, "position" \in Faults) : node' = [node EXCEPT ![f] = y]
          /\ UNCHANGED <<used, fat, task, result, bug>>

Next ==
  \/ \E f \in Files, n \in 0..ClusterCount, erase \in BOOLEAN : Truncate(f, n, erase)
  \/ GrowFirst \/ GrowFromLast \/ GrowNext \/ GrowFull \/ GrowEnd
  \/ ShrinkAll \/ ShrinkCrop \/ ShrinkFree \/ ShrinkEnd
  \/ Finish
  \/ \E f \in Files, i \in 0..(ClusterCount - 1) : Position(f, i)

Spec == Init /\ [][Next]_vars
-----------------------------------------------------------------------------
(* Properties *)

\* The types of the nodes, the FAT and the bitmap; valid_size is never more
\* than size, which check_node() demands.
TypeOK ==
  /\ used \subseteq Data
  /\ fat \in [Data -> Data \cup {FREE, END}]
  /\ node \in [Files -> Node]
  /\ \A f \in Files : node[f].valid <= node[f].size
  /\ bug \in BOOLEAN

NoCall == task.op = "none"

\* The clusters the size of f stands for.
Claimed(f) == Chain(node[f], node[f].size)

\* No cluster belongs to two files, or to a file and the system, or to a file
\* while the bitmap calls it free.
NoCrossLink ==
  NoCall => \A f \in Files :
    /\ Claimed(f) \subseteq used \ Reserved
    /\ \A g \in Files \ {f} : Claimed(f) \cap Claimed(g) = {}

\* Between calls the bitmap holds the clusters of files and system and no
\* other, also after a growth was given up half way for lack of space.
NoLeak == NoCall => used = Reserved \cup UNION {Claimed(f) : f \in Files}

\* Every file has as many clusters as its size says, and the FAT chain of one
\* that is not contiguous ends there.
ChainComplete ==
  NoCall => \A f \in Files :
    LET x == node[f] IN
    /\ Cardinality(Claimed(f)) = x.size
    /\ ~x.contig /\ x.size > 0 => fat[Walk(x, x.start, x.size - 1)] = END

\* A file has a start cluster exactly when it is not empty (comment in
\* check_node(), which refuses any other file).
StartMatchesSize ==
  NoCall => \A f \in Files : (node[f].size = 0) <=> (node[f].start = FREE)

\* The cached position is a position in the file's chain, whatever has been
\* cut off and appended since it was taken.
PositionSane ==
  NoCall => \A f \in Files :
    LET x == node[f] IN
    x.fi < x.size => x.fc = Walk(x, x.start, x.fi)

\* A resize is refused for lack of space only when there is too little.
RefusedWhenFull ==
  NoCall /\ result.rc = "ENOSPC" =>
    result.n - node[result.f].size > Cardinality(Data \ used)

\* Bitmap and chains agree on who owns a cluster: nobody owns one twice, none
\* is lost, and none is held back from a file that needs it.
ClustersOwned == NoCrossLink /\ NoLeak /\ RefusedWhenFull

\* No sequence of calls reaches one of the internal checks of cluster.c.
NeverBug == ~bug

\* The walks along a chain start from a position of that chain and never leave
\* it, which is what the internal checks of cluster.c are for.
PositionsSound == PositionSane /\ NeverBug

\* Resizing is all or nothing, within the capacity of the volume.
Sp == INSTANCE Space WITH count <- [f \in Files |-> node[f].size],
                          Capacity <- ClusterCount - Cardinality(Reserved)
ImplementsSpace == Sp!Spec

=============================================================================
