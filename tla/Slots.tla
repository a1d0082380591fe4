-------------------------------- MODULE Slots --------------------------------
(***************************************************************************)
(* The entries of one directory on the medium and the nodes that libexfat  *)
(* keeps of them: finding room, creating, renaming and deleting in         *)
(* libexfat/node.c.                                                        *)
(*                                                                         *)
(* A file is a set of consecutive entries.  exfat_generic_pwrite() stores  *)
(* a set one cluster at a time, so a set that lies across a cluster        *)
(* boundary takes two device writes, each of which is a step and may fail. *)
(* A power cut may come between any two steps, so what a later mount finds *)
(* is the medium in any state.  Offsets count entries from 0.  Renames     *)
(* stay in the directory; one that replaces an object is a delete and a    *)
(* rename.  The checksum and the name are not modelled: a set is good if   *)
(* it is complete.  A file is created once: a retry is another file.  The  *)
(* size of a directory other than the root is in its own entries, in its   *)
(* parent, and follows its clusters only when exfat_flush_node() is called *)
(* for it; the root has no size but that of its chain of clusters.         *)
(***************************************************************************)
EXTENDS Integers, Sequences, FiniteSets

CONSTANTS
  Files,         \* files, each with the clusters it owns
  Lengths,       \* the numbers of entries a name may need, with the two for metadata
  ClusterSlots,  \* entries in a cluster
  MaxClusters,   \* bound: clusters of the directory
  Layout,        \* the first entries of the root: special ones, or Free
  Faults         \* what may fail: "shrink", "erase", "create", "rename", "flush"

Free == [kind |-> "free"]
Special(s) == [kind |-> "special", s |-> s]
Label == Special("label")

ASSUME SlotsAssumption ==
  /\ Lengths \subseteq Nat \ 0..2 /\ ClusterSlots \in Nat \ {0} /\ MaxClusters \in Nat \ {0}
  /\ Layout \in Seq([kind: {"special"}, s: STRING] \cup {Free})
  /\ Len(Layout) <= ClusterSlots
  /\ Faults \subseteq {"shrink", "erase", "create", "rename", "flush"}

VARIABLES
  root,  \* dir == ef->root
  slot,  \* the entries on the medium, in order: the clusters of the directory
  size,  \* the size in the directory's own entries, if it is not the root
  node,  \* each file's node: entry_offset, 1 + continuations and 2 + the
         \* entries that its name needs, or NoNode
  hurt,  \* files whose entries were being changed when a write failed
  task   \* the call in progress

vars == <<root, slot, size, node, hurt, task>>

NoNode == [at |-> -1, n |-> 0, name |-> 0]
NoTask == [op |-> "none"]

\* Entry k of the n entries of f.
Entry(f, k, n) == [kind |-> "file", f |-> f, k |-> k, n |-> n]

Init ==
  /\ root \in BOOLEAN
  /\ slot = [i \in 1..ClusterSlots |-> IF root /\ i <= Len(Layout) THEN Layout[i] ELSE Free]
  /\ size = ClusterSlots
  /\ node = [f \in Files |-> NoNode]
  /\ hurt = {}
  /\ task = NoTask

-----------------------------------------------------------------------------
(* Finding room *)

Offsets == 0..(Len(slot) - 1)
At(i) == slot[i + 1]

\* The bitmap of find_slot(): entries of nodes.
Taken == UNION {node[f].at..(node[f].at + node[f].n - 1) : f \in Files}

\* ROUND_UP() to whole clusters.
RoundUp(n) == ((n + ClusterSlots - 1) \div ClusterSlots) * ClusterSlots

\* Mutation: the special entries of the root are not looked at.
CheckSlotNever(i, n) == TRUE

\* check_slot(): only the root has entries without a node.
CheckSlot(i, n) == root => \A j \in i..(i + n - 1) : At(j) = Free

Fits(i, n) == i + n <= Len(slot) /\ \A j \in i..(i + n - 1) : j \notin Taken

\* The entries at the end that find_slot() has counted when it gets there.
Counted(n) ==
  LET runs == {k \in 0..(n - 1) : \A j \in (Len(slot) - k)..(Len(slot) - 1) :
                                     j >= 0 /\ j \notin Taken}
  IN  CHOOSE k \in runs : \A m \in runs : m <= k

\* find_slot(): the first place that fits, or the end of the directory, which
\* then has to grow.
FindSlot(n) ==
  LET good == {i \in Offsets : Fits(i, n) /\ CheckSlot(i, n)}
      at == IF good # {} THEN CHOOSE i \in good : \A j \in good : i <= j
            ELSE Len(slot) - Counted(n)
  IN  [at |-> at, size |-> RoundUp(IF good # {} THEN Len(slot) ELSE at + n)]

\* exfat_truncate() of the directory: new entries are zeros.
Resized(s, n) == [i \in 1..n |-> IF i <= Len(s) THEN s[i] ELSE Free]

-----------------------------------------------------------------------------
(* Reading the directory, as a mount does *)

Broken == [f |-> "broken"]

\* check_entries() and the checksum: the n entries of s at offset o are one set.
WholeSet(s, o, n) ==
  /\ o + n <= Len(s)
  /\ \A k \in 1..n : s[o + k] = [s[o + 1] EXCEPT !.k = k]

\* exfat_cache_directory(): the nodes that readdir() makes of the entries of s,
\* or Broken.  Entries without the first one of their set are unknown ones.
ReadDir(s) ==
  LET from[o \in 0..Len(s)] ==
        IF o = Len(s) THEN {}
        ELSE LET e == s[o + 1] IN
             IF e.kind # "file" THEN from[o + 1]
             ELSE IF e.k = 1 /\ WholeSet(s, o, e.n)
             THEN {[f |-> e.f, at |-> o, n |-> e.n]} \cup from[o + e.n]
             ELSE {Broken}
  IN  from[0]

-----------------------------------------------------------------------------
(* Device writes *)

\* The end of the first device write of entries i..(i + n - 1).
Piece(i, n) ==
  LET boundary == RoundUp(i + 1) IN IF boundary < i + n THEN boundary ELSE i + n

\* Entry k of the set that the task writes.  rename_entry() has read the first
\* two from the old place, whatever is there.
Content(k) ==
  IF k > Len(task.head) THEN Entry(task.f, k, task.n)
  ELSE IF task.head[k].kind = "file" THEN [task.head[k] EXCEPT !.n = task.n]
  ELSE task.head[k]

\* s with the entries from..(to - 1) of the task's set written or erased.
Written(s, from, to) ==
  [i \in 1..Len(s) |-> IF i - 1 \in from..(to - 1) THEN Content(i - task.at) ELSE s[i]]
Erased(s, from, to) ==
  [i \in 1..Len(s) |-> IF i - 1 \in from..(to - 1) THEN Free ELSE s[i]]

Idle == task.op = "none"

\* The calls.  The room for a new set is found, and made, first.
Room(n) ==
  LET r == FindSlot(n) IN
  /\ r.size <= MaxClusters * ClusterSlots
  /\ slot' = Resized(slot, r.size)

\* create().
Create(f, n) ==
  /\ Idle /\ node[f] = NoNode /\ f \notin hurt
  /\ Room(n)
  /\ task' = [op |-> "write", f |-> f, at |-> FindSlot(n).at, n |-> n,
              done |-> 0, head |-> <<>>]
  /\ UNCHANGED <<root, size, node, hurt>>

\* exfat_unlink() and exfat_rmdir().
Delete(f) ==
  /\ Idle /\ node[f] # NoNode
  /\ task' = [op |-> "erase", f |-> f, done |-> 0, then |-> "delete"]
  /\ UNCHANGED <<root, size, slot, node, hurt>>

\* Mutation: the new set is written before the old one is erased.
RenameWriteFirst(f, n) ==
  /\ Idle /\ node[f] # NoNode
  /\ Room(n)
  /\ task' = [op |-> "write", f |-> f, at |-> FindSlot(n).at, n |-> n,
              done |-> 0, head |-> <<At(node[f].at), At(node[f].at + 1)>>]
  /\ UNCHANGED <<root, size, node, hurt>>

\* exfat_rename() to a name that needs n entries.
Rename(f, n) ==
  /\ Idle /\ node[f] # NoNode
  /\ Room(n)
  /\ task' = [op |-> "erase", f |-> f, done |-> 0, then |-> "rename",
              at |-> FindSlot(n).at, n |-> n,
              head |-> <<At(node[f].at), At(node[f].at + 1)>>]
  /\ UNCHANGED <<root, size, node, hurt>>

\* Mutation: only the first entry of a set is erased.
EraseFirstOnly ==
  /\ task.op = "erase" /\ task.done < node[task.f].n
  /\ slot' = Erased(slot, node[task.f].at, node[task.f].at + 1)
  /\ task' = [task EXCEPT !.done = node[task.f].n]
  /\ UNCHANGED <<root, size, node, hurt>>

\* erase_node(): the next piece of the set.  The write may fail before or after
\* the medium has changed, as may the flush of the directory's own node.
EraseStep ==
  LET x == node[task.f]
      from == x.at + task.done
      to == Piece(from, x.n - task.done)
  IN
  /\ task.op = "erase" /\ task.done < x.n
  /\ \/ /\ slot' = Erased(slot, from, to)
        /\ task' = [task EXCEPT !.done = to - x.at]
        /\ UNCHANGED hurt
     \/ /\ "erase" \in Faults
        /\ slot' \in {slot, Erased(slot, from, to)}
        /\ task' = NoTask
        /\ hurt' = hurt \cup {task.f}
  /\ UNCHANGED <<root, size, node>>

\* shrink_directory(): if nothing lies behind the deleted set, the clusters
\* behind the last node, whose length is that of its name, go.
Shrunk(s, nodes, deleted) ==
  LET rest == {f \in Files : nodes[f] # NoNode}
      last == CHOOSE f \in rest : \A g \in rest : nodes[f].at >= nodes[g].at
      end == IF rest = {} THEN 0 ELSE nodes[last].at + nodes[last].name
  IN  IF \E f \in rest : nodes[f].at > deleted THEN s
      ELSE Resized(s, IF end = 0 THEN ClusterSlots ELSE RoundUp(end))

\* The set has been erased.  erase_node() flushes the directory's own node; then
\* delete() takes the node out of the tree, or rename_entry() goes on.
EraseEnd ==
  LET x == node[task.f] IN
  /\ task.op = "erase" /\ task.done = x.n
  /\ size' = Len(slot)
  /\ IF task.then = "delete"
     THEN /\ node' = [node EXCEPT ![task.f] = NoNode]
          /\ task' = [op |-> "shrink", f |-> task.f, at |-> x.at]
     ELSE /\ node' = [node EXCEPT ![task.f].at = task.at, ![task.f].n = task.n]
          /\ task' = [op |-> "write", f |-> task.f, at |-> task.at, n |-> task.n,
                      done |-> 0, head |-> task.head]
  /\ UNCHANGED <<root, slot, hurt>>

\* delete() goes on: the directory is cut, which may fail before anything has
\* changed.  Its size on the medium is still the old one.
Shrink ==
  /\ task.op = "shrink"
  /\ \/ slot' = Shrunk(slot, node, task.at)
     \/ "shrink" \in Faults /\ UNCHANGED slot
  /\ task' = [op |-> "flush", f |-> task.f]
  /\ UNCHANGED <<root, size, node, hurt>>

\* The end of create() and delete(): exfat_flush_node() of the directory, which
\* does nothing for the root.
Flush ==
  /\ task.op = "flush"
  /\ \/ size' = Len(slot) /\ UNCHANGED hurt
     \/ /\ ~root /\ "flush" \in Faults
        /\ hurt' = hurt \cup {task.f}
        /\ UNCHANGED size
  /\ task' = NoTask
  /\ UNCHANGED <<root, slot, node>>

\* write_entries(): the next piece of the set.  A failure after the last piece is
\* also what allocate_node() without memory looks like.
WriteStep ==
  LET from == task.at + task.done
      to == Piece(from, task.n - task.done)
  IN
  /\ task.op = "write" /\ task.done < task.n
  /\ \/ /\ slot' = Written(slot, from, to)
        /\ task' = [task EXCEPT !.done = to - task.at]
        /\ UNCHANGED hurt
     \/ /\ (IF task.head = <<>> THEN "create" ELSE "rename") \in Faults
        /\ slot' \in {slot, Written(slot, from, to)}
        /\ task' = NoTask
        /\ hurt' = hurt \cup {task.f}
  /\ UNCHANGED <<root, size, node>>

\* The node of a new set is made when all of it has been written.  A rename has
\* nothing more to flush.
WriteEnd ==
  /\ task.op = "write" /\ task.done = task.n
  /\ node' = [node EXCEPT ![task.f] = [at |-> task.at, n |-> task.n, name |-> task.n]]
  /\ task' = IF task.head = <<>> THEN [op |-> "flush", f |-> task.f] ELSE NoTask
  /\ UNCHANGED <<root, slot, size, hurt>>

\* exfat_set_label(): the label's entry, or a free one.
SetLabel(on) ==
  LET there == {i \in Offsets : At(i) = Label}
      at == IF there # {} THEN CHOOSE i \in there : \A j \in there : i <= j
            ELSE FindSlot(1).at
  IN
  /\ Idle /\ root
  /\ there # {} \/ FindSlot(1).size <= MaxClusters * ClusterSlots
  /\ slot' = [Resized(slot, IF there # {} THEN Len(slot) ELSE FindSlot(1).size)
                EXCEPT ![at + 1] = IF on THEN Label ELSE Free]
  /\ UNCHANGED <<root, size, node, hurt, task>>

Next ==
  \/ \E f \in Files : Delete(f) \/ \E n \in Lengths : Create(f, n) \/ Rename(f, n)
  \/ EraseStep \/ EraseEnd \/ Shrink \/ Flush \/ WriteStep \/ WriteEnd
  \/ \E on \in BOOLEAN : SetLabel(on)

Spec == Init /\ [][Next]_vars

-----------------------------------------------------------------------------
(* Properties *)

\* The types of the directory, the nodes and the call in progress.
TypeOK ==
  /\ Len(slot) % ClusterSlots = 0
  /\ Len(slot) \in 1..(MaxClusters * ClusterSlots)
  /\ \A i \in Offsets : At(i).kind \in {"free", "special", "file"}
  /\ \A f \in Files : \/ node[f] = NoNode
                    \/ /\ node[f].n \in Lengths /\ node[f].name \in Lengths
                       /\ node[f].at \in Offsets
  /\ hurt \subseteq Files
  /\ task.op \in {"none", "write", "erase", "shrink", "flush"}
  /\ size \in 1..(MaxClusters * ClusterSlots)

\* What a mount takes for the size of the directory: rootdir_size() goes by the
\* chain of clusters.
Size == IF root THEN Len(slot) ELSE size

\* The set of f is on the medium, whole, where its node says and a mount looks.
Good(f) ==
  /\ node[f].at + node[f].n <= Len(slot) /\ node[f].at + node[f].n <= Size
  /\ \A k \in 1..node[f].n : At(node[f].at + k - 1) = Entry(f, k, node[f].n)

\* A call never damages the entries of another file, whether it succeeds, fails
\* or is cut off half way: every file that has not been touched by a failed
\* write is on the medium where its node says.
OthersIntact ==
  \A f \in Files : node[f] # NoNode /\ f \notin hurt /\ (Idle \/ task.f # f) => Good(f)

\* A mount finds exactly the files that the session before it had: between calls,
\* with no write failed so far, the directory has its size, and reading the
\* entries gives the nodes.
RemountAgrees ==
  Idle /\ hurt = {} =>
    /\ Size = Len(slot)
    /\ ReadDir(slot) = {[f |-> f, at |-> node[f].at, n |-> node[f].n] :
                          f \in {g \in Files : node[g] # NoNode}}

\* At no moment does the medium describe a file twice, which would give its
\* clusters to two files after a power cut.
NeverTwice ==
  \A i, j \in Offsets :
    At(i).kind = "file" /\ At(j).kind = "file" /\ At(i).k = 1 /\ At(j).k = 1
      /\ At(i).f = At(j).f => i = j

\* A directory claims more clusters than it has, so that a mount may fail to read
\* it, only between shrink_directory() and the flush that follows, or because
\* that flush has failed.
SizeFits == Size > Len(slot) => task.op = "flush" \/ hurt # {}

\* Whenever the power is cut, every file that was not being changed is there,
\* whole and once, where a mount looks; a directory may be unreadable only if it
\* was just being cut.
EntriesSound == OthersIntact /\ NeverTwice /\ SizeFits

\* The bitmap and the upcase table entries that mkfs has made stay, and so does
\* a label (comment in check_slot()).
SpecialsKept ==
  [][\A i \in Offsets : At(i).kind = "special" =>
       i < Len(slot') /\ (slot'[i + 1] = At(i) \/ (At(i) = Label /\ slot'[i + 1] = Free))]_vars

=============================================================================
