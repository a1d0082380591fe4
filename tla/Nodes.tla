-------------------------------- MODULE Nodes --------------------------------
(***************************************************************************)
(* The node tree of libexfat/node.c and the locks, open files and          *)
(* directory scans that amiga/handler.c keeps on it.  Locks, files and     *)
(* scans hold raw pointers to nodes, so what matters is that no node is    *)
(* freed or moved under them.                                              *)
(*                                                                         *)
(* The handler serves one packet at a time, so one packet is one action.   *)
(* A path is a directory of the tree and a name; names that differ in case *)
(* only are one name.  Nothing changes a directory before it is cached, so *)
(* the children of a directory are those that caching it yields.  The      *)
(* references that a lookup takes are given back within the packet.        *)
(***************************************************************************)
EXTENDS Integers, Sequences, FiniteSets, FiniteSetsExt

CONSTANTS
  Objects,  \* the memory for nodes other than the root
  Root,     \* ef->root
  None,     \* NULL
  Names,
  Locks,    \* the memory for locks
  Scanners, \* bound: the locks that are used for scans
  MaxOpen,  \* bound: open files at once
  Allow     \* failures that may occur: "novolume", add_volume() failed

ASSUME NodesAssumption ==
  /\ Root \notin Objects /\ None \notin Objects \cup {Root} /\ Root # None
  /\ IsFiniteSet(Objects) /\ IsFiniteSet(Locks) /\ IsFiniteSet(Names) /\ None \notin Names
  /\ MaxOpen \in Nat /\ Scanners \subseteq Locks
  /\ Allow \subseteq {"novolume"}

VARIABLES
  node,   \* struct exfat_node of each object, or Freed
  list,   \* the children of each directory, first to last
  lock,   \* struct ExfatLock of each lock, or NoLock
  opens,  \* the struct ExfatFile: how many each object has
  bug     \* the check that has stopped the process in exfat_bug(), or "none"

vars == <<node, list, lock, opens, bug>>

All == Objects \cup {Root}

\* h->nfiles.
Opened == MapThenSumSet(LAMBDA n : opens[n], Objects)

Freed == [live |-> FALSE]
NoLock == [held |-> FALSE]

Node == [live: {TRUE}, dir: BOOLEAN, parent: All \cup {None},
         name: Names \cup {None}, references: Nat]

\* next, index: scan_next and scan_index; key: fib_DiskKey of the client.
\* What the scan has still to do: due has been in the directory since
\* EXAMINE_OBJECT and has not been returned; calm: no rename and no refused
\* delete came between; end: NO_MORE_ENTRIES has been answered.
Lock == [held: {TRUE}, node: All, next: Objects \cup {None},
         index: Int, key: Nat,
         due: SUBSET Objects, calm: BOOLEAN, end: BOOLEAN]

NewLock(n) ==
  [held |-> TRUE, node |-> n, next |-> None, index |-> -1, key |-> 0,
   due |-> {}, calm |-> TRUE, end |-> FALSE]

Init ==
  /\ node = [n \in All |-> IF n # Root THEN Freed
                           ELSE [live |-> TRUE, dir |-> TRUE, parent |-> None,
                                 name |-> None, references |-> 0]]
  /\ list = [n \in All |-> <<>>]
  /\ lock = [l \in Locks |-> NoLock]
  /\ opens = [n \in Objects |-> 0]
  /\ bug = "none"

-----------------------------------------------------------------------------
(* The tree *)

Entries(d) == {list[d][i] : i \in 1..Len(list[d])}

\* S has the parents of all that are in it.
Closed(S) ==
  \A m \in S : node[m].live /\ node[m].parent # None => node[m].parent \in S

\* n with its ancestors.
Up(n) == {m \in All : \A S \in SUBSET All : n \in S /\ Closed(S) => m \in S}

InTree(n) == node[n].live /\ Root \in Up(n)
Dirs == {d \in All : InTree(d) /\ node[d].dir}

\* lookup_name(): the entry of d with that name, or None.
Lookup(d, x) ==
  IF \E n \in Entries(d) : node[n].name = x
  THEN CHOOSE n \in Entries(d) : node[n].name = x ELSE None

\* node->next.
After(n) ==
  LET s == list[node[n].parent]
      i == CHOOSE i \in 1..Len(s) : s[i] = n
  IN  IF i < Len(s) THEN s[i + 1] ELSE None

\* tree_detach(): the list without n, which is in it.
Without(s, n) ==
  LET i == CHOOSE i \in 1..Len(s) : s[i] = n
  IN  [j \in 1..(Len(s) - 1) |-> IF j < i THEN s[j] ELSE s[j + 1]]

\* tree_attach() puts a node first.
Attached(s, n) == <<n>> \o s

Referenced(n, k) == [node EXCEPT ![n].references = @ + k]

\* exfat_put_node().
Put(n) ==
  IF node[n].references = 0 THEN bug' = "put" /\ node' = node
  ELSE bug' = bug /\ node' = Referenced(n, -1)

-----------------------------------------------------------------------------
(* Locks *)

Serving == bug = "none"

\* makelock() on n; the lock is on the volume's lock list if there is one.
MakeLock(l, n) ==
  /\ lock[l] = NoLock
  /\ lock' = [lock EXCEPT ![l] = NewLock(n)]

\* What scan_skip_node() and scan_invalidate_all() can see.
Chained == IF "novolume" \in Allow THEN {} ELSE {l \in Locks : lock[l].held}

LocateObject(l, n) ==
  /\ Serving
  /\ MakeLock(l, n)
  /\ InTree(n)
  /\ node' = Referenced(n, 1)
  /\ UNCHANGED <<list, opens, bug>>

\* COPY_DIR of a lock, or of none: the root.
CopyDir(l, m) ==
  /\ Serving
  /\ m # None => lock[m].held
  /\ LET n == IF m = None THEN Root ELSE lock[m].node IN
       /\ MakeLock(l, n)
       /\ node' = Referenced(n, 1)
  /\ UNCHANGED <<list, opens, bug>>

\* PARENT: the root has none.
Parent(l, m) ==
  /\ Serving
  /\ lock[m].held
  /\ lock[m].node # Root /\ node[lock[m].node].parent # None
  /\ MakeLock(l, node[lock[m].node].parent)
  /\ node' = Referenced(node[lock[m].node].parent, 1)
  /\ UNCHANGED <<list, opens, bug>>

\* COPY_DIR_FH and PARENT_FH, for an open file.
LockFromFh(l, n, wantParent) ==
  /\ Serving
  /\ opens[n] > 0
  /\ LET m == IF ~wantParent THEN n
              ELSE IF node[n].parent = None THEN Root ELSE node[n].parent IN
       /\ MakeLock(l, m)
       /\ node' = Referenced(m, 1)
  /\ UNCHANGED <<list, opens, bug>>

FreeLock(l) ==
  /\ Serving
  /\ lock[l].held
  /\ lock' = [lock EXCEPT ![l] = NoLock]
  /\ Put(lock[l].node)
  /\ UNCHANGED <<list, opens>>

-----------------------------------------------------------------------------
(* Scans *)

\* EXAMINE_OBJECT also arms a scan.
ExamineObject(l) ==
  /\ Serving
  /\ lock[l].held
  /\ lock' = [lock EXCEPT ![l] = [NewLock(lock[l].node) EXCEPT
                                    !.due = Entries(lock[l].node)]]
  /\ UNCHANGED <<node, list, opens, bug>>

\* The scan returns n.
Return(l, n) ==
  lock' = [lock EXCEPT ![l].next = After(n), ![l].index = lock[l].key + 1,
                       ![l].key = @ + 1, ![l].due = @ \ {n}]

\* EXAMINE_NEXT, until it has answered NO_MORE_ENTRIES: from the position in
\* the lock if it belongs to fib_DiskKey, otherwise by counting.
ExamineNext(l) ==
  LET k == lock[l]  s == list[k.node] IN
  /\ Serving
  /\ k.held /\ node[k.node].dir /\ ~k.end
  /\ IF k.index = k.key /\ k.next # None THEN Return(l, k.next)
     ELSE IF k.key + 1 <= Len(s) THEN Return(l, s[k.key + 1])
     ELSE lock' = [lock EXCEPT ![l].next = None, ![l].index = -1, ![l].key = 0,
                               ![l].end = TRUE]
  /\ UNCHANGED <<node, list, opens, bug>>

\* Mutation: a scan on the node counts again instead of going on behind it.
ScanSkipRecounts(n) ==
  [l \in Locks |-> IF l \in Chained /\ lock[l].next = n
                   THEN [lock[l] EXCEPT !.next = None] ELSE lock[l]]

\* Mutation: scans are left where they are.
ScanSkipNothing(n) == lock

\* scan_skip_node().
ScanSkipNode(n) ==
  [l \in Locks |-> IF l \in Chained /\ lock[l].next = n
                   THEN [lock[l] EXCEPT !.next = After(n)] ELSE lock[l]]

\* Scans in the locks k no longer have to return n, which has left.
Forget(k, n) ==
  [l \in Locks |-> IF ~k[l].held THEN k[l]
                   ELSE [k[l] EXCEPT !.due = @ \ {n}]]

\* Scans in the locks k have been disturbed, those of S.
Disturbed(k, S) ==
  [l \in Locks |-> IF l \in S /\ k[l].held THEN [k[l] EXCEPT !.calm = FALSE] ELSE k[l]]

-----------------------------------------------------------------------------
(* Files *)

NewNode(d, x, isdir, refs) ==
  [live |-> TRUE, dir |-> isdir, parent |-> d, name |-> x, references |-> refs]

\* commit_entry(): a node for the new entry x of d, attached, with refs
\* references.
Created(n, d, x, isdir, refs) ==
  /\ node[n] = Freed
  /\ node' = [node EXCEPT ![n] = NewNode(d, x, isdir, refs)]
  /\ list' = [list EXCEPT ![d] = Attached(@, n), ![n] = <<>>]

\* FINDINPUT, FINDUPDATE and FINDOUTPUT of an existing file.
OpenOld(d, x) ==
  LET n == Lookup(d, x) IN
  /\ Serving
  /\ n # None /\ ~node[n].dir
  /\ Opened < MaxOpen
  /\ opens' = [opens EXCEPT ![n] = @ + 1]
  /\ node' = Referenced(n, 1)
  /\ UNCHANGED <<list, lock, bug>>

\* FINDUPDATE and FINDOUTPUT of a name that does not exist create the file.
OpenNew(d, x, n) ==
  /\ Serving
  /\ Lookup(d, x) = None
  /\ Opened < MaxOpen
  /\ Created(n, d, x, FALSE, 1)
  /\ opens' = [opens EXCEPT ![n] = 1]
  /\ UNCHANGED <<lock, bug>>

\* FH_FROM_LOCK: the file takes a reference of its own, the lock goes with its.
FhFromLock(l) ==
  LET n == lock[l].node IN
  /\ Serving
  /\ lock[l].held /\ ~node[n].dir
  /\ Opened < MaxOpen
  /\ opens' = [opens EXCEPT ![n] = @ + 1]
  /\ lock' = [lock EXCEPT ![l] = NoLock]
  /\ UNCHANGED <<node, list, bug>>

\* Mutation: the reference of the file is not given back.
EndKeepsReference(n) ==
  /\ Serving
  /\ opens[n] > 0
  /\ opens' = [opens EXCEPT ![n] = @ - 1]
  /\ UNCHANGED <<node, list, lock, bug>>

\* ACTION_END.
End(n) ==
  /\ Serving
  /\ opens[n] > 0
  /\ opens' = [opens EXCEPT ![n] = @ - 1]
  /\ Put(n)
  /\ UNCHANGED <<list, lock>>

-----------------------------------------------------------------------------
(* Changes of the tree *)

\* CREATE_DIR returns a lock on the new directory.  exfat_split() stops in
\* exfat_bug() if the path is the root's (x = None).
CreateDir(l, d, x, n) ==
  /\ Serving
  /\ lock[l] = NoLock
  /\ IF x = None
     THEN bug' = "split" /\ UNCHANGED <<node, list, lock>>
     ELSE /\ Lookup(d, x) = None
          /\ Created(n, d, x, TRUE, 1)
          /\ lock' = [lock EXCEPT ![l] = NewLock(n)]
          /\ UNCHANGED bug
  /\ UNCHANGED opens

\* delete() and exfat_cleanup_node() of n, which nothing refers to.
Deleted(n) ==
  /\ node' = [node EXCEPT ![n] = Freed]
  /\ list' = [list EXCEPT ![node[n].parent] = Without(@, n)]

\* DELETE_OBJECT: refused while referenced, or while a directory is not empty;
\* the scans have moved on by then.
DeleteObject(d, x) ==
  LET n == Lookup(d, x) IN
  /\ Serving
  /\ n # None
  /\ node[n].references = 0
  /\ IF node[n].dir /\ list[n] # <<>>
     THEN /\ lock' = Disturbed(ScanSkipNode(n), {l \in Locks : lock[l].held /\ lock[l].next = n})
          /\ UNCHANGED <<node, list>>
     ELSE /\ Deleted(n)
          /\ lock' = Forget(ScanSkipNode(n), n)
  /\ UNCHANGED <<opens, bug>>

\* Mutation: a directory may be moved below itself.
MayMoveAnywhere(n, d) == TRUE

\* A directory may not be moved into itself.
MayMove(n, d) == node[n].dir => n \notin Up(d)

\* What is in the way of n at y in e, and whether it can be replaced.
Replaceable(n, old) ==
  node[n].dir = node[old].dir /\ list[old] = <<>>

\* The tree after old, if any, has been freed and n has moved to the name y in e.
Moved(n, e, y, old) ==
  LET kept == IF old = None THEN node ELSE [node EXCEPT ![old] = Freed]
      rest == IF old = None THEN list
              ELSE [list EXCEPT ![node[old].parent] = Without(@, old)]
      left == [rest EXCEPT ![node[n].parent] = Without(@, n)]
  IN  /\ node' = [kept EXCEPT ![n].parent = e, ![n].name = y]
      /\ list' = [left EXCEPT ![e] = Attached(@, n)]

\* RENAME_OBJECT of x in d, or of the root (x = None), to y in e.  The target
\* cannot be the root's path either (y = None).  A target in the way is deleted
\* first; exfat_cleanup_node(), called also if it could not be, stops in
\* exfat_bug() if anything else refers to it.
RenameObject(d, x, e, y) ==
  LET n == IF x = None THEN Root ELSE Lookup(d, x)
      there == Lookup(e, y)
      old == IF there = n THEN None ELSE there
  IN
  /\ Serving
  /\ n # None
  /\ \/ /\ y = None
        /\ bug' = "split"
        /\ UNCHANGED <<node, list, lock>>
     \/ /\ y # None /\ MayMove(n, e)
        /\ old # None /\ node[old].references # 0
        /\ bug' = "cleanup"
        /\ UNCHANGED <<node, list, lock>>
     \/ /\ y # None /\ MayMove(n, e)
        /\ old # None => node[old].references = 0 /\ Replaceable(n, old)
        /\ bug' = bug
        /\ Moved(n, e, y, old)
        /\ lock' = LET k == [l \in Locks |-> IF l \in Chained
                               THEN [lock[l] EXCEPT !.next = None] ELSE lock[l]]
                   IN  Disturbed(Forget(Forget(k, n), old), Locks)
  /\ UNCHANGED opens

-----------------------------------------------------------------------------

\* Paths lead to directories of the tree; the empty path is the root's.
NextPath ==
  LET paths == Dirs \X Names
      all == paths \cup {<<Root, None>>}
  IN
  \/ \E p \in paths :
       \/ OpenOld(p[1], p[2]) \/ DeleteObject(p[1], p[2])
       \/ \E n \in Objects : OpenNew(p[1], p[2], n)
  \/ \E p, q \in all : RenameObject(p[1], p[2], q[1], q[2])
  \/ \E p \in all, l \in Locks, n \in Objects : CreateDir(l, p[1], p[2], n)

Next ==
  \/ \E l \in Locks :
       \/ \E n \in All : LocateObject(l, n)
       \/ \E m \in Locks : CopyDir(l, m) \/ Parent(l, m)
       \/ CopyDir(l, None)
       \/ \E n \in Objects, p \in BOOLEAN : LockFromFh(l, n, p)
       \/ FreeLock(l) \/ FhFromLock(l)
  \/ \E l \in Scanners : ExamineObject(l) \/ ExamineNext(l)
  \/ \E n \in Objects : End(n)
  \/ NextPath

Spec == Init /\ [][Next]_vars

-----------------------------------------------------------------------------
(* Properties *)

\* The types of nodes, locks and counters.
TypeOK ==
  /\ node \in [All -> Node \cup {Freed}]
  /\ list \in [All -> Seq(Objects)]
  /\ lock \in [Locks -> Lock \cup {NoLock}]
  /\ opens \in [Objects -> Nat]
  /\ bug \in {"none", "put", "cleanup", "split"}

\* Every reference belongs to a lock or an open file, through all the packets
\* that hand one on: with one too few exfat_put_node() would stop the process,
\* with one too many the object could never be deleted.
RefsBalanced ==
  \A n \in All :
    node[n].live =>
      node[n].references = Cardinality({l \in Locks : lock[l].held /\ lock[l].node = n})
                             + (IF n = Root THEN 0 ELSE opens[n])

\* The tree is a tree: the list of a directory has each of its children once
\* and nobody else's, no two children share a name, and every node is reached
\* from the root, whatever is renamed into whatever.
TreeSane ==
  /\ \A d \in All, n \in Objects :
       (n \in Entries(d)) <=> (node[n].live /\ node[n].parent = d)
  /\ \A d \in All : \A i, j \in 1..Len(list[d]) :
       i # j => node[list[d][i]].name # node[list[d][j]].name
  /\ \A n \in Objects : node[n].live => InTree(n)

\* Whatever a lock or an open file refers to is in the tree, where its parents
\* can be followed (comment in do_delete_object()).
HeldInTree ==
  /\ \A l \in Locks : lock[l].held => InTree(lock[l].node)
  /\ \A n \in Objects : opens[n] > 0 => InTree(n)

\* A scan is on an entry of its directory, never on a node that has been freed
\* or moved away (comment on scan_skip_node()).
ScanNotDangling ==
  \A l \in Locks :
    lock[l].held /\ lock[l].next # None => lock[l].next \in Entries(lock[l].node)

\* A scan that has come to its end without a rename or a refused delete in
\* between has returned everything that was there all the time, whatever was
\* deleted and created meanwhile.
ScanComplete ==
  \A l \in Locks :
    lock[l].held /\ lock[l].end /\ lock[l].calm => lock[l].due = {}

\* The same whatever happens in between (README: bulk operations are safe).
ScanAlwaysComplete ==
  \A l \in Locks :
    lock[l].held /\ lock[l].end => lock[l].due = {}

\* No packet sequence unbalances a count, up to and including the packet that
\* stops the process if one does, and exfat_put_node() never finds a count at
\* zero (its check "reference counter of '%s' is below zero").
RefsSound == RefsBalanced /\ bug # "put"

\* The check of exfat_cleanup_node(), "unable to cleanup a node with %d
\* references", is never reached: nothing is freed that a lock or an open file
\* refers to.  RENAME_OBJECT onto such an object reaches it.
CleanupSound == bug # "cleanup"

\* The end of exfat_split(), "impossible", is never reached.  CREATE_DIR and
\* RENAME_OBJECT with the empty path reach it.
SplitSound == bug # "split"

\* Renames and deletes keep the tree a tree and all that clients hold in it.
TreeHolds == TreeSane /\ HeldInTree

=============================================================================
