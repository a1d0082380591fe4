--------------------------------- MODULE Fuse ---------------------------------
(***************************************************************************)
(* The FUSE driver, fuse/main.c, on top of libexfat: it serves one request *)
(* at a time, keeps a pointer to a node in every open file, and leaves it  *)
(* to dirty flags what has still to be written.  exfatfsck is the other    *)
(* program that mounts the volume.                                         *)
(*                                                                         *)
(* All objects are in the root directory, which is always in memory and    *)
(* never written back.  A set of entries is written in one step (Slots has *)
(* the steps), a change of size happens or is refused for lack of room     *)
(* (Clusters), sizes are in clusters, and writes reach the medium in their *)
(* order.                                                                  *)
(***************************************************************************)
EXTENDS Integers, FiniteSets, Functions

CONSTANTS
  Names,      \* names that programs use
  Hidden,     \* names that FUSE gives to removed files that are open
  Nodes,      \* memory for nodes
  Clusters,   \* the heap: a set of numbers
  NoNode, NoEntry,
  MaxSize,    \* bound: clusters of a file
  MaxOpen,    \* bound: open files
  MaxFaults,  \* bound: failing writes
  Allow       \* "rename": the write of the new entries may fail in a rename

ASSUME FuseAssumption ==
  /\ Names \cap Hidden = {} /\ NoNode \notin Nodes
  /\ IsFiniteSet(Nodes) /\ IsFiniteSet(Clusters) /\ Clusters \subseteq Nat
  /\ {MaxSize, MaxOpen, MaxFaults} \subseteq Nat
  /\ Allow \subseteq {"rename"}

VARIABLES
  fs,      \* the library and the device
  opens,   \* open files of each node, as FUSE counts them
  state,   \* "up", or "down": no process has the volume mounted
  past,    \* what has happened to the volume:
           \*   "marked": it was mounted although it was marked as in use,
           \*   "unsound": it was mounted although exfatfsck would object to it,
           \*   "unmarked": a process stopped that could not mark it,
           \*   "bitmap": it was unmounted and the bitmap was not written
  aborted, \* exfat_bug() has been called
  faults   \* writes that have failed

vars == <<fs, opens, state, past, aborted, faults>>

AllNames == Names \cup Hidden

Freed == [live |-> FALSE]

\* What the entries of an object say: stamp stands for its times.
Entry == [dir: BOOLEAN, clusters: SUBSET Clusters, stamp: 0..1]

ASSUME EntryAssumption == NoEntry \notin Entry

Node == [live: {TRUE}, name: AllNames, linked: BOOLEAN, dir: BOOLEAN,
         clusters: SUBSET Clusters, stamp: 0..1, dirty: BOOLEAN,
         references: 0..MaxOpen]

Image(o) == [dir |-> o.dir, clusters |-> o.clusters, stamp |-> o.stamp]

\* In fs: the nodes, the bitmap in memory and whether it is dirty (ef->cmap),
\* and on the device the entries, the bitmap and EXFAT_STATE_MOUNTED.
TypeOK ==
  /\ fs \in [node: [Nodes -> Node \cup {Freed}], map: SUBSET Clusters, mapdirty: BOOLEAN,
             entry: [AllNames -> Entry \cup {NoEntry}], bits: SUBSET Clusters, flag: BOOLEAN]
  /\ opens \in [Nodes -> 0..MaxOpen]
  /\ state \in {"up", "down"}
  /\ past \subseteq {"marked", "unsound", "unmarked", "bitmap"}
  /\ aborted \in BOOLEAN
  /\ faults \in 0..MaxFaults

\* mkexfatfs has made the volume.
Init ==
  /\ fs = [node |-> [n \in Nodes |-> Freed], map |-> {}, mapdirty |-> FALSE,
           entry |-> [x \in AllNames |-> NoEntry], bits |-> {}, flag |-> FALSE]
  /\ opens = [n \in Nodes |-> 0]
  /\ state = "down" /\ past = {} /\ aborted = FALSE /\ faults = 0

-----------------------------------------------------------------------------
(* The library: each operator maps one content of fs to the next.  f is    *)
(* the write that fails: "none", "entry", "bitmap".                        *)

Linked(s) == {n \in Nodes : s.node[n].live /\ s.node[n].linked}

\* exfat_lookup().
Lookup(s, x) ==
  IF \E n \in Linked(s) : s.node[n].name = x
  THEN CHOOSE n \in Linked(s) : s.node[n].name = x ELSE NoNode

Spare(s) == {n \in Nodes : ~s.node[n].live}

\* exfat_flush().
FlushMap(s, f) ==
  IF s.mapdirty /\ f # "bitmap" THEN [s EXCEPT !.bits = s.map, !.mapdirty = FALSE] ELSE s

\* exfat_flush_node(): an unlinked node is not written, and only a node that
\* has been written takes the bitmap with it.
FlushNode(s, n, f) ==
  IF ~s.node[n].dirty \/ ~s.node[n].linked \/ f = "entry" THEN s
  ELSE FlushMap([s EXCEPT !.node[n].dirty = FALSE,
                          !.entry[s.node[n].name] = Image(s.node[n])], f)

\* exfat_flush_nodes(), having reached the nodes of done.
FlushNodes(s, done, f) ==
  LET dirty == {n \in Linked(s) \cap done : s.node[n].dirty}
      written == [s EXCEPT
        !.node = [n \in Nodes |-> IF n \in dirty THEN [s.node[n] EXCEPT !.dirty = FALSE]
                                  ELSE s.node[n]],
        !.entry = [x \in AllNames |->
          IF Lookup(s, x) \in dirty THEN Image(s.node[Lookup(s, x)]) ELSE s.entry[x]]]
  IN  IF dirty = {} THEN s ELSE FlushMap(written, f)

\* exfat_update_mtime(), exfat_update_atime(), exfat_utimes().
Touched(s, n) == [s EXCEPT !.node[n].stamp = 1 - @, !.node[n].dirty = TRUE]

\* The k lowest elements of a set.
Lowest(S, k) == {c \in S : Cardinality({b \in S : b < c}) < k}

\* exfat_truncate() to k clusters.
Refused(s, n, k) ==
  k - Cardinality(s.node[n].clusters) > Cardinality(Clusters \ s.map)

Resized(s, n, k) ==
  LET old == s.node[n].clusters
      size == Cardinality(old)
      new == IF k <= size THEN Lowest(old, k)
             ELSE old \cup Lowest(Clusters \ s.map, k - size)
  IN  IF k = size THEN s
      ELSE Touched([s EXCEPT !.node[n].clusters = new,
                             !.map = (@ \ old) \cup new, !.mapdirty = TRUE], n)

\* create() and commit_entry(): the entries are written, then there is a node.
Created(s, n, x, dir) ==
  LET e == [dir |-> dir, clusters |-> {}, stamp |-> 0] IN
  [s EXCEPT !.entry[x] = e,
            !.node[n] = [live |-> TRUE, name |-> x, linked |-> TRUE, dir |-> dir,
                         clusters |-> {}, stamp |-> 0, dirty |-> FALSE, references |-> 0]]

\* delete(): the entries are erased and the node leaves the tree.
Deleted(s, n) ==
  [s EXCEPT !.entry[s.node[n].name] = NoEntry, !.node[n].linked = FALSE]

\* exfat_cleanup_node() of an unlinked node without references; with
\* references it calls exfat_bug().
CleanupBug(s, n) == s.node[n].references # 0

\* Mutation: the clusters of a removed file stay marked.
CleanedKeeps(s, n) == [s EXCEPT !.node[n] = Freed]

Cleaned(s, n) ==
  [s EXCEPT !.map = @ \ s.node[n].clusters,
            !.mapdirty = @ \/ s.node[n].clusters # {}, !.node[n] = Freed]

\* Mutation: a renamed node counts as written.
RenamedClean(s, n, x, f) ==
  [s EXCEPT !.entry = [y \in AllNames |-> IF y = x THEN s.entry[s.node[n].name]
                                          ELSE IF y = s.node[n].name THEN NoEntry
                                          ELSE s.entry[y]],
            !.node[n].name = x, !.node[n].dirty = FALSE]

\* rename_entry(): what is on the device moves, what is dirty stays so.
Renamed(s, n, x, f) ==
  LET o == s.node[n].name IN
  IF f = "rename" THEN [s EXCEPT !.entry[o] = NoEntry]
  ELSE [s EXCEPT !.entry = [y \in AllNames |-> IF y = x THEN s.entry[o]
                                               ELSE IF y = o THEN NoEntry
                                               ELSE s.entry[y]],
                 !.node[n].name = x]

Referenced(s, n, k) == [s EXCEPT !.node[n].references = @ + k]

-----------------------------------------------------------------------------
(* Requests *)

Failing(writes) == {"none"} \cup (IF faults < MaxFaults THEN writes ELSE {})
FlushWrites == {"entry", "bitmap"}

\* A request ends with s.
Done(s, f) ==
  /\ fs' = s
  /\ faults' = faults + (IF f = "none" THEN 0 ELSE 1)
  /\ UNCHANGED <<state, past, aborted>>

Same == UNCHANGED opens

\* The process is gone, and with it all memory.
Gone(s) ==
  [s EXCEPT !.node = [n \in Nodes |-> Freed], !.map = {}, !.mapdirty = FALSE]

Stopped(s) == past \cup (IF s.flag THEN {} ELSE {"unmarked"})

Abort ==
  /\ aborted' = TRUE
  /\ past' = Stopped(fs)
  /\ state' = "down"
  /\ fs' = Gone(fs)
  /\ opens' = [n \in Nodes |-> 0]
  /\ UNCHANGED faults

Opened == FoldFunction(+, 0, opens)

\* fuse_exfat_open(), with O_TRUNC or not.
Open(x, trunc) ==
  LET n == Lookup(fs, x)
      s == Referenced(fs, n, 1)
  IN  /\ state = "up" /\ n # NoNode /\ ~fs.node[n].dir
      /\ Opened < MaxOpen
      /\ opens' = [opens EXCEPT ![n] = @ + 1]
      /\ Done(IF trunc THEN Resized(s, n, 0) ELSE s, "none")

\* fuse_exfat_create().
Create(x) ==
  /\ state = "up" /\ Lookup(fs, x) = NoNode
  /\ Opened < MaxOpen /\ Spare(fs) # {}
  /\ LET n == CHOOSE n \in Spare(fs) : TRUE IN
       /\ opens' = [opens EXCEPT ![n] = 1]
       /\ Done(Referenced(Created(fs, n, x, FALSE), n, 1), "none")

\* fuse_exfat_mknod().
Mknod(x) ==
  /\ state = "up" /\ Lookup(fs, x) = NoNode /\ Spare(fs) # {}
  /\ Done(Created(fs, CHOOSE n \in Spare(fs) : TRUE, x, FALSE), "none")
  /\ Same

\* fuse_exfat_mkdir(): a directory that gets no cluster, or whose cluster
\* cannot be recorded, is deleted again; its cluster, if any, is lost.
Mkdir(x) ==
  /\ state = "up" /\ Lookup(fs, x) = NoNode /\ Spare(fs) # {}
  /\ LET n == CHOOSE n \in Spare(fs) : TRUE
         s == Created(fs, n, x, TRUE)
         gone(t) == [Deleted(t, n) EXCEPT !.node[n] = Freed]
     IN  IF Refused(s, n, 1) THEN Done(gone(s), "none")
         ELSE \E f \in Failing(FlushWrites) :
                LET t == FlushNode(Resized(s, n, 1), n, f) IN
                Done(IF f = "none" THEN t ELSE gone(t), f)
  /\ Same

\* fuse_exfat_read(): the time of access changes.
Read(n) ==
  /\ state = "up" /\ opens[n] > 0 /\ fs.node[n].clusters # {}
  /\ Done(Touched(fs, n), "none")
  /\ Same

\* fuse_exfat_write().
Write(n, k) ==
  /\ state = "up" /\ opens[n] > 0
  /\ k >= Cardinality(fs.node[n].clusters) /\ ~Refused(fs, n, k)
  /\ Done(Touched(Resized(fs, n, k), n), "none")
  /\ Same

\* fuse_exfat_truncate(): the node is flushed also if it has been refused.
Truncate(x, k) ==
  LET n == Lookup(fs, x) IN
  /\ state = "up" /\ n # NoNode /\ ~fs.node[n].dir
  /\ \E f \in Failing(FlushWrites) :
       Done(FlushNode(IF Refused(fs, n, k) THEN fs ELSE Resized(fs, n, k), n, f), f)
  /\ Same

\* fuse_exfat_utimens().
Utimens(x) ==
  LET n == Lookup(fs, x) IN
  /\ state = "up" /\ n # NoNode
  /\ \E f \in Failing(FlushWrites) : Done(FlushNode(Touched(fs, n), n, f), f)
  /\ Same

\* fuse_exfat_flush().
Flush(n) ==
  /\ state = "up" /\ opens[n] > 0
  /\ \E f \in Failing(FlushWrites) : Done(FlushNode(fs, n, f), f)
  /\ Same

\* Mutation: the reference is kept.
ReleaseKeeps(n) ==
  /\ state = "up" /\ opens[n] > 0
  /\ opens' = [opens EXCEPT ![n] = @ - 1]
  /\ \E f \in Failing(FlushWrites) : Done(FlushNode(fs, n, f), f)

\* fuse_exfat_release(): a failed flush leaves a dirty node without
\* references.
Release(n) ==
  /\ state = "up" /\ opens[n] > 0
  /\ opens' = [opens EXCEPT ![n] = @ - 1]
  /\ \E f \in Failing(FlushWrites) : Done(Referenced(FlushNode(fs, n, f), n, -1), f)

\* The nodes that exfat_flush_nodes() has reached when it stops: before the
\* entries that cannot be written, or behind the first ones if the bitmap
\* cannot.
Reached(s, f) ==
  LET dirty == {n \in Linked(s) : s.node[n].dirty} IN
  IF f \notin FlushWrites THEN {Nodes}
  ELSE {done \in SUBSET dirty :
          IF f = "entry" THEN done # dirty
          ELSE s.mapdirty /\ (dirty # {} => Cardinality(done) = 1)}

\* fuse_exfat_fsync(): stops at the first write that fails.
Fsync ==
  /\ state = "up"
  /\ \E f \in Failing(FlushWrites) : \E done \in Reached(fs, f) :
       LET s == FlushNodes(fs, done, f) IN
       Done(IF f = "none" THEN FlushMap(s, f) ELSE s, f)
  /\ Same

\* FUSE hides the object of that name, if it is open, behind another name.
Hide(s, n, h) == IF opens[n] > 0 THEN Renamed(s, n, h, "none") ELSE s

\* exfat_unlink() or exfat_rmdir(), exfat_put_node(), exfat_cleanup_node().
Remove(n) ==
  IF CleanupBug(fs, n) THEN Abort
  ELSE Done(Cleaned(Deleted(fs, n), n), "none") /\ Same

\* fuse_exfat_unlink() and fuse_exfat_rmdir() of an object that is not open,
\* fuse_exfat_rename() of one that is.
Unlink(x, h) ==
  LET n == Lookup(fs, x) IN
  /\ state = "up" /\ n # NoNode
  /\ IF opens[n] > 0
     THEN Lookup(fs, h) = NoNode /\ Done(Hide(fs, n, h), "none") /\ Same
     ELSE Remove(n)

\* FUSE removes a hidden file when it has been released.
Reap(h) ==
  LET n == Lookup(fs, h) IN
  /\ state = "up" /\ n # NoNode /\ opens[n] = 0
  /\ Remove(n)

\* fuse_exfat_rename(): FUSE hides a target that is open; another target is
\* removed first.
Rename(o, x, h) ==
  LET n == Lookup(fs, o)
      e == Lookup(fs, x)
      s == IF e = NoNode THEN fs
           ELSE IF opens[e] > 0 THEN Hide(fs, e, h)
           ELSE Cleaned(Deleted(fs, e), e)
  IN  /\ state = "up" /\ n # NoNode /\ o # x
      /\ e # NoNode => fs.node[e].dir = fs.node[n].dir
      /\ Lookup(fs, h) = NoNode
      /\ IF e # NoNode /\ opens[e] = 0 /\ CleanupBug(fs, e) THEN Abort
         ELSE /\ \E f \in Failing(Allow \cap {"rename"}) : Done(Renamed(s, n, x, f), f)
              /\ Same

-----------------------------------------------------------------------------
(* The life of the mount *)

Used(s) == {x \in AllNames : s.entry[x] # NoEntry}

\* nodeck(): the errors of exfatfsck are clusters in use that the bitmap
\* does not mark.
Unmarked(s) == (UNION {s.entry[x].clusters : x \in Used(s)}) \ s.bits

\* No such errors, and no cluster in two files, which exfatfsck would not see.
Sound(s) ==
  /\ Unmarked(s) = {}
  /\ \A x, y \in Used(s) : x # y => s.entry[x].clusters \cap s.entry[y].clusters = {}

\* exfat_mount() only warns of a volume in use, and looks for no errors.
Taken == past \cup (IF fs.flag THEN {"marked"} ELSE {})
              \cup (IF Sound(fs) THEN {} ELSE {"unsound"})

\* exfat_mount(), and fuse_exfat_init(), which ignores that the super block
\* could not be written.
Mount ==
  /\ state = "down"
  /\ LET node == CHOOSE g \in Injection(Used(fs), Nodes) : TRUE IN
       \E f \in Failing({"super"}) :
         /\ fs' = [fs EXCEPT
              !.node = [n \in Nodes |->
                 IF \A x \in DOMAIN node : node[x] # n THEN Freed
                 ELSE LET x == CHOOSE x \in DOMAIN node : node[x] = n
                          e == fs.entry[x]
                      IN  [live |-> TRUE, name |-> x, linked |-> TRUE, dir |-> e.dir,
                           clusters |-> e.clusters, stamp |-> e.stamp,
                           dirty |-> FALSE, references |-> 0]],
              !.map = fs.bits, !.mapdirty = FALSE,
              !.flag = @ \/ f = "none"]
         /\ faults' = faults + (IF f = "none" THEN 0 ELSE 1)
  /\ state' = "up"
  /\ past' = Taken
  /\ UNCHANGED <<opens, aborted>>

\* exfat_unmount() up to the super block: neither the nodes nor the bitmap
\* need have been written.  The bitmap is tried a second time if it failed
\* with a node.
Unmounting(s, f, done, again) ==
  FlushMap(FlushNodes(s, done, f), IF again THEN "none" ELSE f)

\* fuse_exfat_destroy(): a node that is still dirty is a bug, a bitmap that is
\* still dirty is not.  Files may still be open.
Destroy ==
  /\ state = "up"
  /\ \E f \in Failing(FlushWrites \cup {"super"}), again \in BOOLEAN :
     \E done \in Reached(fs, f) :
       LET t == Unmounting(fs, f, done, again) IN
       /\ IF \E n \in Linked(t) : t.node[n].dirty
          THEN aborted' = TRUE /\ fs' = Gone(t) /\ past' = Stopped(fs)
          ELSE /\ fs' = [Gone(t) EXCEPT !.flag = @ /\ f = "super"]
               /\ past' = past \cup (IF t.mapdirty THEN {"bitmap"} ELSE {})
               /\ UNCHANGED aborted
       /\ faults' = faults + (IF f = "none" THEN 0 ELSE 1)
  /\ state' = "down"
  /\ opens' = [n \in Nodes |-> 0]

\* The process is killed or the machine stops, also between the writes of
\* exfat_flush_node().
Crash ==
  /\ state = "up"
  /\ \E s \in {fs} \cup {FlushNode(fs, n, "bitmap") : n \in Linked(fs)} : fs' = Gone(s)
  /\ past' = Stopped(fs)
  /\ state' = "down"
  /\ opens' = [n \in Nodes |-> 0]
  /\ UNCHANGED <<aborted, faults>>

\* fsck(): mounts, soils, looks and unmounts, after which the volume is not
\* in use whatever has been found, unless it cannot be written.
Fsck ==
  /\ state = "down"
  /\ \E f \in Failing({"super"}) :
       /\ fs' = [fs EXCEPT !.flag = f = "super"]
       /\ faults' = faults + (IF f = "none" THEN 0 ELSE 1)
  /\ past' = Taken
  /\ UNCHANGED <<opens, state, aborted>>

Next ==
  \/ \E x \in Names :
       \/ \E trunc \in BOOLEAN : Open(x, trunc)
       \/ Create(x) \/ Mknod(x) \/ Mkdir(x) \/ Utimens(x)
       \/ \E k \in 0..MaxSize : Truncate(x, k)
       \/ \E h \in Hidden : Unlink(x, h) \/ \E o \in Names : Rename(o, x, h)
  \/ \E n \in Nodes : Read(n) \/ Flush(n) \/ Release(n) \/ \E k \in 1..MaxSize : Write(n, k)
  \/ \E h \in Hidden : Reap(h)
  \/ Fsync \/ Mount \/ Destroy \/ Crash \/ Fsck

Spec == Init /\ [][Next]_vars

-----------------------------------------------------------------------------
(* Properties *)

\* The pointer in an open file (fi->fh) is to a node in the tree, and the
\* references to a node are those of its open files: requests give back what
\* their lookups have taken, so that a node is never freed under a file and
\* never kept from being removed.
HandlesHold ==
  \A n \in Nodes :
    /\ opens[n] > 0 => fs.node[n].live /\ fs.node[n].linked
    /\ fs.node[n].live => fs.node[n].references = opens[n]

\* The checks of exfat_cleanup_node() and reset_cache() do not stop the driver
\* as long as no write has failed: FUSE removes no open file, and the flushes
\* of exfat_unmount() reach every dirty node.
NeverAborts == aborted => faults > 0

\* Open files, references and the tree agree, and the driver does not stop
\* itself over a difference.
HandlesSafe == HandlesHold /\ NeverAborts

\* What is not marked as dirty is on the device as it is in memory: every
\* change of a node or of the bitmap leaves either a dirty flag or no
\* difference, also when a flush fails half way.
CleanIsSaved ==
  state = "up" =>
    /\ \A n \in Linked(fs) :
         ~fs.node[n].dirty => fs.entry[fs.node[n].name] = Image(fs.node[n])
    /\ ~fs.mapdirty => fs.bits = fs.map
    /\ \A x \in AllNames : (fs.entry[x] = NoEntry) <=> (Lookup(fs, x) = NoNode)

\* A volume that is not marked as in use passes exfatfsck and has no cluster
\* in two files, whenever the process has stopped, by itself or not, and
\* whichever writes have failed; if none has, and no session began on a marked
\* volume, no cluster is lost either.  There are three ways to lose the mark,
\* and no others: exfat_unmount() clears it although the bitmap could not be
\* written, fuse_exfat_init() goes on if it cannot be set, and exfat_mount()
\* takes an unsound volume, whose mark the next unmount clears.
FlagTellsTruth ==
  (state = "down" /\ ~fs.flag /\ past \subseteq {"marked"}) =>
    /\ Sound(fs)
    /\ faults = 0 /\ past = {} => fs.bits = UNION {fs.entry[x].clusters : x \in Used(fs)}

\* Only a clean unmount clears the mark: where every session found a sound
\* volume and could mark it, a volume without the mark is sound, also if the
\* writes of exfat_unmount() fail.
UncleanIsMarked ==
  (state = "down" /\ ~fs.flag /\ past \subseteq {"bitmap"}) => Sound(fs)

=============================================================================
