# A TLA+ verification of the exFAT file system and its AmigaDOS handler

The repository holds libexfat (a user-space exFAT implementation), the Unix tools and the
FUSE file system built on it, and `amiga/`, an AmigaDOS handler that serves exFAT cards in
a slot watched by `sagasd.device`. This directory models the parts of it that keep state
which can go wrong, checks them with TLC on small instances, and proves with TLAPS, for every
number of cards, locks, files, clusters and entries, the safety of the handler's life cycle, the
handlers of several partitions, the node tree, the directory entries, cluster allocation, file data,
the device layer, formatting and mounting, the FUSE driver and the exchange of time stamps.

`PROJECT.json` lists the components, runs, mutants, findings, hazards and theorems, and
maps each definition to the lines it stands for.

## 1. The system

| Part | State | Operations | Module |
|---|---|---|---|
| handler life cycle, `amiga/handler.c` | `mounted`, `inhibited`, `nlocks`, `nfiles`, the volume node, VolumeDirty on the card | the packets INHIBIT (park, release, resume), DIE, FORMAT, FLUSH, and those that make or return locks and files or change the volume; start, end, reset | `Handler` |
| locks, files and scans, `amiga/handler.c` | locks and files holding node pointers; `scan_next`, `scan_index` | LOCATE, COPY_DIR, PARENT, FREE_LOCK, EXAMINE, FIND*, FH_FROM_LOCK, END, CREATE_DIR, DELETE, RENAME | `Nodes` |
| node tree, `libexfat/node.c`, `lookup.c` | children, parents, reference counts | create, unlink, rmdir, rename, get, put, cleanup | `Nodes` |
| directory entries, `libexfat/node.c` | entry sets on the medium, `entry_offset`, `continuations` | find_slot, commit_entry, erase_node, rename_entry, shrink_directory, set_label | `Slots` |
| cluster allocation, `libexfat/cluster.c` | bitmap, FAT, chains, cached chain position | exfat_truncate (grow, shrink, erase), exfat_advance_cluster | `Clusters`, implements `Space` |
| file data, `libexfat/io.c`, `amiga/handler.c` | `size`, `valid_size`, bytes, a position per handle | READ, WRITE, SEEK, SET_FILE_SIZE, opening with FINDOUTPUT | `FileIO`, implements `File` |
| block device, `amiga/dev_io.c` | bounce buffer, `bounce_lba`, position | open, close, seek, read, write, pread, pwrite | `DevIO` |
| partitions, `amiga/parttable.c`, `amiga/handler.c` | the DOS device nodes of a card, one handler process each, the names to wake, the activation process | scanning MBR, EBR and GPT, publishing nodes, starting, parking and waking their handlers | `Partitions` |
| mounting, `libexfat/mount.c`, `repair.c` | the boot region and its checksum, the root chain, the special entries; the VolumeDirty flag and the percentage in use | exfat_mount, exfat_soil_super_block, exfat_unmount | `Mount` (operators) |
| formatting, `mkfs/`, `amiga/format.c` | the device, unit by unit | mkexfatfs, ACTION_FORMAT, each write of them | `Mkfs`, on top of `Mount` |
| FUSE driver, `fuse/main.c`, and exfatfsck, `fsck/main.c` | open files, nodes with their dirty flags, the bitmap, the entries on the device | all requests that change something, mount, unmount, crash, check | `Fuse` |
| names and dates, `libexfat/utf.c`, `time.c`, `lookup.c`, `amiga/amigaos.c` | a volume that several machines use in turn | conversions, set date, utimens, create, mount | `Names`, `Times` (operators), `Exchange` |
| logging, headers, other tools, start-up | | | not modelled, section 8 |

How they interact. The handler is one process that takes one packet at a time, so two packets never
overlap; what interleaves is the order of packets of different clients, the events of the slot, and
the mounter (`sagasd.device`), which inhibits and uninhibits the handler. A card with several
partitions has several such processes, and a helper process for each mount that starts or wakes the
others. The FUSE driver is another process on top of the same library, which serves one request at a
time. A packet calls libexfat; libexfat keeps the node tree, bitmap and chains in memory and writes
FAT entries, directory entries and data through the device layer, one device transfer at a time, any
of which may fail because the card is gone. A power cut may come between any two transfers.

What is hard, and what correctness means:

* *life cycle*: the card may change while clients hold locks and files. A mount must never
  serve, or write to, another card; changes in memory must be flagged VolumeDirty on the
  card; a released handler must become usable again.
* *node tree*: locks, files and scans keep raw pointers between packets. Nothing they point
  to may be freed or leave the tree; a scan must return everything.
* *entries*: a set of entries takes several writes. A failed or interrupted call must not
  damage other files and must not leave a file twice.
* *clusters*: bitmap, FAT and chain must agree, also when the volume fills up half way
  through a growth; the cached position must survive every resize.
* *data*: bytes behind `valid_size` belong to deleted files and must never be readable.
* *partitions*: device nodes and handlers of one card are still there when the next comes. No
  two handlers may serve the same sectors, nor one serve what the table does not list; every
  partition must be served.
* *formatting*: a format is many writes over an older volume. If it stops, nothing may be left
  that mounts and does not hold together; if it ends, the volume must mount.
* *FUSE*: open files may be removed and renamed over, flushes fail, the process is killed.
  Whatever is not marked dirty must be on the device, and a volume that is not marked as in use
  must be consistent.
* *names and dates*: three representations of each. A name that is shown must lead back to its
  object, a date must not drift when machines in other zones rewrite the entry.
* *device*: a one-block cache that is also the transfer buffer must never be stale.

## 2. How to read a module

Each component is a module with its CONSTANTS and a named ASSUME, VARIABLES, one action per packet,
call or device transfer, `Next`, `Spec` and its properties (in Mkfs and Exchange, which one module
of proofs extends together with another component, `MkfsSpec` and `ExchangeSpec`). A comment names
the function each definition stands for. Definitions under "Mutation:" are variants of the next
definition with a plausible bug in them. They are used nowhere in the specifications; replacing the
definition by its variant makes the property named in `PROJECT.json` fail, which shows that the
property depends on that piece of code. `MC*` modules and the `.cfg` files give the constants
values.

### Handler

One packet is one action; any packet may be waiting at any moment. `ef` is `struct exfat`
reduced to the card it describes (`home`), read-only, and whether nodes or the bitmap are
dirty; `disk` has for each card whether it is exFAT, its VolumeDirty flag, and the two ghost
fields `lost` (acknowledged changes that are gone) and `spoiled` (written by the mount of
another card). `FlushResults` and `WriteResults` are the outcomes an access can have: with no
card it fails, with `IOErrors` it may also fail with one. `InhibitOn` is `do_inhibit(TRUE)`:
with handles outstanding it parks the mount (flush, clear or keep the flag, detach the volume
node), otherwise it releases it. `InhibitOff` mounts afresh if nothing is parked and resumes a
parked mount only if `same_volume()` says so. `FreeLock` and `End` finish the release with the
last handle (`ReleaseIfIdle`). The mounter, outside the repository, is `Pull`, `Insert`,
`MounterInhibit`, `MounterUninhibit`, `MounterUnlist`: it inhibits when the card has gone and
waits for the reply before it lets another card be used.

### Nodes

`node` and `list` are the tree as memory cells, `lock` the locks with their scan position,
`opens` the open files. `DeleteObject` runs `scan_skip_node()` before it deletes, `RenameObject`
runs `scan_invalidate_all()` after it, as the code does. The ghost fields `due`, `calm` and
`end` of a lock say what a scan still owes, whether a rename or a refused delete disturbed it,
and that it has ended. `bug` says which of the checks that call `exfat_bug()` has stopped the
process, if one has; any path may be the empty one, and any object the target of a rename. `Allow`
switches on locks made while `add_volume()` failed (`"novolume"`, section 5).

### Slots

One directory (the root or another) as a sequence of entries; a call in progress is `task`, and each
device write of it is a step (`EraseStep`, `WriteStep`), since `exfat_generic_pwrite()` writes
cluster by cluster. `FindSlot` is `find_slot()` with its count of entries at the end; `Shrunk` is
`shrink_directory()` on the clusters (`Shrink`), and `Flush` the `exfat_flush_node()` behind it that
writes the new `size` into the directory's own entries; a root has no such entries, and a mount goes
by its chain (`Size`). `hurt` has the files whose own entries were being changed when a write failed.
`ReadDir` is what `readdir()` makes of the entries at a mount: a set is read if `check_entries()`
finds it whole (`WholeSet`), and a broken one makes the directory unreadable; `RemountAgrees`
compares the result with the nodes in memory. Every reachable state is one a power cut may leave on
the medium.

### Clusters and Space

A call of `exfat_truncate()` is taken apart at its FAT accesses: `GrowFirst`, `GrowFromLast`,
`GrowNext` (one cluster, with the fall from contiguous to fragmented), `GrowFull` (undo),
`ShrinkCrop`, `ShrinkFree`, `Finish` (erasing). `Position` is `exfat_advance_cluster()` by a
read. `Space` is what callers are promised: a resize happens as a whole or not at all and
within the capacity. `Sp` maps the sizes of the nodes to it.

### FileIO and File

One file, several handles. `Pwrite` makes the hole with `Truncate`, stores cluster by cluster
and moves `valid_size`; freed and new clusters hold `Stale`. A file may come with a `valid_size`
below its size, and a write may begin anywhere. `File` is the promise: the content is what was
written, zeros elsewhere; a failed write stores a prefix; the first `sure` bytes stay what they are,
but a write that begins in the file behind them may leave anything in between (`Junk`), because
io.c:518 does (`NeverStale`, section 5). `Abstract` maps the bytes below `valid_size`, zeros behind it, to
`content`, and `valid_size` to `sure`.

### Partitions

A card is its boot sectors, its MBR, EBRs by sector and GPT entries, with eight sectors in all;
`Table` is what `exfat_amiga_scan_partitions()` finds. `node` has the DOS nodes of the unit, which
are never removed; `h` one handler per name. `Resolve` is `resolve_extent()`, which publishes the
other partitions before the mount is tried; `Startup` and `Uninhibit` end with
`activate_partitions()`, and `HelperStep` is one packet of the activation process. A handler whose
`mount_fs()` fails at startup is `"dead"`: the node keeps the port of a process that has ended
(handler.c:2277), and nobody answers there. Taken from how the code describes `sagasd.device`
(outside the repository): it inhibits every handler that runs when the card goes, and wakes the
handler of name 0 only, until that accepts. Cards are pulled and put in whether activation processes
run or not, as long as the bound on their number leaves room for the next. Such a process knows
nothing of the change: a job carries the card whose names it goes through, a handler the card for
which it was woken (`by`), and `Astray` is a handler woken for one card on another that does not list
its partition. `Allow = {"blind"}` switches on clients that use names of earlier cards.

### DevIO

`partition_io()` is taken apart into head, whole-block middle (in pieces of `MaxTransfer`,
through the bounce buffer if the caller's buffer violates `de_Mask`) and tail, one device
transfer each. The card may be pulled between any two; another one comes in only between
calls, which `RightMedium` of Handler justifies.

### Mount and Mkfs

A device is a function from units of 512 bytes to what they hold: FAT entries, bits, directory
entries, parts of the boot region. `Mount` has what `exfat_mount()` accepts of it (`Mounts`), with
the repair of the boot checksum or without, and what soiling and finalizing change; a checksum is an
injective function of the bytes that it covers, so that `VbrChecksum` says which those are. `Mkfs`
computes the layout from the size of the device and the parameters as `get_position()` and the
`*_size()` functions do, and a format as the sequence of its writes (`Writes`), of which
`Interrupt` ends one after any unit. `Setup` is mkexfatfs, `AmigaFormat` the packet.

### Fuse

`fs` is the library in memory and the device: nodes with dirty flag and references, the bitmap with
its dirty flag, entries, bitmap and VolumeDirty flag on the device. Every request is an action; the
writes that a flush makes may fail (`MaxFaults`). libfuse, outside the repository, renames an open
file that is removed (`Hide`) and removes it when it is closed (`Reap`); with `hard_remove` it would
not, which the driver does not ask for. `Destroy` is `exfat_unmount()`, any of whose writes may fail,
`Crash` a process that is killed, also between the two writes of a flush; writes reach the medium in
their order. `Fsck` is exfatfsck. `past` has what happened to the volume that bears on its flag:
mounted although marked, mounted although unsound, not markable, unmounted without its bitmap.
`Allow = {"rename"}` switches on a failing write of the new entries in a rename (section 5).

### Names, Times and Exchange

`Names` and `Times` are operators with the names of the C functions. A string is a sequence of
units, a `time_t` a pair of days and seconds, since exFAT goes beyond 2^31 seconds; `Wrap` is a
32-bit `time_t`. `Civil` is the calendar independently of the code. `Exchange` has one directory and
the modification time of one file on a volume that an Amiga, POSIX machines and other systems mount
in turn; `meant` is the time that was set last, kept apart from all conversions, and `setter` who
set it. What the Amiga sets is a reading of its local clock, whose zone nothing records.

## 3. Runs

| Run | Bounds | What it shows |
|---|---|---|
| `handler_faults` | 3 cards, one of them write-protected, 2 locks, 2 files, failing I/O, busy DOS list | no handle outlives its mount; no card is served or written through another's metadata; idle inhibited volumes are released; parked mounts are clean; handles never change volume |
| `handler_flags` | 3 cards, 1 lock, 1 file, I/O that works while a card is in, fairness | unsaved changes are flagged; the flag is cleared only with everything written; the volume is shown; a card is eventually served |
| `nodes_tree` | 3 objects, 3 names, 2 locks, 1 open file | references are balanced and never below zero, the tree stays a tree, held objects stay in it, scans do not dangle and miss nothing, also where a packet ends in `exfat_bug()` |
| `slots_root` | 3 files of 3 or 4 entries, 2 clusters of 6 entries, failing erases, creates, truncations and flushes; a root or another directory | others' entries stay intact and within their directory's size, a mount reads back the nodes there were, a file is never there twice, special entries stay |
| `clusters_full` | 2 files, 5 clusters | no cross-links, no leaks, complete chains, sane positions, refusal only when full, implements `Space` |
| `fileio_data` | 5 bytes in clusters of 2, 2 handles, full volume, failing writes | stale bytes come below `valid_size` in one way only, reads exact, implements `File` |
| `dev_cache` | blocks of 2 bytes, an unaligned partition of 5, transfers of 3, two cards, failing transfers | the cache is never stale, reads and writes are exact and stay in the partition, the boot sector read sees the card in the slot |
| `parts_swap` | 4 cards (three partitions in a GPT; an extended partition; no table over leftovers of the others; three with the second broken), 3 names and one taken by another unit, 2 activation processes, locks on one name, one handler that may be ended, fairness | one node for each partition; handlers astray apart, no double service and nothing unlisted served; all partitions of a card that stays are served |
| `mkfs_cut` | devices of 5 sizes between 100 and 320 units, blank or with a volume of either cluster size; 6 kinds of format, stopping anywhere; mounts, unmounts and crashes | what mounts holds together, a finished format mounts with its label, a volume that mounts goes on to mount |
| `mkfs_4k` | ACTION_FORMAT on blocks of 4096 bytes | *fails*: section 5 |
| `fuse_crash` | 2 names and a hidden one, 2 nodes, 2 clusters, 2 open files, 1 failing write | open files and references agree and nothing stops the driver unless a write has failed, what is clean is saved, the VolumeDirty flag tells the truth after any crash or unmount but for three named ways to lose it |
| `exchange` | 3 zones, 6 dates and 3 foreign stamps at boundaries, 16 names of up to 3 units, 2 at a time; all dates of exFAT; all names of up to 3 out of 14 units | dates do not drift, names that are shown lead back, conversions are exact |

Why the bounds suffice. Handler: the counters matter as zero, one and more; three cards give
one that is mounted, one that replaces it and a write-protected one. Nodes: three objects make a
directory in a directory with an object in it, or three siblings for a scan with something
before, at and behind it. Slots: six entries to a cluster make every set of the tail cross a
boundary; two clusters let the directory grow and shrink. Clusters: a gap on either side, a
contiguous and a fragmented file, and a volume that fills up. FileIO: three clusters make head,
middle and tail, with both sizes inside and at boundaries. DevIO: an unaligned partition with
head, middle and tail and `MaxTransfer` that is no multiple of a block. Partitions: three places
for partitions, so that any two cards may agree or differ on the first, on another, or on none;
`MaxPartitions` and `MaxLinks` are above what the tables need; with the three names that are free
each partition can have a node, and a duplicate would show; two activation processes are one for the
card in the slot and one of an earlier card, and three partitions make a name wait behind another.
Mkfs: the sizes make the last cluster
just fit, just not fit, and the bitmap or the FAT cross a unit; with clusters of one sector the
objects of old and new volume lie across each other. Fuse: two names and two nodes allow every
rename onto another object, and one failing write every flush that is left half done. Exchange: the
names have a character of each length in UTF-8, a pair, unpaired surrogates and a character whose
low byte is another's; `NameMax`, 255 in the code, is 3, which a name can fill to the last byte.

Deadlock is checked except in `slots_root` (the files of the instance are used up), `nodes_tree`
(`exfat_bug()` stops the process) and `parts_swap` (with a dead handler nobody can do anything any more).

Several properties are conjunctions of named parts that depend on each other (`TransfersExact`,
`ClustersOwned`, `PositionsSound`, `RefsSound`, `TreeHolds`, `EntriesSound`, `ServedOnce`,
`HandlesSafe`, `ConversionsExact`); section 5 names the parts.

Fairness (`FairSpec` of Handler): the mounter polls the slot and the handler answers its
packets; clients that hold something on an *inhibited* volume return it, as Workbench does when
told DISKREMOVED; a process that accepted ACTION_DIE runs to its end. Cards need not be
inserted or pulled fairly, and clients need not do anything else. `CardServed` says that under
this a card that stays in the slot is served. `FairSpec` of Partitions is the same for all handlers,
with activation processes that go on; `AllServed` excepts locks still held from an earlier card, dead
handlers, and partitions that have one before them in the table which cannot be mounted
(`EachActivated`, section 5, shows why).

## 4. Proofs

Each `*Proofs` module proves its theorems for every value of the constants that the ASSUME of the
component's module allows: every number of cards, objects, files, entries, clusters and handles.
`DevIOProofs` also has the theorems of Mkfs and Mount, `FileIOProofs` those of Exchange and Times.

| Module | Theorem | Needs |
|---|---|---|
| `HandlerProofs` | `TypeCorrect`, `RightMediumHolds`, `ReleasedWhenIdleHolds`, `ParkedIsCleanHolds` | |
| | `HandlesOnMountHolds`, `ForeignCardUntouchedHolds`, `HandlesKeepVolumeHolds` | `~LatePackets`: no packet queued behind ACTION_DIE |
| | `UnsavedIsFlaggedHolds`, `ClearedWhenWrittenHolds` | `~IOErrors`: a card that is in the slot works |
| | `VolumeShownHolds` | `~DosListBusy`: the DOS list can be locked |
| `NodesProofs` | `TypeCorrect`, `RefsSoundHolds`, `TreeHoldsAlways`, `ScanNotDanglingHolds`, `ScanCompleteHolds` | `"novolume" \notin Allow`: `add_volume()` has not failed |
| `SlotsProofs` | `EntriesSoundHolds`, `RemountAgreesHolds` | `"rename" \notin Faults`: no write of a rename fails |
| | `SpecialsKeptHolds` | the same, and `MkfsOrder`: a root as mkexfatfs makes it |
| `ClustersProofs` | `TypeCorrect`, `ClustersOwnedHolds`, `ChainCompleteHolds`, `PositionsSoundHolds` | `Faults = {}`: no access to the FAT fails |
| | `ImplementsSpaceHolds` | the same, and finitely many files |
| `FileIOProofs` | `TypeCorrect`, `NoStaleHolds`, `ReadExactHolds`, `ImplementsFileHolds` | |
| `DevIOProofs` | `TypeCorrect` | |
| | `TransfersExactHolds`, `WriteConfinedHolds` | `"read" \notin Masked`: no read bounced for `de_Mask` |
| | `BootReadHonestHolds` | partition and boot sector are whole blocks |
| `DevIOProofs`, on Mkfs | `NeverHalfAVolume`, `MountableStays` | |
| | `FormatMounts` | `SmallSectors`: sectors of 512 bytes, and clusters of at most 32 MB, as `exfat_mount()` demands |
| `FileIOProofs`, on Exchange | `CalendarExact` | |
| | `TimeDoesNotDrift` | `TimesFit`: zones that fit in the 7 bits of the offset, times before 2038 (later ones wrap on the Amiga), foreign stamps that mean what the format says |
| `PartitionsProofs` | `TypeCorrect`, `ServedOnceHolds`, `OnlyListedHolds` | `TablesOK`: the table lists partitions of the card that do not overlap, only the first at sector 0; `Allow = {}`: no client uses a name of an earlier card; `0 \notin Mortal`: the handler of the whole card is not ended |
| `FuseProofs` | `HandlesSafeHolds`, `CleanIsSavedHolds`, `FlagTellsTruthHolds` | `Allow = {}`: the write of the new entries in a rename does not fail |

The conditions are those of the runs, and each is needed: section 5 has a row that shows how a
property fails without it. The argument is always an inductive invariant: it holds initially, every
action keeps it, and it implies the property. The properties were checked by TLC first.

**Handler.** `LifeInv` is TypeOK with `MountSane` (a mount exists only in a process and describes a
card), `SlotSane` (what the mounter is about to do bounds which card can be in the slot: another
card comes in only after the handler has been inhibited) and `ServiceSane` (the three properties,
for a process that runs). `RightMedium` alone is not inductive: nothing in it forbids an insertion
under an active mount; the mounter's state does. `SafeInv` adds that handles imply a mount, also
through DIE, INHIBIT and the mount that is resumed, and that no card is spoiled: every write goes to
`slot`, which is `home` then. `FlagInv` adds that dirty nodes or a dirty bitmap imply the flag on
`home`, and that a mount which is not read-only and serves has the flag before the first change.
`ShownInv` follows the volume node through detaching and attaching. Lemmas give the effect of the
shared helpers once (`UnmountFsEffect`, `InhibitOnEffect`, `InhibitOffEffect`, ...).

**Nodes.** `NodesInv` says that children and parents agree and every node is below the root
(`TreeOf`), that each reference count is the number of locks and open files on the node (`RefsOf`),
and where each scan stands in its list and what it still owes (`ScansOf`). They need each other:
a node may be deleted because its count is zero, so nobody points to it; a scan stays
in a list because `scan_skip_node()` moves it on before. A packet that ends in `exfat_bug()` leaves
all of it as it was when the check was reached. That a move makes no cycle is a lemma on
sets that are closed under parents (`Closed`), since paths are unbounded.

**Slots.** `EntriesInv` describes the medium between any two device writes: where each node's
entries may be, which of them must be there, that no file has entries elsewhere, and how far the
call in progress has got. `EntriesSound` alone says nothing of a file that is being written. The
case of `shrink_directory()` rests on names and continuations being equal, which is what a failed
rename breaks. `SizeInv` adds what the size in the directory's own entries is worth: it covers every
file that is not being changed, and is exact between calls (`OthersFit`, `SizeExact`). A directory
claims too much only between `Shrink` and `Flush`. `SpecialsInv` adds that all sets lie behind the special entries. For that
`find_slot()` must not count special entries at the end of the root as free, so `MkfsOrder` asks for
the order of mkexfatfs (label or free, then bitmap and upcase table) and a first cluster that holds
them and a set of the longest name: 3 + 19 entries less one, which fails only for clusters of 512
bytes. For `RemountAgrees`, `ReadAll` is written down as the result of reading from each offset; it
solves the equation of `ReadDir`, and `ReadsOnce` shows that nothing else does.

**Clusters.** `ClustersInv` says that there are chains `g` (a sequence of clusters per file, with the
part that has been cut off and is not free yet) such that no cluster is in two of them, the bitmap
has exactly those in one and the reserved ones (`OwnedOnce`), FAT or contiguity link each chain
(`Chained`), start and cached position are in it (`Pointed`), and the call in progress has got as
far as its stage says (`GrowOK`, `LinkOK`, `ShrinkOK`, `FreeOK`, `EraseOK`). The chains have to be
existentially quantified: between two writes the size of a file does not tell its clusters. Each
step gives the new chains (`Grown`, `Cut`, `Freed`). Writing the links of a contiguous file touches
no other chain because its clusters are an interval (`ContiguousChain`). A growth that is undone
carries along that the free clusters and those to be freed are too few (`TooFew`), which is
`RefusedWhenFull` at its end. `Walk` is a recursive function; `WalkExists` shows that its equation
has a solution, and `WalkInChain` that it follows the chain. For `ImplementsSpace`, `TotalOfParts`
shows that the fold in `Total` counts the union of the chains, which lie beside one another in the
volume.

**FileIO.** `FileInv` is TypeOK and `valid_size <= size`; `NoStale` is a property of steps and follows
for each of them (`StaleStep`). What needs work are the effects of writing, of filling
a hole and of truncating on the bytes, given as lemmas on `View`, the bytes a reader can see.
`ImplementsFile` maps every step to one of `File` or to a stuttering step.

**DevIO.** `DevInv` adds to the types that the bounce buffer holds the block `bounce_lba` says, that
what a call has moved so far is exact, and that after a change of cards only the boot sector is read.
The lemmas are about multiples of the block size: head, middle and tail never overlap.

**Partitions.** `PartsInv` adds to the types that every partition has one node (`NodesOK`), that a
handler which serves, or is parked and will go on, has a partition of its own card, the first one if
it is name 0, or was woken for another card than the one it is on (`ServiceOK`), that the names a
helper has yet to go through are of the card it was started for (`JobsOK`), and that the mounter lets no card in before every handler is inhibited (`SlotOK`).
`OnlyListed` alone is not inductive: a parked handler goes on without looking at the table, and a
helper wakes any name it was given. That a new process of name 0 publishes without looking for
nodes that are there is harmless because there are none as long as it has not run, which is the last
conjunct and what `Mortal = {0}` breaks. Publishing is a fold over the table; `FoldExists` and
`FoldSteps` turn it into a sequence of single publications, and `PublishOK` is about one of them.
The cards of `parts_swap` satisfy `TablesOK`; a hybrid MBR does not (section 5).

**Fuse.** `FuseInv` relates memory and device while mounted (`Mounted`: what is clean is saved, the
names of the tree are those on the device, and unless the flag was lost in one of the three ways
(`Fit`), clusters are apart, and none is lost if no write has failed) and describes the device alone
when not (`Unmounted`), so that a crash at any moment, also inside a flush, and the next mount, also
of a volume that is marked, carry it over.

**Mkfs.** The writes of a format are a sequence of `Rt(p) + 36` (`WriteNamed` says which is which:
six erasures, 24 sectors of boot region and backup, an entry of the FAT for each cluster up to the
root's, bitmap, upcase table, three entries of the root). `Stage(p, i, d)` says what of each region
is on device `d` before write `i`: zeros since its erasure, then exactly what was written so far.
`MkfsInv` is `SoundDisk` (what mounts holds together, whoever wrote it) and, while a format runs,
the stage of its next write (`Formatting`). `NoHalfVolume` is not inductive: a device between two
writes may lack one unit to be mountable, and only the stage tells which volume it would be. The
argument in steps: regions lie apart (`Apart`, from the rounding of sizes and positions), so a write
changes one region (`Elsewhere`); the first erasure takes the super block of the older volume away,
so nothing mounts until the new one is written; from then on the entry of the root directory in the
FAT, and later the entries in the root, are missing until the last ones (`NotYet`); a write that is
cut short changes less than one region (`TornGood`). `OldSound` shows that the older volume that a
device starts with holds together, `MountsSame` and `SumKept` that soiling and finalizing touch
neither the fields that `exfat_mount()` reads nor the bytes that the checksum covers. `FormatMounts`
adds `Complete`, the stage behind the last write, and shows that `exfat_mount()`, which computes
positions its own way, finds every object there. It needs `SmallSectors`: with larger sectors it is
false (`mkfs_4k`), and mkexfatfs accepts larger clusters than can be mounted. `MkfsAssumption` has
what the tools guarantee of their parameters (mkexfatfs always has sectors of 512 bytes), clusters
of at most 2^21 sectors (the size of larger ones overflows an int in setup_spc_bits()), and one
bound of the model: the bits of the objects that are in use after a format are in the first unit of
the bitmap, which leaves out devices of more than some 8 GB with clusters of one sector, and with
the clusters that mkexfatfs chooses by itself none below 500 TB. Beyond that, more clusters than
`EXFAT_LAST_DATA_CLUSTER`, the tools choose larger clusters or refuse, which the model leaves out:
its numbers have no width, and the theorems say nothing of such volumes.

**Exchange.** A time is a pair of days and seconds; `TimeUnique` makes it the number `Second` of its
second, `TimeValue` says that `Time()` normalises. `TimeInv` says, for every host, that what it would
read of the volume is what was meant, and of the time that a mounted volume has in memory that
writing it back would store what was meant. `SetterInv` adds that what the Amiga has set is stored
as UTC, so that all machines read the same of it. `MtimeKept` alone says nothing of the time in memory.
The core are the lemmas that `exfat_exfat2unix()` undoes `exfat_unix2exfat()` in every zone, for dates
(`CalendarExact`, which follows the code's counting of years and months) and for seconds with their
halves in the centiseconds. The instance of the run satisfies `TimesFit` (an ASSUME of `MCExchange`).

Model-checked only: `CardServed` and `AllServed` (liveness under fairness, which the prover does not
do); `ShownFindsItself` and the parts of `ConversionsExact` that are about names, since the conversions
of UTF-8 and UTF-16 go through a string unit by unit, and what they compute of every string needs an
induction over it, which the prover does not have.

## 5. Where the code does not keep a promise

With a run of its own, `mkfs_4k` (quotations under "findings"): with blocks of 1024 to 4096 bytes
`vbr_write()` puts the boot region in the wrong places, and a format that has reported success cannot
be mounted.

Met while modelling, without a run of their own. Check the property in place of those of the cfg
named, with its constants changed where the row says so, to see them; `EachActivated` and
`WakesOnceFree` are temporal, the others invariants:

| cfg and change | property | what happens |
|---|---|---|
| NodesTree | `CleanupSound` | RENAME_OBJECT onto an object that is locked or open ends in `exfat_bug()` of `exfat_cleanup_node()` (node.c:67); only do_delete_object() looks at the references first, since "our locks hold raw node pointers that must not be left dangling" (handler.c:1139) |
| NodesTree | `SplitSound` | CREATE_DIR and RENAME_OBJECT with the path of the root end in `exfat_bug("impossible")` (lookup.c:221) |
| FileIOData | `NeverStale` | a write that begins behind `valid_size` within the file (left so by a failed write, a full volume or another system) moves `valid_size` over what deleted files left (io.c:518); handler.c:898 says of the rule that it "cannot expose deleted data", hosttest/README.md:45 calls the rule "what stops deleted data leaking into a file" |
| PartsSwap | `LeftoversSleep` | the activation process of the last card goes on when the card is exchanged, and wakes handlers on sectors that the new card does not list (handler.c:2467); handler.c:2063 says "a card with fewer partitions than the last one must not wake the last one's leftovers" |
| PartsSwap | `EachActivated` | a partition that has a boot sector but cannot be mounted leaves `dol_Task` at the port of a process that has ended (handler.c:2277); the Lock() of the activation process (handler.c:2481) waits there for ever, and the partitions behind it are not activated, against "Force each published partition to mount" (handler.c:2431) |
| FuseCrash | `UncleanIsMarked` | exfat_unmount() ignores that the bitmap could not be written and clears VolumeDirty (mount.c:389); ChangeLog:168 says "Indicate that FS in not clean when it was not cleanly unmounted." |
| Exchange | `LocalTimeShown` | exfat_exfat2unix() applies the offset of the stamp, so the Amiga shows UTC and not "the local time the volume recorded" (amigaos.c:334-336, time.c:113), and writes local time as UTC (time.c:164); exfat_amiga.h:217 says it "ignores the UTC-offset byte" |
| HandlerFaults, `LatePackets = TRUE` | `HandlesOnMount`, `ForeignCardUntouched` | packets behind an accepted DIE are served (handler.c:2614); a lock made so survives the unmount, and a mount parked with it can be unmounted onto another card at the end (handler.c:2802) |
| HandlerFaults | `LostIsFlagged` | changes dropped with the card away are not flagged if the card had been written clean before (handler.c:2305, 1387) |
| HandlerFaults | `UnsavedIsFlagged` | mount_fs() goes on when setting VolumeDirty fails (handler.c:2307) |
| HandlerFaults | `NeverHalted` | exfat_unmount() ignores a failed flush and stops on a dirty node (handler.c:2802, node.c:617) |
| HandlerFaults | `VolumeShown` | with the DOS list busy the volume node is forgotten while listed, or not listed again (handler.c:2409, 1546) |
| PartsSwap, `Cards = {cardA}`, `Card <- HybridCards` | `NoDoubleService` | a hybrid MBR lists a partition of the GPT again, and it gets two handlers (parttable.c:251); claim_partition() is not called |
| NodesTree | `ScanAlwaysComplete` | a rename drops the positions of all scans, and the count that replaces them is stale after a delete (handler.c:1099); `amiga/README.md` calls bulk deletes safe |
| NodesTree, `Allow = {"novolume"}` | `ScanNotDangling` | locks made while add_volume() failed are on no list, so their scans are not moved on |
| ClustersFull, 4 clusters, `Faults = {"shrink"}` | `NoCrossLink` | a FAT write that fails while a fragmented file is emptied leaves its size (cluster.c:344, 352); growing it again takes the file for an empty one, and its old size spans clusters of other files |
| ClustersFull, `Faults = {"erase"}` | `NeverBug`, `NoCrossLink` | erasing fails after a growth; size and chain differ |
| ClustersFull, `Faults = {"grow"}` | `StartMatchesSize` | an empty file keeps a start cluster |
| SlotsRoot, `Faults = {"rename"}`, 8 entries per cluster | `OthersIntact` | after a rename whose write failed, `continuations` and the name differ; shrink_directory() goes by the name and cuts the node's entries off, and deleting the node erases another file's (node.c:735) |
| SlotsRoot, 2 files, 8 entries per cluster, `Layout <- UnlabelledLayout`, `Faults = {}` | `SpecialsKept` | a growing root puts the new set over a label among its last entries, which find_slot() has counted as free (node.c:886, against the comment at node.c:814); shrink_directory() cuts off special entries behind the last node (node.c:723) |
| SlotsRoot | `ReadDir` is `Broken` in reachable states | a power cut between the two writes of a set across a cluster boundary leaves a broken set, and readdir() then refuses the whole directory (node.c:932, 352) |
| SlotsRoot | `Size <= Len(slot)` | a power cut between shrink_directory() and the flush of the directory, or a flush that fails, leaves a size beyond the clusters in its entries; with a FAT chain the directory then cannot be read (node.c:771) |
| DevCache, `Masked = {"read"}` | `BounceHolds` | a whole-block read into a buffer outside `de_Mask` overwrites the bounce buffer and leaves `bounce_lba` (dev_io.c:199, against the comment at dev_io.c:58) |
| PartsSwap, `Mortal = {0}` | `OneNodeEach`, `NoDoubleService` | a handler of the whole card that has ended (`exfatctl die`) and is started again publishes every other partition a second time (handler.c:1885), and the second handler is started while the first serves |
| PartsSwap, `Allow = {"blind"}` | `OnlyListed`, `NoDoubleService` | a client that uses a name of an earlier card starts a handler on sectors of the new card that are not its partition, or are the first handler's |
| PartsSwap, `Cards = {cardA, cardB}`, `Mortal = {}` | `WakesOnceFree` | a sibling that refused a card because of locks on the last one is released with the last lock, but nobody uninhibits it again; the comment of do_inhibit() (handler.c:1456) says it "wakes once its locks are gone" |
| PartsSwap | no handler is `"dead"` | dol_Task is set before mount_fs() and stays when it fails (handler.c:2277): the card is pulled before a sibling has been started for the first time, or its volume is broken |
| DevCache, `BootSize` below `BlockSize` | `BootReadHonest` | the boot sector of a card with large blocks is read from the cache of the last card (dev_io.c:223) |
| FuseCrash, `Allow = {"rename"}` | `CleanIsSaved` | rename_entry() erases the old set before it writes the new one (node.c:1043); if that fails the object is lost at the next mount |
| FuseCrash | `FlagTellsTruth` without its condition on `past` | fuse_exfat_init() ignores that VolumeDirty could not be set, and after a crash the volume looks clean; exfat_mount() only warns of VolumeDirty, and the next unmount, also that of exfatfsck with errors found, clears it |
| Exchange, `FibMax = 1` | `NeverMistaken` | a name longer than fib_FileName (106) is shown cut off, which may be the name of another object (handler.c:391) |
| Exchange, dates behind 2038 | `MtimeKept` | on the Amiga they wrap (amigaos.c:338), and the next flush of the entry makes them 1980 |

A name with an unpaired surrogate, which another system may write, makes exfat_get_name() stop the
FUSE driver (utils.c:53); the handler asks `name_is_sane()` first.

A parked handler of name 0 that resumes does not wake its siblings either (handler.c:1527-1561):
if the mounter leaves that to it, they stay inhibited until the next change of cards. `AllServed`
excepts the case.

## 6. Not in the models

The checksum of a set of entries (a set is whole or not) and the text of messages; the checks of a
node's fields when it is read; moves between directories on the medium (they are in Nodes); failing
reads while mounting; the order in which a device with a cache of its own stores writes; memory
exhaustion except where noted; 64-bit device commands and 32-bit overflow of positions (the reply of
SEEK, handler.c:1758); access times, which have no centiseconds and otherwise take the way of
modification times; options of the FUSE driver.

## 7. Plan

1. Failing renames in Nodes, moves between directories in Slots, check_node() and the repairs of
   `repair.c` on what `Slots` can leave after a power cut.
2. Positions near 2^32 in FileIO.

## 8. Not modelled

Without state or decisions of their own: log.c, the headers, the POSIX device functions of io.c, the
upcase table of mkfs (data), dumpexfat (prints), exfatlabel and exfatattrib (one call of the library
each), the command line tools for the Amiga. Start-up code that runs once, without concurrency: ROM
and resource set-up. Replacements of C library functions (formatting, allocation, strtol) in
amigaos.c and small.c. Sums over bytes and sizes for display in utils.c. The field checks of
check_node() and the decompression of the upcase table. The tests in `hosttest/`.
