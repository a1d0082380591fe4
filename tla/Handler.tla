------------------------------- MODULE Handler -------------------------------
(***************************************************************************)
(* The AmigaDOS handler process of amiga/handler.c: how one exFAT volume   *)
(* is mounted, inhibited (parked or released), resumed, formatted and shut *)
(* down while clients hold locks and open files on it and while cards are  *)
(* pulled from and put into the slot.                                      *)
(*                                                                         *)
(* The handler serves one packet at a time, so one packet is one action.   *)
(* A packet of any type may be waiting at the port at any moment; the port *)
(* itself is not a variable.  File contents and the node tree are reduced  *)
(* to what the life cycle looks at: the two counters nlocks and nfiles,    *)
(* whether some node is dirty (ef.nodes), and whether the allocation       *)
(* bitmap is dirty (ef.map).                                               *)
(*                                                                         *)
(* sagasd.device, which watches the slot, is not part of the repository.   *)
(* What the handler relies on is modelled as the mounter: it notices that  *)
(* the card is gone, inhibits the handler and waits for the reply, and     *)
(* only then lets a new card be used and uninhibits, again and again until *)
(* the handler accepts.                                                    *)
(***************************************************************************)
EXTENDS Naturals

CONSTANTS
  Cards,          \* the cards that can be in the slot
  NoCard,         \* an empty slot; also "no volume is mounted"
  WriteProtected, \* the cards with the write-protect tab set
  MaxLocks,       \* bound: locks outstanding at once
  MaxFiles,       \* bound: files open at once
  IOErrors,       \* TRUE: an access to a card that is present may fail
  DosListBusy,    \* TRUE: AttemptLockDosList() and the re-listing may fail
  LatePackets     \* TRUE: packets may be queued behind an ACTION_DIE

ASSUME HandlerAssumption ==
  /\ NoCard \notin Cards
  /\ WriteProtected \subseteq Cards
  /\ MaxLocks \in Nat /\ MaxFiles \in Nat
  /\ IOErrors \in BOOLEAN /\ DosListBusy \in BOOLEAN /\ LatePackets \in BOOLEAN

VARIABLES
  proc,      \* the process: "down", "up", "quit" (DIE accepted) or "halted"
  ef,        \* struct exfat and h->mounted
  inhibited, \* h->inhibited
  nlocks,    \* h->nlocks
  nfiles,    \* h->nfiles
  volume,    \* the DLT_VOLUME node
  disk,      \* what is on each card
  slot,      \* the card in the slot
  mounter    \* what sagasd.device has to do next

vars == <<proc, ef, inhibited, nlocks, nfiles, volume, disk, slot, mounter>>

-----------------------------------------------------------------------------
(* State *)

\* home is the card the mount describes.
ExfatState == [mounted: BOOLEAN, home: Cards \cup {NoCard}, ro: BOOLEAN,
               nodes: BOOLEAN, map: BOOLEAN]

Unmounted == [mounted |-> FALSE, home |-> NoCard, ro |-> FALSE,
              nodes |-> FALSE, map |-> FALSE]

\* node: h->volume and its dl_Task; listed: it is in the DOS list;
\* orphan: the DOS list holds a node that the handler has forgotten.
VolumeNode == [node: {"none", "attached", "detached"},
               listed: BOOLEAN, orphan: BOOLEAN]

\* exfat: a boot sector this handler mounts; flag: VolumeDirty;
\* lost: changes acknowledged to a client that will never be written;
\* spoiled: written by a handler whose mount describes another card.
CardState == [exfat: BOOLEAN, flag: BOOLEAN, lost: BOOLEAN, spoiled: BOOLEAN]

MounterState == {"present", "gone", "parked", "wake"}

Init ==
  /\ proc = "down"
  /\ ef = Unmounted
  /\ inhibited = FALSE
  /\ nlocks = 0 /\ nfiles = 0
  /\ volume = [node |-> "none", listed |-> FALSE, orphan |-> FALSE]
  /\ disk \in [Cards -> [exfat: BOOLEAN, flag: BOOLEAN,
                         lost: {FALSE}, spoiled: {FALSE}]]
  /\ slot = NoCard
  /\ mounter = "parked"

-----------------------------------------------------------------------------
(* The medium *)

\* The outcomes of one write to the device: an empty slot refuses it.
WriteResults ==
  IF slot = NoCard THEN {FALSE} ELSE IF IOErrors THEN BOOLEAN ELSE {TRUE}

\* same_volume(): the boot sector in the slot is the mounted one.  It is FALSE
\* too when the sector cannot be read.
SameVolumeResults ==
  IF ef.mounted /\ slot = ef.home
  THEN IF IOErrors THEN BOOLEAN ELSE {TRUE}
  ELSE {FALSE}

\* The cards d after the boot sector of the volume with home h has been written
\* to the slot with VolumeDirty = f.
Flagged(d, h, f) ==
  [d EXCEPT ![slot] = IF slot = h THEN [@ EXCEPT !.flag = f]
                                  ELSE [@ EXCEPT !.spoiled = TRUE]]

\* The cards after metadata of the mount has been written.
Touched ==
  IF slot \in {NoCard, ef.home} THEN disk
  ELSE [disk EXCEPT ![slot].spoiled = TRUE]

\* What exfat_flush_nodes() followed by exfat_flush() can leave unwritten:
\* nothing on success, anything that was unwritten if a write fails.
FlushResults ==
  {r \in [nodes: BOOLEAN, map: BOOLEAN] :
     /\ r.nodes => ef.nodes
     /\ r.map => ef.map
     /\ TRUE \notin WriteResults => r.nodes = ef.nodes /\ r.map = ef.map
     /\ FALSE \notin WriteResults => ~r.nodes /\ ~r.map}

\* The cards after a flush that left r unwritten.
FlushDisk(r) ==
  IF r.nodes = ef.nodes /\ r.map = ef.map THEN disk ELSE Touched

\* The cards d once the unwritten changes of the mount are dropped.
Dropped(d, unsaved) ==
  IF unsaved /\ ef.home \in Cards THEN [d EXCEPT ![ef.home].lost = TRUE] ELSE d

-----------------------------------------------------------------------------
(* Mounting and unmounting *)

\* exfat_mount() with "ro_fallback", then exfat_soil_super_block(): a volume
\* that cannot be flagged is served all the same.
MountFs ==
  /\ slot # NoCard
  /\ disk[slot].exfat
  /\ LET readonly == slot \in WriteProtected IN
       /\ ef' = [mounted |-> TRUE, home |-> slot, ro |-> readonly,
                 nodes |-> FALSE, map |-> FALSE]
       /\ IF readonly
          THEN disk' = disk
          ELSE \E ok \in WriteResults :
                 disk' = IF ok THEN Flagged(disk, slot, TRUE) ELSE disk

\* add_volume(): making or listing the node may fail, and is then given up.
AddVolume ==
  \/ volume' = [volume EXCEPT !.node = "attached", !.listed = TRUE]
  \/ volume' = [volume EXCEPT !.node = "none", !.listed = FALSE]

\* remove_volume(): with the DOS list locked the node is unlisted and freed,
\* otherwise it is forgotten where it is.
RemoveVolume ==
  \/ volume' = [volume EXCEPT !.node = "none", !.listed = FALSE]
  \/ /\ DosListBusy
     /\ volume' = [node |-> "none", listed |-> FALSE,
                   orphan |-> volume.orphan \/ volume.listed]

\* unmount_fs(): exfat_unmount() ignores a failed flush.  reset_cache() stops
\* the process in exfat_bug() if a node is still dirty; otherwise
\* finalize_super_block() clears VolumeDirty and the mount is gone.
UnmountFs(live) ==
  \E r \in FlushResults :
    IF r.nodes
    THEN /\ proc' = "halted"
         /\ ef' = [ef EXCEPT !.map = r.map]
         /\ disk' = FlushDisk(r)
    ELSE /\ proc' = live
         /\ ef' = Unmounted
         /\ LET d == Dropped(FlushDisk(r), r.map) IN
              \/ disk' = d /\ (ef.ro \/ FALSE \in WriteResults)
              \/ /\ ~ef.ro /\ TRUE \in WriteResults
                 /\ disk' = Flagged(d, ef.home, FALSE)

\* Mutation: released without asking same_volume().
ReleaseMountBlindly ==
  IF ~ef.mounted THEN UNCHANGED <<proc, ef, disk>> ELSE UnmountFs(proc)

\* release_mount(): a normal unmount onto the same volume; onto any other
\* medium, or none, the unwritten state is discarded and nothing is written.
ReleaseMount ==
  IF ~ef.mounted
  THEN UNCHANGED <<proc, ef, disk>>
  ELSE \/ TRUE \in SameVolumeResults /\ UnmountFs(proc)
       \/ /\ FALSE \in SameVolumeResults
          /\ proc' = proc
          /\ ef' = Unmounted
          /\ disk' = Dropped(disk, ef.nodes \/ ef.map)

\* Mutation: the mount stays although nothing holds it any more.
ReleaseNever(l, f) == UNCHANGED <<proc, ef, disk, volume>>

\* release_if_idle() after the handle counters have become l and f.
ReleaseIfIdle(l, f) ==
  IF inhibited /\ ef.mounted /\ l = 0 /\ f = 0
  THEN RemoveVolume /\ ReleaseMount
  ELSE UNCHANGED <<proc, ef, disk, volume>>

-----------------------------------------------------------------------------
(* Packets of the clients *)

\* The packet loop: after ACTION_DIE it still serves what is queued.
Serving == proc = "up" \/ (proc = "quit" /\ LatePackets)

\* needs_medium(): what an inhibited handler refuses.
Admitted == Serving /\ ~inhibited

\* A change to the volume dirties nodes and bitmap and writes some of them on
\* the way; without a medium nothing becomes clean.  An operation on a path ends
\* with exfat_flush_node() on what it changed, so it adds a dirty node only if
\* that fails; one on an open file leaves its node dirty (open = TRUE).
Changed(open) ==
  /\ ~ef.ro
  /\ \E n, m \in BOOLEAN :
       /\ TRUE \notin WriteResults => (ef.nodes => n) /\ (ef.map => m)
       /\ n => open \/ ef.nodes \/ FALSE \in WriteResults
       /\ ef' = [ef EXCEPT !.nodes = n, !.map = m]
  /\ disk' = Touched

\* LOCATE_OBJECT, COPY_DIR, COPY_DIR_FH, PARENT, PARENT_FH: a new lock.
\* CREATE_DIR changes the volume as well.
MakeLock ==
  /\ Admitted
  /\ nlocks < MaxLocks
  /\ nlocks' = nlocks + 1
  /\ Changed(FALSE) \/ UNCHANGED <<ef, disk>>
  /\ UNCHANGED <<proc, inhibited, nfiles, volume, slot, mounter>>

\* FINDINPUT, FINDOUTPUT, FINDUPDATE: a new open file, created or emptied first
\* by the latter two.
Open ==
  /\ Admitted
  /\ nfiles < MaxFiles
  /\ nfiles' = nfiles + 1
  /\ Changed(TRUE) \/ UNCHANGED <<ef, disk>>
  /\ UNCHANGED <<proc, inhibited, nlocks, volume, slot, mounter>>

\* FH_FROM_LOCK absorbs the lock into a new open file.
FhFromLock ==
  /\ Admitted
  /\ nlocks > 0 /\ nfiles < MaxFiles
  /\ nlocks' = nlocks - 1
  /\ nfiles' = nfiles + 1
  /\ UNCHANGED <<proc, ef, inhibited, volume, disk, slot, mounter>>

\* WRITE and SET_FILE_SIZE on an open file.
Write ==
  /\ Admitted
  /\ nfiles > 0
  /\ Changed(TRUE)
  /\ UNCHANGED <<proc, inhibited, nlocks, nfiles, volume, slot, mounter>>

\* SET_PROTECT, SET_DATE, SET_COMMENT, DELETE_OBJECT, RENAME_OBJECT and
\* RENAME_DISK on a path.
Change ==
  /\ Admitted
  /\ Changed(FALSE)
  /\ UNCHANGED <<proc, inhibited, nlocks, nfiles, volume, slot, mounter>>

\* Mutation: the counter goes down for a ZERO lock too.
FreeLockZero ==
  /\ Serving
  /\ nlocks' = nlocks - 1
  /\ ReleaseIfIdle(nlocks - 1, nfiles)
  /\ UNCHANGED <<inhibited, nfiles, slot, mounter>>

FreeLock ==
  /\ Serving
  /\ nlocks > 0
  /\ nlocks' = nlocks - 1
  /\ ReleaseIfIdle(nlocks - 1, nfiles)
  /\ UNCHANGED <<inhibited, nfiles, slot, mounter>>

\* ACTION_END: do_end() flushes the file's node, and with it the bitmap, unless
\* inhibited or read-only; the nodes of other open files stay dirty.
End ==
  /\ Serving
  /\ nfiles > 0
  /\ nfiles' = nfiles - 1
  /\ IF inhibited \/ ef.ro
     THEN ReleaseIfIdle(nlocks, nfiles - 1)
     ELSE /\ \E n, m \in BOOLEAN :
               /\ n => ef.nodes /\ (nfiles > 1 \/ FALSE \in WriteResults)
               /\ m => ef.map
               /\ TRUE \notin WriteResults => n = ef.nodes /\ m = ef.map
               /\ ef' = [ef EXCEPT !.nodes = n, !.map = m]
               /\ disk' = FlushDisk([nodes |-> n, map |-> m])
          /\ UNCHANGED <<proc, volume>>
  /\ UNCHANGED <<inhibited, nlocks, slot, mounter>>

\* ACTION_FLUSH.
Flush ==
  /\ Serving
  /\ ~ef.ro /\ ef.mounted /\ ~inhibited
  /\ \E r \in FlushResults :
       /\ ef' = [ef EXCEPT !.nodes = r.nodes, !.map = r.map]
       /\ disk' = FlushDisk(r)
  /\ UNCHANGED <<proc, inhibited, nlocks, nfiles, volume, slot, mounter>>

\* Mutation: locks and files are not counted.
DieInUse ==
  /\ Serving
  /\ proc' = "quit"
  /\ UNCHANGED <<ef, inhibited, nlocks, nfiles, volume, disk, slot, mounter>>

\* ACTION_DIE is refused while anything is held.
Die ==
  /\ Serving
  /\ nlocks = 0 /\ nfiles = 0
  /\ proc' = "quit"
  /\ UNCHANGED <<ef, inhibited, nlocks, nfiles, volume, disk, slot, mounter>>

\* ACTION_FORMAT: only inhibited and fully released.  A format that fails half
\* way leaves no mountable volume.
Format ==
  /\ Serving
  /\ inhibited /\ ~ef.mounted
  /\ slot \in Cards \ WriteProtected
  /\ \/ disk' = [disk EXCEPT ![slot] = [exfat |-> TRUE, flag |-> FALSE,
                                        lost |-> FALSE, spoiled |-> FALSE]]
     \/ IOErrors /\ disk' = [disk EXCEPT ![slot].exfat = FALSE]
  /\ UNCHANGED <<proc, ef, inhibited, nlocks, nfiles, volume, slot, mounter>>

-----------------------------------------------------------------------------
(* ACTION_INHIBIT *)

DetachVolume ==
  volume' = IF volume.node = "none" THEN volume
            ELSE [volume EXCEPT !.node = "detached"]

\* Mutation: what could not be flushed is kept for later.
ParkDirty ==
  /\ proc' = proc
  /\ \E r \in FlushResults :
       /\ ef' = [ef EXCEPT !.nodes = r.nodes, !.map = r.map]
       /\ disk' = FlushDisk(r)
  /\ DetachVolume

\* Mutation: marked clean without a flush.
ParkUnflushed ==
  /\ proc' = proc
  /\ ef' = [ef EXCEPT !.nodes = FALSE, !.map = FALSE]
  /\ \E ok \in WriteResults :
       LET d == Dropped(disk, ef.nodes \/ ef.map) IN
         disk' = IF ok /\ ~ef.ro THEN Flagged(d, ef.home, FALSE) ELSE d
  /\ DetachVolume

\* Inhibit while something is held: flush as far as the medium allows, mark the
\* volume clean, drop the rest, detach the volume node.
Park ==
  /\ proc' = proc
  /\ IF ef.ro
     THEN UNCHANGED <<ef, disk>>
     ELSE /\ ef' = [ef EXCEPT !.nodes = FALSE, !.map = FALSE]
          /\ \E r \in FlushResults, ok \in WriteResults :
               disk' = IF r.nodes \/ r.map THEN Dropped(FlushDisk(r), TRUE)
                       ELSE IF ok THEN Flagged(FlushDisk(r), ef.home, FALSE)
                       ELSE FlushDisk(r)
  /\ DetachVolume

\* do_inhibit(TRUE): always succeeds, unless the release stops the process.
InhibitOn ==
  /\ Serving
  /\ IF inhibited
     THEN UNCHANGED <<proc, ef, inhibited, volume, disk>>
     ELSE /\ IF nlocks = 0 /\ nfiles = 0
             THEN RemoveVolume /\ ReleaseMount
             ELSE Park
          /\ inhibited' = (proc' = proc)
  /\ UNCHANGED <<nlocks, nfiles, slot>>

\* Mutation: a parked mount is replaced.
RemountParked == MountFs /\ AddVolume

\* do_inhibit(FALSE) on a released volume: a mount from scratch.
Remount ==
  /\ ~ef.mounted
  /\ MountFs
  /\ AddVolume

\* Mutation: attached, but not listed again.
AttachUnlisted ==
  volume' = IF volume.node = "none" THEN volume
            ELSE [volume EXCEPT !.node = "attached"]

\* AttemptLockDosList() may fail, and the volume is then taken to be listed; so
\* may AddDosEntry().
AttachVolume ==
  \E l \in {TRUE} \cup (IF DosListBusy THEN {volume.listed} ELSE {}) :
    volume' = IF volume.node = "none" THEN volume
              ELSE [volume EXCEPT !.node = "attached", !.listed = l]

\* Mutation: resumed onto whatever is in the slot.
ResumeAnyVolume ==
  /\ ef.mounted
  /\ disk' = disk
  /\ AttachVolume
  /\ ef' = ef

\* Mutation: resumed without setting VolumeDirty again.
ResumeUnflagged ==
  /\ ef.mounted
  /\ TRUE \in SameVolumeResults
  /\ disk' = disk
  /\ AttachVolume
  /\ ef' = ef

\* do_inhibit(FALSE) on a parked mount: only onto the same volume, and only if
\* VolumeDirty can be set again.  The volume node is attached and, if the
\* mounter has unlisted it, listed again.
Resume ==
  /\ ef.mounted
  /\ TRUE \in SameVolumeResults
  /\ IF ef.ro
     THEN disk' = disk
     ELSE TRUE \in WriteResults /\ disk' = Flagged(disk, ef.home, TRUE)
  /\ AttachVolume
  /\ ef' = ef

\* A refused uninhibit changes nothing and is not a step.
InhibitOff ==
  /\ Serving
  /\ inhibited
  /\ Remount \/ Resume
  /\ inhibited' = FALSE
  /\ UNCHANGED <<proc, nlocks, nfiles, slot>>

\* exfatctl inhibit and uninhibit, or DiskChange.
UserInhibit == InhibitOn /\ UNCHANGED mounter
UserUninhibit == InhibitOff /\ UNCHANGED mounter

-----------------------------------------------------------------------------
(* Start, shutdown, reset *)

\* startup() on behalf of the first access, then add_volume().
Start ==
  /\ proc = "down"
  /\ MountFs
  /\ AddVolume
  /\ proc' = "up"
  /\ inhibited' = FALSE
  /\ nlocks' = 0 /\ nfiles' = 0
  /\ mounter' = "present"
  /\ UNCHANGED slot

\* The end of exfat_handler_main().
Shutdown ==
  /\ proc = "quit"
  /\ RemoveVolume
  /\ IF ef.mounted THEN UnmountFs("down")
     ELSE proc' = "down" /\ UNCHANGED <<ef, disk>>
  /\ UNCHANGED <<inhibited, nlocks, nfiles, slot, mounter>>

\* A reset or power cut: everything in memory is gone.
Reset ==
  /\ proc # "down"
  /\ proc' = "down"
  /\ ef' = Unmounted
  /\ disk' = Dropped(disk, ef.nodes \/ ef.map)
  /\ inhibited' = FALSE
  /\ nlocks' = 0 /\ nfiles' = 0
  /\ volume' = [node |-> "none", listed |-> FALSE, orphan |-> FALSE]
  /\ mounter' = IF slot = NoCard THEN "parked" ELSE "wake"
  /\ UNCHANGED slot

-----------------------------------------------------------------------------
(* The slot and its driver (external) *)

Pull ==
  /\ slot # NoCard
  /\ slot' = NoCard
  /\ mounter' = "gone"
  /\ UNCHANGED <<proc, ef, inhibited, nlocks, nfiles, volume, disk>>

Insert(c) ==
  /\ slot = NoCard
  /\ mounter = "parked"
  /\ slot' = c
  /\ mounter' = "wake"
  /\ UNCHANGED <<proc, ef, inhibited, nlocks, nfiles, volume, disk>>

\* The card is gone: inhibit, and wait for the answer.
MounterInhibit ==
  /\ mounter = "gone"
  /\ \/ /\ InhibitOn
        /\ mounter' = IF proc' = "halted" THEN "gone" ELSE "parked"
     \/ /\ proc = "down"
        /\ mounter' = "parked"
        /\ UNCHANGED <<proc, ef, inhibited, nlocks, nfiles, volume, disk, slot>>

\* A card has come back: uninhibit, until it is accepted.
MounterUninhibit ==
  /\ mounter = "wake"
  /\ \/ InhibitOff
     \/ /\ Serving /\ ~inhibited
        /\ UNCHANGED <<proc, ef, inhibited, nlocks, nfiles, volume, disk, slot>>
  /\ mounter' = "present"

\* After DISKREMOVED a detached volume held only by our locks is unlisted.
MounterUnlist ==
  /\ volume.node = "detached" /\ volume.listed
  /\ volume' = [volume EXCEPT !.listed = FALSE]
  /\ UNCHANGED <<proc, ef, inhibited, nlocks, nfiles, disk, slot, mounter>>

-----------------------------------------------------------------------------

Next ==
  \/ MakeLock \/ Open \/ FhFromLock \/ Write \/ Change \/ FreeLock \/ End
  \/ Flush \/ Die \/ Format
  \/ UserInhibit \/ UserUninhibit
  \/ Start \/ Shutdown \/ Reset
  \/ Pull \/ \E c \in Cards : Insert(c)
  \/ MounterInhibit \/ MounterUninhibit \/ MounterUnlist

Spec == Init /\ [][Next]_vars

-----------------------------------------------------------------------------
(* Fairness.  The mounter polls the slot, and the handler answers it; clients *)
(* that hold something on an inhibited volume give it back, as Workbench does *)
(* on DISKREMOVED; a process that has accepted ACTION_DIE runs to its end.    *)

Returned == inhibited /\ (FreeLock \/ End)

Fairness ==
  /\ WF_vars(MounterInhibit)
  /\ WF_vars(MounterUninhibit)
  /\ WF_vars(Returned)
  /\ WF_vars(Shutdown)

FairSpec == Spec /\ Fairness

-----------------------------------------------------------------------------
(* Properties *)

\* The types of the handler's state, the cards and the slot.
TypeOK ==
  /\ proc \in {"down", "up", "quit", "halted"}
  /\ ef \in ExfatState
  /\ inhibited \in BOOLEAN
  /\ nlocks \in 0..MaxLocks
  /\ nfiles \in 0..MaxFiles
  /\ volume \in VolumeNode
  /\ disk \in [Cards -> CardState]
  /\ slot \in Cards \cup {NoCard}
  /\ mounter \in MounterState

\* Locks and open files hold raw node pointers, so nothing may unmount the
\* volume under them (comment on unmount_fs()).
HandlesOnMount == nlocks + nfiles > 0 => ef.mounted

\* A handler that serves medium packets has a mount, and the card under it is
\* the mounted one or none: no card is ever served through the metadata of
\* another (comment on ACTION_INHIBIT).
RightMedium == Admitted => ef.mounted /\ slot \in {ef.home, NoCard}

\* No card is ever written by a mount that describes another card, neither
\* while serving nor when a mount is released (comment on release_mount()).
ForeignCardUntouched == \A c \in Cards : ~disk[c].spoiled

\* An inhibited volume that nothing holds is fully released, which is what
\* ACTION_FORMAT and a clean re-mount need (comment on release_if_idle()).
ReleasedWhenIdle ==
  proc = "up" /\ inhibited /\ nlocks = 0 /\ nfiles = 0 => ~ef.mounted

\* A parked mount has nothing left that a later put, flush or unmount could
\* write (comment in do_end(): everything was flushed when the park began).
ParkedIsClean == inhibited /\ ef.mounted => ~ef.nodes /\ ~ef.map

\* At any moment at which the machine may be reset with changes in memory,
\* VolumeDirty is set on the card they belong to (comment in mount_fs()).
UnsavedIsFlagged == ef.nodes \/ ef.map => disk[ef.home].flag

\* A card that is missing acknowledged changes stays flagged VolumeDirty until
\* it is checked or formatted (comment on discard_dirty_state()).
LostIsFlagged == \A c \in Cards : disk[c].lost => disk[c].flag

\* The process never stops in exfat_bug().
NeverHalted == proc # "halted"

\* The DOS list shows the volume of a handler that serves, and no node that the
\* handler has let go of.
VolumeShown ==
  /\ Admitted /\ volume.node # "none" => volume.node = "attached" /\ volume.listed
  /\ ~volume.orphan

\* The volume that handles were obtained on is never exchanged under them.
HandlesKeepVolume ==
  [][nlocks + nfiles > 0 /\ nlocks' + nfiles' > 0 => ef'.home = ef.home]_vars

\* VolumeDirty is cleared only with every change written: the step that clears
\* it drops none.
ClearedWhenWritten ==
  [][\A c \in Cards : disk[c].flag /\ ~disk'[c].flag =>
       /\ disk'[c].lost => disk[c].lost
       /\ ef'.home = c => ~ef'.nodes /\ ~ef'.map]_vars

\* A mountable card that the mounter has put before the handler is served in
\* the end, also if locks of an earlier card kept the handler parked, unless
\* it is taken out or spoiled by a format, or the handler goes away.
CardServed ==
  \A c \in Cards :
    (mounter = "wake" /\ slot = c /\ disk[c].exfat /\ proc = "up")
      ~> (\/ Admitted /\ ef.home = c
          \/ slot # c \/ ~disk[c].exfat \/ proc # "up")

=============================================================================
