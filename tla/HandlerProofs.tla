---------------------------- MODULE HandlerProofs ----------------------------
(* Theorems about Handler, for every set of cards and every bound. *)
EXTENDS Handler, TLAPS

CardMap == [Cards -> CardState]

-----------------------------------------------------------------------------
(* What the helpers on the medium return *)

\* Writing a boot sector keeps the cards well-formed.
LEMMA FlaggedType ==
  ASSUME NEW d \in CardMap, slot \in Cards, NEW h, NEW f \in BOOLEAN
  PROVE  Flagged(d, h, f) \in CardMap
  BY DEF Flagged, CardMap, CardState

\* Writing metadata keeps the cards well-formed.
LEMMA TouchedType ==
  ASSUME TypeOK
  PROVE  Touched \in CardMap
  BY DEF TypeOK, Touched, CardMap, CardState

\* A flush keeps the cards well-formed.
LEMMA FlushDiskType ==
  ASSUME TypeOK, NEW r
  PROVE  FlushDisk(r) \in CardMap
  BY TouchedType DEF TypeOK, FlushDisk, CardMap

\* Dropping changes keeps the cards well-formed.
LEMMA DroppedType ==
  ASSUME NEW d \in CardMap, NEW u
  PROVE  Dropped(d, u) \in CardMap
  BY DEF Dropped, CardMap, CardState

\* A write succeeds only onto a card.
LEMMA WriteNeedsCard ==
  ASSUME TypeOK, TRUE \in WriteResults
  PROVE  slot \in Cards
  BY DEF TypeOK, WriteResults

\* Results of a write are Booleans.
LEMMA WriteResultsType == WriteResults \subseteq BOOLEAN
  BY DEF WriteResults

\* No mount is a well-formed struct exfat.
LEMMA UnmountedType == Unmounted \in ExfatState
  BY DEF Unmounted, ExfatState

\* unmount_fs() leaves a well-formed state.
LEMMA UnmountFsType ==
  ASSUME TypeOK, NEW live \in {"down", "up", "quit", "halted"}, UnmountFs(live)
  PROVE  /\ proc' \in {"down", "up", "quit", "halted"}
         /\ ef' \in ExfatState
         /\ disk' \in CardMap
<1>1. PICK r \in FlushResults :
        IF r.nodes
        THEN /\ proc' = "halted"
             /\ ef' = [ef EXCEPT !.map = r.map]
             /\ disk' = FlushDisk(r)
        ELSE /\ proc' = live
             /\ ef' = Unmounted
             /\ \/ disk' = Dropped(FlushDisk(r), r.map) /\ (ef.ro \/ FALSE \in WriteResults)
                \/ /\ ~ef.ro /\ TRUE \in WriteResults
                   /\ disk' = Flagged(Dropped(FlushDisk(r), r.map), ef.home, FALSE)
  BY DEF UnmountFs
<1>2. r \in [nodes: BOOLEAN, map: BOOLEAN]
  BY DEF FlushResults
<1>3. FlushDisk(r) \in CardMap /\ Dropped(FlushDisk(r), r.map) \in CardMap
  BY FlushDiskType, DroppedType
<1>4. CASE r.nodes
  BY <1>1, <1>2, <1>3, <1>4 DEF TypeOK, ExfatState
<1>5. CASE ~r.nodes
  <2>1. ef' = Unmounted /\ proc' = live
    BY <1>1, <1>5
  <2>2. disk' \in CardMap
    BY <1>1, <1>3, <1>5, WriteNeedsCard, FlaggedType
  <2> QED
    BY <2>1, <2>2, UnmountedType
<1> QED
  BY <1>4, <1>5

\* release_mount() leaves a well-formed state.
LEMMA ReleaseMountType ==
  ASSUME TypeOK, ReleaseMount
  PROVE  /\ proc' \in {"down", "up", "quit", "halted"}
         /\ ef' \in ExfatState
         /\ disk' \in CardMap
<1>1. CASE ~ef.mounted
  BY <1>1 DEF TypeOK, ReleaseMount, CardMap
<1>2. CASE UnmountFs(proc)
  BY <1>2, UnmountFsType DEF TypeOK
<1>3. CASE /\ proc' = proc
           /\ ef' = Unmounted
           /\ disk' = Dropped(disk, ef.nodes \/ ef.map)
  BY <1>3, UnmountedType, DroppedType DEF TypeOK, CardMap
<1> QED
  BY <1>1, <1>2, <1>3 DEF ReleaseMount

\* Removing, adding, attaching and detaching the volume node.
LEMMA VolumeType ==
  ASSUME TypeOK, RemoveVolume \/ AddVolume \/ AttachVolume \/ DetachVolume
  PROVE  volume' \in VolumeNode
<1>1. CASE RemoveVolume
  <2>1. PICK o \in BOOLEAN :
          \/ volume' = [volume EXCEPT !.node = "none", !.listed = FALSE]
          \/ volume' = [node |-> "none", listed |-> FALSE, orphan |-> o]
    BY <1>1 DEF RemoveVolume
  <2>2. CASE volume' = [volume EXCEPT !.node = "none", !.listed = FALSE]
    BY <2>2 DEF TypeOK, VolumeNode
  <2>3. CASE volume' = [node |-> "none", listed |-> FALSE, orphan |-> o]
    BY <2>3 DEF VolumeNode
  <2> QED
    BY <2>1, <2>2, <2>3
<1>2. CASE AddVolume
  BY <1>2 DEF TypeOK, AddVolume, VolumeNode
<1>3. CASE AttachVolume
  <2>1. PICK l \in {TRUE, volume.listed} :
          volume' = IF volume.node = "none" THEN volume
                    ELSE [volume EXCEPT !.node = "attached", !.listed = l]
    BY <1>3 DEF AttachVolume
  <2> QED
    BY <2>1 DEF TypeOK, VolumeNode
<1>4. CASE DetachVolume
  BY <1>4 DEF TypeOK, DetachVolume, VolumeNode
<1> QED
  BY <1>1, <1>2, <1>3, <1>4

\* Mounting leaves a well-formed mount on the card in the slot.
LEMMA MountFsType ==
  ASSUME TypeOK, MountFs
  PROVE  /\ ef' \in ExfatState
         /\ disk' \in CardMap
         /\ slot \in Cards
         /\ ef'.mounted /\ ef'.home = slot /\ ~ef'.nodes /\ ~ef'.map
<1>1. slot \in Cards
  BY DEF MountFs, TypeOK
<1>2. disk' = disk \/ disk' = Flagged(disk, slot, TRUE)
  BY DEF MountFs
<1>3. disk' \in CardMap
  BY <1>1, <1>2, FlaggedType DEF TypeOK, CardMap
<1>4. ef' = [mounted |-> TRUE, home |-> slot, ro |-> slot \in WriteProtected,
             nodes |-> FALSE, map |-> FALSE]
  BY DEF MountFs
<1> QED
  BY <1>1, <1>3, <1>4 DEF ExfatState

\* A change keeps the mount and its card.
LEMMA ChangedType ==
  ASSUME TypeOK, NEW open \in BOOLEAN, Changed(open)
  PROVE  /\ ef' \in ExfatState
         /\ disk' = Touched
         /\ disk' \in CardMap
         /\ ef'.mounted = ef.mounted /\ ef'.home = ef.home /\ ef'.ro = ef.ro
         /\ ~ef.ro
<1>1. PICK n, m \in BOOLEAN : ef' = [ef EXCEPT !.nodes = n, !.map = m]
  BY DEF Changed
<1>2. disk' = Touched /\ ~ef.ro
  BY DEF Changed
<1> QED
  BY <1>1, <1>2, TouchedType DEF TypeOK, ExfatState

\* Parking keeps the mount, with nothing left to write.
LEMMA ParkType ==
  ASSUME TypeOK, Park
  PROVE  /\ proc' = proc
         /\ ef' \in ExfatState
         /\ disk' \in CardMap
         /\ volume' \in VolumeNode
         /\ ef'.mounted = ef.mounted /\ ef'.home = ef.home /\ ef'.ro = ef.ro
         /\ (ef.ro /\ ef' = ef) \/ (~ef'.nodes /\ ~ef'.map)
<1>1. volume' \in VolumeNode /\ proc' = proc
  BY VolumeType DEF Park
<1>2. CASE ef.ro
  BY <1>1, <1>2 DEF Park, TypeOK, CardMap
<1>3. CASE ~ef.ro
  <2>1. ef' = [ef EXCEPT !.nodes = FALSE, !.map = FALSE]
    BY <1>3 DEF Park
  <2>2. PICK r \in FlushResults, ok \in WriteResults :
          disk' = IF r.nodes \/ r.map THEN Dropped(FlushDisk(r), TRUE)
                  ELSE IF ok THEN Flagged(FlushDisk(r), ef.home, FALSE)
                  ELSE FlushDisk(r)
    BY <1>3 DEF Park
  <2>3. FlushDisk(r) \in CardMap /\ Dropped(FlushDisk(r), TRUE) \in CardMap
    BY FlushDiskType, DroppedType
  <2>4. ok => slot \in Cards
    BY WriteNeedsCard, WriteResultsType
  <2>5. disk' \in CardMap
    BY <2>2, <2>3, <2>4, FlaggedType
  <2> QED
    BY <1>1, <2>1, <2>5 DEF TypeOK, ExfatState
<1> QED
  BY <1>2, <1>3

\* release_if_idle() leaves a well-formed state.
LEMMA ReleaseIfIdleType ==
  ASSUME TypeOK, NEW l, NEW f, ReleaseIfIdle(l, f)
  PROVE  /\ proc' \in {"down", "up", "quit", "halted"}
         /\ ef' \in ExfatState
         /\ disk' \in CardMap
         /\ volume' \in VolumeNode
<1>1. CASE RemoveVolume /\ ReleaseMount
  BY <1>1, VolumeType, ReleaseMountType
<1>2. CASE UNCHANGED <<proc, ef, disk, volume>>
  BY <1>2 DEF TypeOK, CardMap
<1> QED
  BY <1>1, <1>2 DEF ReleaseIfIdle

-----------------------------------------------------------------------------
(* Type correctness *)

\* The state before the handler is started is well-formed.
LEMMA TypeInit == Init => TypeOK
<1> SUFFICES ASSUME Init PROVE TypeOK
  OBVIOUS
<1>1. ef \in ExfatState
  BY UnmountedType DEF Init
<1>2. disk \in [Cards -> CardState]
  BY DEF Init, CardState
<1>3. volume \in VolumeNode
  BY DEF Init, VolumeNode
<1>4. nlocks \in 0..MaxLocks /\ nfiles \in 0..MaxFiles
  BY HandlerAssumption DEF Init
<1> QED
  BY <1>1, <1>2, <1>3, <1>4 DEF Init, TypeOK, MounterState

\* ACTION_INHIBIT on, from either sender.
LEMMA InhibitOnType ==
  ASSUME TypeOK, InhibitOn
  PROVE  /\ proc' \in {"down", "up", "quit", "halted"}
         /\ ef' \in ExfatState
         /\ inhibited' \in BOOLEAN
         /\ disk' \in CardMap
         /\ volume' \in VolumeNode
         /\ UNCHANGED <<nlocks, nfiles, slot>>
<1>1. UNCHANGED <<nlocks, nfiles, slot>>
  BY DEF InhibitOn
<1>2. CASE inhibited
  BY <1>1, <1>2 DEF InhibitOn, TypeOK, CardMap
<1>3. CASE ~inhibited
  <2>1. inhibited' \in BOOLEAN
    BY <1>3 DEF InhibitOn
  <2>2. CASE RemoveVolume /\ ReleaseMount
    BY <1>1, <2>1, <2>2, VolumeType, ReleaseMountType
  <2>3. CASE Park
    BY <1>1, <2>1, <2>3, ParkType DEF TypeOK
  <2> QED
    BY <1>3, <2>2, <2>3 DEF InhibitOn
<1> QED
  BY <1>2, <1>3 DEF TypeOK

\* ACTION_INHIBIT off, from either sender.
LEMMA InhibitOffType ==
  ASSUME TypeOK, InhibitOff
  PROVE  /\ ef' \in ExfatState
         /\ disk' \in CardMap
         /\ volume' \in VolumeNode
         /\ inhibited' = FALSE
         /\ UNCHANGED <<proc, nlocks, nfiles, slot>>
<1>1. inhibited' = FALSE /\ UNCHANGED <<proc, nlocks, nfiles, slot>>
  BY DEF InhibitOff
<1>2. CASE Remount
  BY <1>1, <1>2, MountFsType, VolumeType DEF Remount
<1>3. CASE Resume
  <2>1. ef' = ef /\ volume' \in VolumeNode
    BY <1>3, VolumeType DEF Resume
  <2>2. disk' = disk \/ (slot \in Cards /\ disk' = Flagged(disk, ef.home, TRUE))
    BY <1>3, WriteNeedsCard DEF Resume
  <2> QED
    BY <1>1, <2>1, <2>2, FlaggedType DEF TypeOK, CardMap
<1> QED
  BY <1>2, <1>3 DEF InhibitOff

\* Every packet and every event of the slot keeps the state well-formed.
LEMMA TypeStep == TypeOK /\ [Next]_vars => TypeOK'
<1> SUFFICES ASSUME TypeOK, [Next]_vars PROVE TypeOK'
  OBVIOUS
<1> USE HandlerAssumption
<1>1. CASE MakeLock
  <2>1. ef' \in ExfatState /\ disk' \in CardMap
    BY <1>1, ChangedType DEF MakeLock, TypeOK, CardMap
  <2> QED
    BY <1>1, <2>1 DEF MakeLock, TypeOK, CardMap
<1>2. CASE Open
  <2>1. ef' \in ExfatState /\ disk' \in CardMap
    BY <1>2, ChangedType DEF Open, TypeOK, CardMap
  <2> QED
    BY <1>2, <2>1 DEF Open, TypeOK, CardMap
<1>3. CASE FhFromLock
  BY <1>3 DEF FhFromLock, TypeOK
<1>4. CASE Write
  <2>1. ef' \in ExfatState /\ disk' \in CardMap
    BY <1>4, ChangedType DEF Write
  <2> QED
    BY <1>4, <2>1 DEF Write, TypeOK, CardMap
<1>5. CASE Change
  <2>1. ef' \in ExfatState /\ disk' \in CardMap
    BY <1>5, ChangedType DEF Change
  <2> QED
    BY <1>5, <2>1 DEF Change, TypeOK, CardMap
<1>6. CASE FreeLock
  <2>1. /\ proc' \in {"down", "up", "quit", "halted"}
        /\ ef' \in ExfatState /\ disk' \in CardMap /\ volume' \in VolumeNode
    BY <1>6, ReleaseIfIdleType DEF FreeLock
  <2> QED
    BY <1>6, <2>1 DEF FreeLock, TypeOK, CardMap
<1>7. CASE End
  <2>0. /\ nfiles' \in 0..MaxFiles
        /\ UNCHANGED <<inhibited, nlocks, slot, mounter>>
    <3>1. nfiles > 0 /\ nfiles' = nfiles - 1
      BY <1>7 DEF End
    <3>2. UNCHANGED <<inhibited, nlocks, slot, mounter>>
      BY <1>7 DEF End
    <3> QED
      BY <3>1, <3>2 DEF TypeOK
  <2>1. CASE ReleaseIfIdle(nlocks, nfiles - 1)
    <3>1. /\ proc' \in {"down", "up", "quit", "halted"}
          /\ ef' \in ExfatState /\ disk' \in CardMap /\ volume' \in VolumeNode
      BY <2>1, ReleaseIfIdleType
    <3> QED
      BY <2>0, <3>1 DEF TypeOK, CardMap
  <2>2. CASE ~(inhibited \/ ef.ro)
    <3>1. PICK n, m \in BOOLEAN :
            /\ ef' = [ef EXCEPT !.nodes = n, !.map = m]
            /\ disk' = FlushDisk([nodes |-> n, map |-> m])
      BY <1>7, <2>2 DEF End
    <3>2. ef' \in ExfatState /\ disk' \in CardMap
      BY <3>1, FlushDiskType DEF TypeOK, ExfatState
    <3>3. UNCHANGED <<proc, volume>>
      BY <1>7, <2>2 DEF End
    <3> QED
      BY <2>0, <3>2, <3>3 DEF TypeOK, CardMap
  <2> QED
    BY <1>7, <2>1, <2>2 DEF End
<1>8. CASE Flush
  <2>1. PICK r \in [nodes: BOOLEAN, map: BOOLEAN] :
          /\ ef' = [ef EXCEPT !.nodes = r.nodes, !.map = r.map]
          /\ disk' = FlushDisk(r)
    BY <1>8 DEF Flush, FlushResults
  <2>2. ef' \in ExfatState /\ disk' \in CardMap
    BY <2>1, FlushDiskType DEF TypeOK, ExfatState
  <2> QED
    BY <1>8, <2>2 DEF Flush, TypeOK, CardMap
<1>9. CASE Die
  BY <1>9 DEF Die, TypeOK
<1>10. CASE Format
  <2>0. slot \in Cards /\ disk \in CardMap
    BY <1>10 DEF Format, TypeOK, CardMap
  <2>1. disk' \in CardMap
    <3>1. [exfat |-> TRUE, flag |-> FALSE, lost |-> FALSE, spoiled |-> FALSE]
            \in CardState
      BY DEF CardState
    <3>2. [disk[slot] EXCEPT !.exfat = FALSE] \in CardState
      BY <2>0 DEF CardMap, CardState
    <3>3. \E c \in CardState : disk' = [disk EXCEPT ![slot] = c]
      BY <1>10, <3>1, <3>2 DEF Format
    <3> QED
      BY <2>0, <3>3 DEF CardMap
  <2> QED
    BY <1>10, <2>1 DEF Format, TypeOK, CardMap
<1>11. CASE UserInhibit
  BY <1>11, InhibitOnType DEF UserInhibit, TypeOK, CardMap
<1>12. CASE UserUninhibit
  BY <1>12, InhibitOffType DEF UserUninhibit, TypeOK, CardMap
<1>13. CASE Start
  <2>1. ef' \in ExfatState /\ disk' \in CardMap /\ volume' \in VolumeNode
    BY <1>13, MountFsType, VolumeType DEF Start
  <2>2. nlocks' \in 0..MaxLocks /\ nfiles' \in 0..MaxFiles
    BY <1>13 DEF Start
  <2>3. /\ proc' = "up" /\ inhibited' = FALSE
        /\ mounter' \in MounterState /\ slot' = slot
    BY <1>13 DEF Start, MounterState
  <2> QED
    BY <2>1, <2>2, <2>3 DEF TypeOK, CardMap
<1>14. CASE Shutdown
  <2>1. volume' \in VolumeNode
    BY <1>14, VolumeType DEF Shutdown
  <2>2. /\ proc' \in {"down", "up", "quit", "halted"}
        /\ ef' \in ExfatState /\ disk' \in CardMap
    BY <1>14, UnmountFsType DEF Shutdown, TypeOK, CardMap
  <2> QED
    BY <1>14, <2>1, <2>2 DEF Shutdown, TypeOK, CardMap
<1>15. CASE Reset
  <2>1. ef' \in ExfatState /\ disk' \in CardMap
    BY <1>15, UnmountedType, DroppedType DEF Reset, TypeOK, CardMap
  <2>2. nlocks' \in 0..MaxLocks /\ nfiles' \in 0..MaxFiles
    BY <1>15 DEF Reset
  <2>3. volume' \in VolumeNode
    BY <1>15 DEF Reset, VolumeNode
  <2>4. /\ proc' = "down" /\ inhibited' = FALSE
        /\ mounter' \in MounterState /\ slot' = slot
    BY <1>15 DEF Reset, MounterState
  <2> QED
    BY <2>1, <2>2, <2>3, <2>4 DEF TypeOK, CardMap
<1>16. CASE Pull
  BY <1>16 DEF Pull, TypeOK, MounterState
<1>17. CASE \E c \in Cards : Insert(c)
  BY <1>17 DEF Insert, TypeOK, MounterState
<1>18. CASE MounterInhibit
  <2>1. mounter' \in MounterState
    BY <1>18 DEF MounterInhibit, MounterState
  <2>2. CASE InhibitOn
    BY <2>1, <2>2, InhibitOnType DEF TypeOK, CardMap
  <2>3. CASE UNCHANGED <<proc, ef, inhibited, nlocks, nfiles, volume, disk, slot>>
    BY <2>1, <2>3 DEF TypeOK
  <2> QED
    BY <1>18, <2>2, <2>3 DEF MounterInhibit
<1>19. CASE MounterUninhibit
  <2>1. mounter' \in MounterState
    BY <1>19 DEF MounterUninhibit, MounterState
  <2>2. CASE InhibitOff
    BY <2>1, <2>2, InhibitOffType DEF TypeOK, CardMap
  <2>3. CASE UNCHANGED <<proc, ef, inhibited, nlocks, nfiles, volume, disk, slot>>
    BY <2>1, <2>3 DEF TypeOK
  <2> QED
    BY <1>19, <2>2, <2>3 DEF MounterUninhibit
<1>20. CASE MounterUnlist
  BY <1>20 DEF MounterUnlist, TypeOK, VolumeNode
<1>21. CASE UNCHANGED vars
  BY <1>21 DEF vars, TypeOK
<1> QED
  BY <1>1, <1>2, <1>3, <1>4, <1>5, <1>6, <1>7, <1>8, <1>9, <1>10, <1>11, <1>12,
     <1>13, <1>14, <1>15, <1>16, <1>17, <1>18, <1>19, <1>20, <1>21 DEF Next

\* The handler's counters, mount, volume node and cards keep their types
\* whatever packets, cards and failures arrive.
THEOREM TypeCorrect == Spec => []TypeOK
<1> QED
  BY TypeInit, TypeStep, PTL DEF Spec

-----------------------------------------------------------------------------
(* The life cycle.  RightMedium, ReleasedWhenIdle and ParkedIsClean are not   *)
(* inductive: that no card comes in under an active mount depends on what the *)
(* mounter has been answered, and that a parked mount is clean depends on a   *)
(* read-only mount never being dirty.                                         *)

Running == proc \in {"up", "quit"}

Idle == nlocks = 0 /\ nfiles = 0

\* A mount has a home card; a read-only one has nothing to write.
MountSane ==
  /\ ef.mounted => ef.home \in Cards
  /\ ef.ro => ~ef.nodes /\ ~ef.map
  /\ proc = "down" => ~ef.mounted

\* No card is accepted before the handler has answered the inhibit.
SlotSane ==
  /\ mounter \in {"gone", "parked"} => slot = NoCard
  /\ mounter = "parked" /\ Running => inhibited

\* An active mount is on its own card; an inhibited one is clean, and held.
ServiceSane ==
  /\ Running /\ ~inhibited => ef.mounted /\ slot \in {ef.home, NoCard}
  /\ Running /\ inhibited /\ Idle => ~ef.mounted
  /\ inhibited /\ ef.mounted => ~ef.nodes /\ ~ef.map

LifeInv == TypeOK /\ MountSane /\ SlotSane /\ ServiceSane

\* The two ways an unmount can end.
Unmounts(live) == proc' = live /\ ef' = Unmounted
Stops ==
  /\ proc' = "halted"
  /\ ef.nodes
  /\ ef'.mounted = ef.mounted /\ ef'.home = ef.home /\ ef'.ro = ef.ro
  /\ ef'.nodes = ef.nodes /\ (ef'.map => ef.map)

\* unmount_fs() ends without a mount, or stops on a dirty node.
LEMMA UnmountFsEffect ==
  ASSUME TypeOK, NEW live, UnmountFs(live)
  PROVE  Unmounts(live) \/ Stops
<1>1. PICK r \in FlushResults :
        IF r.nodes
        THEN /\ proc' = "halted"
             /\ ef' = [ef EXCEPT !.map = r.map]
        ELSE /\ proc' = live
             /\ ef' = Unmounted
  BY DEF UnmountFs
<1>2. /\ r \in [nodes: BOOLEAN, map: BOOLEAN]
      /\ r.nodes => ef.nodes
      /\ r.map => ef.map
  BY DEF FlushResults
<1> QED
  BY <1>1, <1>2 DEF TypeOK, ExfatState, Unmounts, Stops

\* release_mount() ends without a mount, or stops on a dirty node.
LEMMA ReleaseMountEffect ==
  ASSUME TypeOK, ReleaseMount
  PROVE  \/ ~ef.mounted /\ UNCHANGED <<proc, ef, disk>>
         \/ ef.mounted /\ Unmounts(proc)
         \/ ef.mounted /\ Stops
  BY UnmountFsEffect DEF ReleaseMount, Unmounts

\* An inhibit leaves the handler released, parked and clean, or stopped.
LEMMA InhibitOnEffect ==
  ASSUME LifeInv, InhibitOn
  PROVE  /\ Running
         /\ UNCHANGED <<nlocks, nfiles, slot>>
         /\ \/ /\ proc' = proc /\ inhibited'
               /\ ef'.mounted => /\ ef.mounted /\ (inhibited \/ ~Idle)
                                 /\ ef'.home = ef.home
                                 /\ ~ef'.nodes /\ ~ef'.map
               /\ ef'.ro => ~ef'.nodes /\ ~ef'.map
               /\ ~ef'.mounted => ef' \in {ef, Unmounted}
            \/ ~inhibited /\ Idle /\ ef.mounted /\ ~inhibited' /\ Stops
<1>1. Running /\ UNCHANGED <<nlocks, nfiles, slot>>
  BY DEF InhibitOn, Serving, Running
<1>2. CASE inhibited
  BY <1>1, <1>2 DEF InhibitOn, LifeInv, MountSane, ServiceSane
<1>3. CASE ~inhibited /\ Idle
  <2>1. ReleaseMount /\ inhibited' = (proc' = proc)
    BY <1>3 DEF InhibitOn, Idle
  <2>2. CASE ~ef.mounted /\ UNCHANGED <<proc, ef, disk>>
    BY <1>1, <1>3, <2>1, <2>2 DEF LifeInv, MountSane
  <2>3. CASE ef.mounted /\ Unmounts(proc)
    BY <1>1, <1>3, <2>1, <2>3 DEF Unmounts, Unmounted
  <2>4. CASE ef.mounted /\ Stops
    BY <1>1, <1>3, <2>1, <2>4 DEF Stops, Running
  <2> QED
    BY <2>1, <2>2, <2>3, <2>4, ReleaseMountEffect DEF LifeInv
<1>4. CASE ~inhibited /\ ~Idle
  <2>1. Park /\ inhibited' = (proc' = proc)
    BY <1>4 DEF InhibitOn, Idle
  <2> QED
    BY <1>1, <1>4, <2>1, ParkType DEF LifeInv, MountSane, ServiceSane
<1> QED
  BY <1>2, <1>3, <1>4

\* An uninhibit ends with a mount of the card in the slot.
LEMMA InhibitOffEffect ==
  ASSUME LifeInv, InhibitOff
  PROVE  /\ Running /\ inhibited
         /\ inhibited' = FALSE
         /\ slot \in Cards
         /\ ef'.mounted /\ ef'.home = slot
         /\ ~ef'.nodes /\ ~ef'.map
         /\ UNCHANGED <<proc, nlocks, nfiles, slot>>
<1>1. /\ Running /\ inhibited /\ inhibited' = FALSE
      /\ UNCHANGED <<proc, nlocks, nfiles, slot>>
  BY DEF InhibitOff, Serving, Running
<1>2. CASE Remount
  BY <1>1, <1>2, MountFsType DEF Remount, LifeInv
<1>3. CASE Resume
  <2>1. ef.mounted /\ slot = ef.home /\ ef' = ef
    BY <1>3 DEF Resume, SameVolumeResults
  <2> QED
    BY <1>1, <2>1 DEF LifeInv, MountSane, ServiceSane
<1> QED
  BY <1>2, <1>3 DEF InhibitOff

\* What every packet does that is served on an active mount.
Serves ==
  /\ Running /\ ~inhibited
  /\ UNCHANGED <<proc, inhibited, slot, mounter>>
  /\ ef'.mounted = ef.mounted /\ ef'.home = ef.home /\ ef'.ro = ef.ro
  /\ ef.ro => ef' = ef

\* Client packets that need the medium only serve.
LEMMA ClientServes ==
  ASSUME LifeInv, MakeLock \/ Open \/ FhFromLock \/ Write \/ Change \/ Flush
  PROVE  Serves
<1> USE DEF LifeInv, Admitted, Serving, Running, Serves
<1>1. CASE MakeLock
  BY <1>1, ChangedType DEF MakeLock
<1>2. CASE Open
  BY <1>2, ChangedType DEF Open
<1>3. CASE FhFromLock
  BY <1>3 DEF FhFromLock
<1>4. CASE Write
  BY <1>4, ChangedType DEF Write
<1>5. CASE Change
  BY <1>5, ChangedType DEF Change
<1>6. CASE Flush
  <2>1. PICK r \in FlushResults :
          ef' = [ef EXCEPT !.nodes = r.nodes, !.map = r.map]
    BY <1>6 DEF Flush
  <2> QED
    BY <1>6, <2>1 DEF Flush, TypeOK, ExfatState
<1> QED
  BY <1>1, <1>2, <1>3, <1>4, <1>5, <1>6

\* A packet that gives something back serves, or leaves a parked mount as it
\* is, or completes the release of an idle one.
LEMMA GiveBackEffect ==
  ASSUME LifeInv, FreeLock \/ End
  PROVE  /\ Running
         /\ UNCHANGED <<inhibited, slot, mounter>>
         /\ \/ Serves
            \/ /\ inhibited /\ UNCHANGED <<proc, ef, disk>>
               /\ ef.mounted => ~Idle'
            \/ inhibited /\ ef.mounted /\ Unmounts(proc)
<1>0. Running /\ UNCHANGED <<inhibited, slot, mounter>>
  BY DEF FreeLock, End, Serving, Running
<1>1. ASSUME NEW l, NEW f, ReleaseIfIdle(l, f), l = nlocks', f = nfiles'
      PROVE  \/ Serves
             \/ /\ inhibited /\ UNCHANGED <<proc, ef, disk>>
                /\ ef.mounted => ~Idle'
             \/ inhibited /\ ef.mounted /\ Unmounts(proc)
  <2>1. CASE inhibited /\ ef.mounted /\ Idle'
    <3>1. ReleaseMount
      BY <1>1, <2>1 DEF ReleaseIfIdle, Idle
    <3>2. ~ef.nodes
      BY <2>1 DEF LifeInv, ServiceSane
    <3> QED
      BY <2>1, <3>1, <3>2, ReleaseMountEffect DEF LifeInv, Stops
  <2>2. CASE ~(inhibited /\ ef.mounted /\ Idle')
    <3>1. UNCHANGED <<proc, ef, disk, volume>>
      BY <1>1, <2>2 DEF ReleaseIfIdle, Idle
    <3> QED
      BY <1>0, <2>2, <3>1 DEF Serves, LifeInv, TypeOK
  <2> QED
    BY <2>1, <2>2
<1>2. CASE FreeLock
  BY <1>0, <1>1, <1>2 DEF FreeLock
<1>3. CASE End /\ (inhibited \/ ef.ro)
  BY <1>0, <1>1, <1>3 DEF End
<1>4. CASE End /\ ~(inhibited \/ ef.ro)
  <2>1. PICK n, m \in BOOLEAN : ef' = [ef EXCEPT !.nodes = n, !.map = m]
    BY <1>4 DEF End
  <2>2. proc' = proc
    BY <1>4 DEF End
  <2> QED
    BY <1>0, <1>4, <2>1, <2>2 DEF Serves, LifeInv, TypeOK, ExfatState
<1> QED
  BY <1>2, <1>3, <1>4

\* The initial state has no mount.
LEMMA LifeInit == Init => LifeInv
<1> SUFFICES ASSUME Init PROVE LifeInv
  OBVIOUS
<1>1. ~ef.mounted /\ ~ef.ro
  BY DEF Init, Unmounted
<1>2. proc = "down" /\ slot = NoCard
  BY DEF Init
<1> QED
  BY <1>1, <1>2, TypeInit
  DEF LifeInv, MountSane, SlotSane, ServiceSane, Running

\* Every step keeps the life cycle sane.
LEMMA LifeStep == LifeInv /\ [Next]_vars => LifeInv'
<1> SUFFICES ASSUME LifeInv, [Next]_vars PROVE LifeInv'
  OBVIOUS
<1>0. TypeOK /\ TypeOK'
  BY TypeStep DEF LifeInv
<1>1. CASE Serves
  BY <1>0, <1>1 DEF Serves, LifeInv, MountSane, SlotSane, ServiceSane, Running
<1>2. CASE FreeLock \/ End
  <2>1. CASE inhibited /\ UNCHANGED <<proc, ef, disk>> /\ (ef.mounted => ~Idle')
    BY <1>0, <1>2, <2>1, GiveBackEffect
    DEF LifeInv, MountSane, SlotSane, ServiceSane, Running
  <2>2. CASE inhibited /\ ef.mounted /\ Unmounts(proc)
    BY <1>0, <1>2, <2>2, GiveBackEffect
    DEF LifeInv, MountSane, SlotSane, ServiceSane, Running, Unmounts, Unmounted
  <2> QED
    BY <1>1, <1>2, <2>1, <2>2, GiveBackEffect
<1>3. CASE Die
  BY <1>0, <1>3
  DEF Die, Serving, LifeInv, MountSane, SlotSane, ServiceSane, Running, Idle
<1>4. CASE Format
  BY <1>0, <1>4 DEF Format, LifeInv, MountSane, SlotSane, ServiceSane, Running, Idle
<1>5. CASE InhibitOn /\ (\/ UNCHANGED mounter
                         \/ mounter = "gone" /\ mounter' \in {"gone", "parked"})
  <2>1. CASE inhibited'
    BY <1>0, <1>5, <2>1, InhibitOnEffect
    DEF LifeInv, MountSane, SlotSane, ServiceSane, Running, Idle, Stops
  <2>2. CASE ~inhibited'
    BY <1>0, <1>5, <2>2, InhibitOnEffect
    DEF LifeInv, MountSane, SlotSane, ServiceSane, Running, Stops
  <2> QED
    BY <2>1, <2>2
<1>6. CASE InhibitOff /\ (UNCHANGED mounter \/ mounter' = "present")
  BY <1>0, <1>6, InhibitOffEffect, HandlerAssumption
  DEF LifeInv, MountSane, SlotSane, ServiceSane, Running
<1>7. CASE Start
  <2>1. /\ slot \in Cards /\ ef'.mounted /\ ef'.home = slot
        /\ ~ef'.nodes /\ ~ef'.map
    BY <1>7, MountFsType DEF Start, LifeInv
  <2> QED
    BY <1>0, <1>7, <2>1 DEF Start, LifeInv, MountSane, SlotSane, ServiceSane
<1>8. CASE Shutdown
  <2>1. /\ Unmounts("down") \/ Stops \/ (proc' = "down" /\ ~ef.mounted /\ ef' = ef)
        /\ UNCHANGED <<inhibited, nlocks, nfiles, slot, mounter>>
    BY <1>8, UnmountFsEffect DEF Shutdown, LifeInv
  <2>2. CASE Unmounts("down")
    BY <1>0, <2>1, <2>2
    DEF Unmounts, Unmounted, LifeInv, MountSane, SlotSane, ServiceSane, Running
  <2>3. CASE Stops
    BY <1>0, <2>1, <2>3
    DEF Stops, LifeInv, MountSane, SlotSane, ServiceSane, Running
  <2>4. CASE proc' = "down" /\ ~ef.mounted /\ ef' = ef
    BY <1>0, <2>1, <2>4
    DEF LifeInv, MountSane, SlotSane, ServiceSane, Running
  <2> QED
    BY <2>1, <2>2, <2>3, <2>4
<1>9. CASE Reset
  BY <1>0, <1>9
  DEF Reset, Unmounted, LifeInv, MountSane, SlotSane, ServiceSane, Running
<1>10. CASE Pull
  BY <1>0, <1>10 DEF Pull, LifeInv, MountSane, SlotSane, ServiceSane, Running, Idle
<1>11. CASE \E c \in Cards : Insert(c)
  BY <1>0, <1>11 DEF Insert, LifeInv, MountSane, SlotSane, ServiceSane, Running, Idle
<1>12. CASE MounterInhibit /\ ~InhibitOn
  BY <1>0, <1>12
  DEF MounterInhibit, LifeInv, MountSane, SlotSane, ServiceSane, Running, Idle
<1>13. CASE MounterUninhibit /\ ~InhibitOff
  BY <1>0, <1>13
  DEF MounterUninhibit, LifeInv, MountSane, SlotSane, ServiceSane, Running, Idle
<1>14. CASE MounterUnlist \/ UNCHANGED vars
  BY <1>0, <1>14
  DEF MounterUnlist, vars, LifeInv, MountSane, SlotSane, ServiceSane, Running, Idle
<1>15. CASE UserInhibit \/ (MounterInhibit /\ InhibitOn)
  BY <1>5, <1>15 DEF UserInhibit, MounterInhibit
<1>16. CASE UserUninhibit \/ (MounterUninhibit /\ InhibitOff)
  BY <1>6, <1>16 DEF UserUninhibit, MounterUninhibit
<1>17. CASE MakeLock \/ Open \/ FhFromLock \/ Write \/ Change \/ Flush
  BY <1>1, <1>17, ClientServes
<1> QED
  BY <1>2, <1>3, <1>4, <1>7, <1>8, <1>9, <1>10, <1>11, <1>12, <1>13, <1>14,
     <1>15, <1>16, <1>17 DEF Next

\* A card is only ever served through its own metadata, whatever is pulled,
\* inserted, inhibited and resumed in whatever order.
THEOREM RightMediumHolds == Spec => []RightMedium
<1>1. LifeInv => RightMedium
  BY DEF LifeInv, ServiceSane, RightMedium, Admitted, Serving, Running
<1> QED
  BY <1>1, LifeInit, LifeStep, PTL DEF Spec

\* An inhibited volume that nothing holds is always fully released.
THEOREM ReleasedWhenIdleHolds == Spec => []ReleasedWhenIdle
<1>1. LifeInv => ReleasedWhenIdle
  BY DEF LifeInv, ServiceSane, ReleasedWhenIdle, Running, Idle
<1> QED
  BY <1>1, LifeInit, LifeStep, PTL DEF Spec

\* A parked mount never has anything left to write.
THEOREM ParkedIsCleanHolds == Spec => []ParkedIsClean
<1>1. LifeInv => ParkedIsClean
  BY DEF LifeInv, ServiceSane, ParkedIsClean
<1> QED
  BY <1>1, LifeInit, LifeStep, PTL DEF Spec

-----------------------------------------------------------------------------
(* Handles and foreign cards, when no packet is queued behind an ACTION_DIE.  *)
(* With such packets handler_die refutes HandlesOnMount, and the shutdown of  *)
(* a parked mount may meet another card.                                      *)

\* Only a running handler has handles, and handles only exist on a mount.
HandlesSane ==
  /\ proc # "up" => Idle
  /\ ~Idle => ef.mounted

SafeInv == LifeInv /\ HandlesSane /\ ForeignCardUntouched

\* No card in d has been written by another card's mount.
Unspoiled(d) == \A c \in Cards : ~d[c].spoiled

\* Dropping changes writes nothing.
LEMMA DroppedUnspoiled ==
  ASSUME NEW d \in CardMap, Unspoiled(d), NEW u
  PROVE  Unspoiled(Dropped(d, u))
  BY DEF Unspoiled, Dropped, CardMap, CardState

\* Flagging the card in the slot through its own mount spoils nothing.
LEMMA FlaggedUnspoiled ==
  ASSUME NEW d \in CardMap, Unspoiled(d), slot \in Cards, NEW f \in BOOLEAN
  PROVE  Unspoiled(Flagged(d, slot, f))
  BY DEF Unspoiled, Flagged, CardMap, CardState

\* On its own card, or none, a mount's metadata goes to the right place.
LEMMA TouchedUnspoiled ==
  ASSUME slot \in {NoCard, ef.home}
  PROVE  Touched = disk /\ \A r : FlushDisk(r) = disk
  BY DEF Touched, FlushDisk

\* Unmounting from the mounted card, or an empty slot, spoils nothing.
LEMMA UnmountFsUnspoiled ==
  ASSUME TypeOK, Unspoiled(disk), slot \in {NoCard, ef.home}, NEW live,
         UnmountFs(live)
  PROVE  Unspoiled(disk')
<1>1. PICK r \in FlushResults :
        \/ disk' = FlushDisk(r)
        \/ disk' = Dropped(FlushDisk(r), r.map)
        \/ /\ TRUE \in WriteResults
           /\ disk' = Flagged(Dropped(FlushDisk(r), r.map), ef.home, FALSE)
  BY DEF UnmountFs
<1>2. FlushDisk(r) = disk /\ disk \in CardMap
  BY TouchedUnspoiled DEF TypeOK, CardMap
<1>3. Dropped(disk, r.map) \in CardMap /\ Unspoiled(Dropped(disk, r.map))
  BY <1>2, DroppedType, DroppedUnspoiled
<1>4. CASE TRUE \in WriteResults /\ disk' = Flagged(Dropped(disk, r.map), ef.home, FALSE)
  <2>1. slot \in Cards /\ slot = ef.home
    BY <1>4, WriteNeedsCard, HandlerAssumption
  <2> QED
    BY <1>3, <1>4, <2>1, FlaggedUnspoiled
<1> QED
  BY <1>1, <1>2, <1>3, <1>4

\* Releasing a mount never writes a card that is not its own.
LEMMA ReleaseMountUnspoiled ==
  ASSUME TypeOK, Unspoiled(disk), ReleaseMount
  PROVE  Unspoiled(disk')
<1>1. CASE TRUE \in SameVolumeResults /\ UnmountFs(proc)
  <2>1. slot = ef.home
    BY <1>1 DEF SameVolumeResults
  <2> QED
    BY <1>1, <2>1, UnmountFsUnspoiled
<1>2. CASE disk' = disk \/ disk' = Dropped(disk, ef.nodes \/ ef.map)
  BY <1>2, DroppedUnspoiled DEF TypeOK, CardMap
<1> QED
  BY <1>1, <1>2 DEF ReleaseMount

\* Parking writes the card only through its own mount.
LEMMA ParkUnspoiled ==
  ASSUME TypeOK, Unspoiled(disk), slot \in {NoCard, ef.home}, Park
  PROVE  Unspoiled(disk')
<1>0. disk \in CardMap /\ \A r : FlushDisk(r) = disk
  BY TouchedUnspoiled DEF TypeOK, CardMap
<1>1. \/ disk' = disk
      \/ disk' = Dropped(disk, TRUE)
      \/ TRUE \in WriteResults /\ disk' = Flagged(disk, ef.home, FALSE)
  <2>1. CASE ef.ro
    BY <2>1 DEF Park
  <2>2. CASE ~ef.ro
    <3>1. PICK r \in FlushResults, ok \in WriteResults :
            disk' = IF r.nodes \/ r.map THEN Dropped(FlushDisk(r), TRUE)
                    ELSE IF ok THEN Flagged(FlushDisk(r), ef.home, FALSE)
                    ELSE FlushDisk(r)
      BY <2>2 DEF Park
    <3>2. ok => TRUE \in WriteResults
      BY <3>1, WriteResultsType
    <3> QED
      BY <1>0, <3>1, <3>2
  <2> QED
    BY <2>1, <2>2
<1>2. CASE TRUE \in WriteResults /\ disk' = Flagged(disk, ef.home, FALSE)
  <2>1. slot \in Cards /\ slot = ef.home
    BY <1>2, WriteNeedsCard, HandlerAssumption
  <2> QED
    BY <1>0, <1>2, <2>1, FlaggedUnspoiled
<1> QED
  BY <1>0, <1>1, <1>2, DroppedUnspoiled

\* Mounting and resuming write only the card in the slot, as its own.
LEMMA InhibitOffUnspoiled ==
  ASSUME TypeOK, Unspoiled(disk), MountFs \/ Resume
  PROVE  Unspoiled(disk')
<1>0. disk \in CardMap
  BY DEF TypeOK, CardMap
<1>1. CASE MountFs
  <2>1. slot \in Cards /\ (disk' = disk \/ disk' = Flagged(disk, slot, TRUE))
    BY <1>1 DEF MountFs, TypeOK
  <2> QED
    BY <1>0, <2>1, FlaggedUnspoiled
<1>2. CASE Resume
  <2>1. slot = ef.home
    BY <1>2 DEF Resume, SameVolumeResults
  <2>2. \/ disk' = disk
        \/ slot \in Cards /\ disk' = Flagged(disk, slot, TRUE)
    BY <1>2, <2>1, WriteNeedsCard DEF Resume
  <2> QED
    BY <1>0, <2>2, FlaggedUnspoiled
<1> QED
  BY <1>1, <1>2

\* Before the start there are no handles and no foreign writes.
LEMMA SafeInit == Init => SafeInv
<1> SUFFICES ASSUME Init PROVE SafeInv
  OBVIOUS
<1>1. Idle
  BY DEF Init, Idle
<1>2. ForeignCardUntouched
  BY DEF Init, ForeignCardUntouched
<1> QED
  BY <1>1, <1>2, LifeInit DEF SafeInv, HandlesSane

\* What a step leaves of the handles: on an active mount they come and go; a
\* mount goes, or the process leaves, only without them.
LEMMA HandlesStep ==
  ASSUME ~LatePackets, LifeInv, HandlesSane, [Next]_vars
  PROVE  HandlesSane'
<1> USE DEF HandlesSane
<1>0. TypeOK /\ TypeOK'
  BY TypeStep DEF LifeInv
<1>1. CASE MakeLock \/ Open \/ FhFromLock \/ Write \/ Change \/ Flush
  <2>1. Serves /\ proc = "up"
    BY <1>1, ClientServes
    DEF MakeLock, Open, FhFromLock, Write, Change, Flush, Admitted, Serving
  <2> QED
    BY <2>1 DEF Serves, LifeInv, ServiceSane, Running
<1>2. CASE FreeLock \/ End
  <2>1. ~Idle /\ proc = "up"
    <3>1. Serving /\ (nlocks > 0 \/ nfiles > 0)
      BY <1>2 DEF FreeLock, End
    <3> QED
      BY <1>0, <3>1 DEF Serving, Idle, TypeOK
  <2>2. CASE Serves
    BY <2>1, <2>2 DEF Serves
  <2>3. CASE inhibited /\ UNCHANGED <<proc, ef, disk>>
    BY <2>1, <2>3
  <2>4. CASE inhibited /\ ef.mounted /\ Unmounts(proc)
    <3>1. ReleaseIfIdle(nlocks', nfiles')
      BY <1>2, <2>4 DEF FreeLock, End
    <3>2. ef' # ef
      BY <2>4 DEF Unmounts, Unmounted
    <3>3. Idle'
      BY <3>1, <3>2 DEF ReleaseIfIdle, Idle
    <3> QED
      BY <2>1, <2>4, <3>3 DEF Unmounts
  <2> QED
    BY <1>2, <2>2, <2>3, <2>4, GiveBackEffect
<1>3. CASE Die
  BY <1>3 DEF Die, Idle
<1>4. CASE Format \/ Pull \/ (\E c \in Cards : Insert(c)) \/ MounterUnlist
           \/ UNCHANGED vars
  BY <1>4 DEF Format, Pull, Insert, MounterUnlist, vars, Idle
<1>5. CASE InhibitOn
  <2>1. CASE inhibited
    BY <1>5, <2>1 DEF InhibitOn, Idle
  <2>2. CASE ~inhibited /\ Idle
    BY <1>5, <2>2 DEF InhibitOn, Idle
  <2>3. CASE ~inhibited /\ ~Idle
    <3>1. Park
      BY <1>5, <2>3 DEF InhibitOn, Idle
    <3> QED
      BY <1>0, <1>5, <2>3, <3>1, ParkType DEF InhibitOn, Idle
  <2> QED
    BY <2>1, <2>2, <2>3
<1>6. CASE InhibitOff
  BY <1>6, InhibitOffEffect DEF Idle
<1>7. CASE Start \/ Reset
  BY <1>7 DEF Start, Reset, Idle
<1>8. CASE Shutdown
  BY <1>8 DEF Shutdown, Idle
<1>9. CASE MounterInhibit /\ ~InhibitOn
  BY <1>9 DEF MounterInhibit, Idle
<1>10. CASE MounterUninhibit /\ ~InhibitOff
  BY <1>10 DEF MounterUninhibit, Idle
<1> QED
  BY <1>1, <1>2, <1>3, <1>4, <1>5, <1>6, <1>7, <1>8, <1>9, <1>10
  DEF Next, UserInhibit, UserUninhibit

\* No step writes a card through another card's mount.
LEMMA ForeignStep ==
  ASSUME ~LatePackets, SafeInv, [Next]_vars
  PROVE  ForeignCardUntouched'
<1> USE DEF SafeInv
<1>0. TypeOK /\ Unspoiled(disk)
  BY DEF LifeInv, ForeignCardUntouched, Unspoiled
<1>s. SUFFICES Unspoiled(disk')
  BY DEF Unspoiled, ForeignCardUntouched
<1>1. CASE Running /\ ~inhibited /\ (disk' = Touched \/ \E r : disk' = FlushDisk(r))
  <2>1. slot \in {NoCard, ef.home}
    BY <1>1 DEF LifeInv, ServiceSane
  <2> QED
    BY <1>0, <1>1, <2>1, TouchedUnspoiled
<1>2. CASE UNCHANGED disk
  BY <1>0, <1>2
<1>3. CASE MakeLock \/ Open \/ Write \/ Change
  BY <1>1, <1>2, <1>3
  DEF MakeLock, Open, Write, Change, Changed, Admitted, Serving, Running
<1>4. CASE Flush
  BY <1>1, <1>4 DEF Flush, Serving, Running
<1>5. CASE FreeLock \/ End
  <2>1. CASE ReleaseIfIdle(nlocks', nfiles')
    BY <1>0, <1>2, <2>1, ReleaseMountUnspoiled DEF ReleaseIfIdle
  <2>2. CASE End /\ ~(inhibited \/ ef.ro)
    BY <1>1, <2>2 DEF End, Serving, Running
  <2> QED
    BY <1>5, <2>1, <2>2 DEF FreeLock, End
<1>6. CASE Format
  <2>1. slot \in Cards
    BY <1>6 DEF Format
  <2> QED
    BY <1>0, <1>6, <2>1 DEF Format, Unspoiled, TypeOK, CardState
<1>7. CASE InhibitOn
  <2>1. CASE inhibited
    BY <1>2, <1>7, <2>1 DEF InhibitOn
  <2>2. CASE ~inhibited /\ ReleaseMount
    BY <1>0, <2>2, ReleaseMountUnspoiled
  <2>3. CASE ~inhibited /\ Park
    <3>1. slot \in {NoCard, ef.home}
      BY <1>7, <2>3 DEF InhibitOn, Serving, LifeInv, ServiceSane, Running
    <3> QED
      BY <1>0, <2>3, <3>1, ParkUnspoiled
  <2> QED
    BY <1>7, <2>1, <2>2, <2>3 DEF InhibitOn
<1>8. CASE InhibitOff \/ Start
  BY <1>0, <1>8, InhibitOffUnspoiled DEF InhibitOff, Remount, Start
<1>9. CASE Shutdown
  <2>1. CASE ef.mounted
    <3>1. slot \in {NoCard, ef.home}
      BY <1>9, <2>1 DEF Shutdown, LifeInv, ServiceSane, Running, HandlesSane
    <3> QED
      BY <1>0, <1>9, <2>1, <3>1, UnmountFsUnspoiled DEF Shutdown
  <2> QED
    BY <1>2, <1>9, <2>1 DEF Shutdown
<1>10. CASE Reset
  BY <1>0, <1>10, DroppedUnspoiled DEF Reset, TypeOK, CardMap
<1>11. CASE UNCHANGED vars
  BY <1>2, <1>11 DEF vars
<1> QED
  BY <1>2, <1>3, <1>4, <1>5, <1>6, <1>7, <1>8, <1>9, <1>10, <1>11
  DEF Next, UserInhibit, UserUninhibit, MounterInhibit, MounterUninhibit,
      FhFromLock, Die, Pull, Insert, MounterUnlist

\* Both together are inductive.
LEMMA SafeStep ==
  ASSUME ~LatePackets
  PROVE  SafeInv /\ [Next]_vars => SafeInv'
  BY LifeStep, HandlesStep, ForeignStep DEF SafeInv

\* No lock or file ever outlives the mount its node pointers lead into.
THEOREM HandlesOnMountHolds ==
  ASSUME ~LatePackets
  PROVE  Spec => []HandlesOnMount
<1>1. SafeInv => HandlesOnMount
  BY DEF SafeInv, LifeInv, TypeOK, HandlesSane, Idle, HandlesOnMount
<1> QED
  BY <1>1, SafeInit, SafeStep, PTL DEF Spec

\* No card is ever written by a mount that describes another card.
THEOREM ForeignCardUntouchedHolds ==
  ASSUME ~LatePackets
  PROVE  Spec => []ForeignCardUntouched
<1>1. SafeInv => ForeignCardUntouched
  BY DEF SafeInv
<1> QED
  BY <1>1, SafeInit, SafeStep, PTL DEF Spec

\* The volume is never exchanged under handles: with handles there is a mount,
\* and only the release of an idle mount ends one.
THEOREM HandlesKeepVolumeHolds ==
  ASSUME ~LatePackets
  PROVE  Spec => HandlesKeepVolume
<1>1. SafeInv /\ SafeInv' /\ [Next]_vars
        => [nlocks + nfiles > 0 /\ nlocks' + nfiles' > 0
              => ef'.home = ef.home]_vars
  <2> SUFFICES ASSUME SafeInv, SafeInv', [Next]_vars,
                      nlocks + nfiles > 0, nlocks' + nfiles' > 0
               PROVE  ef'.home = ef.home
    OBVIOUS
  <2>0. ~Idle /\ ~Idle' /\ TypeOK
    <3>1. TypeOK
      BY DEF SafeInv, LifeInv
    <3> QED
      BY <3>1 DEF Idle
  <2>1. LifeInv /\ ef.mounted /\ ef'.mounted /\ proc = "up"
    BY <2>0 DEF SafeInv, HandlesSane
  <2>2. CASE MakeLock \/ Open \/ FhFromLock \/ Write \/ Change \/ Flush
    BY <2>1, <2>2, ClientServes DEF Serves
  <2>3. CASE FreeLock \/ End
    BY <2>1, <2>3, GiveBackEffect DEF Serves, Unmounts, Unmounted
  <2>4. CASE InhibitOn
    BY <2>0, <2>1, <2>4, InhibitOnEffect
  <2>5. CASE InhibitOff
    <3>1. Resume
      BY <2>1, <2>5 DEF InhibitOff, Remount
    <3> QED
      BY <3>1 DEF Resume
  <2>6. CASE Start \/ Shutdown \/ Reset
    BY <2>0, <2>1, <2>6 DEF Start, Shutdown, Reset, Idle
  <2> QED
    BY <2>2, <2>3, <2>4, <2>5, <2>6
    DEF Next, UserInhibit, UserUninhibit, MounterInhibit, MounterUninhibit,
        Die, Format, Pull, Insert, MounterUnlist, vars
<1> QED
  BY <1>1, SafeInit, SafeStep, PTL DEF Spec, HandlesKeepVolume

-----------------------------------------------------------------------------
(* VolumeDirty, when no access to a card that is present fails                *)

\* A mount that may become dirty is flagged, and nothing else is dirty.
FlagSane ==
  /\ ef.mounted /\ ~ef.ro /\ ~inhibited => disk[ef.home].flag
  /\ ~ef.mounted => ~ef.nodes /\ ~ef.map

FlagInv == LifeInv /\ FlagSane

\* Writing metadata or dropping changes leaves every flag alone.
LEMMA FlagsKept ==
  ASSUME TypeOK
  PROVE  /\ \A c \in Cards : Touched[c].flag = disk[c].flag
         /\ \A r : \A c \in Cards : FlushDisk(r)[c].flag = disk[c].flag
  BY DEF Touched, FlushDisk, TypeOK, CardState

\* Flagging the card in the slot through its own mount sets its flag.
LEMMA FlaggedSets ==
  ASSUME TypeOK, slot \in Cards, NEW f \in BOOLEAN
  PROVE  Flagged(disk, slot, f)[slot].flag = f
  BY DEF Flagged, TypeOK, CardState

\* Without I/O errors a mount or a resume flags the card it makes writable.
LEMMA InhibitOffFlags ==
  ASSUME ~IOErrors, LifeInv, MountFs \/ Resume, ~ef'.ro
  PROVE  disk'[ef'.home].flag
<1>1. CASE MountFs
  <2>1. slot \in Cards /\ ef'.home = slot
    BY <1>1, MountFsType DEF LifeInv
  <2>2. WriteResults = {TRUE}
    BY <2>1, HandlerAssumption DEF WriteResults
  <2>3. slot \notin WriteProtected
    BY <1>1 DEF MountFs
  <2>4. disk' = Flagged(disk, slot, TRUE)
    BY <1>1, <2>2, <2>3 DEF MountFs
  <2> QED
    BY <2>1, <2>4, FlaggedSets DEF LifeInv
<1>2. CASE Resume
  <2>1. slot = ef.home /\ ef' = ef /\ ef.mounted
    BY <1>2 DEF Resume, SameVolumeResults
  <2>2. disk' = Flagged(disk, ef.home, TRUE)
    BY <1>2, <2>1 DEF Resume
  <2> QED
    BY <2>1, <2>2, FlaggedSets DEF LifeInv, MountSane
<1> QED
  BY <1>1, <1>2

\* Every step keeps a writable mount flagged.
LEMMA FlagStep ==
  ASSUME ~IOErrors
  PROVE  FlagInv /\ [Next]_vars => FlagInv'
<1> SUFFICES ASSUME FlagInv, [Next]_vars PROVE FlagSane'
  BY LifeStep DEF FlagInv
<1> USE DEF FlagInv, FlagSane
<1>0. TypeOK
  BY DEF LifeInv
<1>1. CASE Serves /\ (disk' = disk \/ disk' = Touched \/ \E r : disk' = FlushDisk(r))
  <2>1. ef.mounted /\ ef.home \in Cards
    BY <1>1 DEF Serves, LifeInv, ServiceSane, MountSane
  <2> QED
    BY <1>0, <1>1, <2>1, FlagsKept DEF Serves
<1>2. CASE MakeLock \/ Open \/ FhFromLock \/ Write \/ Change \/ Flush
  <2>1. disk' = disk \/ disk' = Touched \/ \E r : disk' = FlushDisk(r)
    BY <1>2 DEF MakeLock, Open, FhFromLock, Write, Change, Flush, Changed
  <2> QED
    BY <1>1, <1>2, <2>1, ClientServes
<1>3. CASE FreeLock \/ End
  <2>1. CASE Serves
    <3>1. CASE ReleaseIfIdle(nlocks', nfiles')
      BY <1>1, <2>1, <3>1 DEF Serves, ReleaseIfIdle
    <3>2. CASE End /\ ~(inhibited \/ ef.ro)
      BY <1>1, <2>1, <3>2 DEF End
    <3> QED
      BY <1>3, <3>1, <3>2 DEF FreeLock, End
  <2>2. CASE inhibited /\ UNCHANGED <<proc, ef, disk>>
    BY <1>3, <2>2, GiveBackEffect
  <2>3. CASE Unmounts(proc)
    BY <2>3 DEF Unmounts, Unmounted
  <2> QED
    BY <1>3, <2>1, <2>2, <2>3, GiveBackEffect
<1>4. CASE ef'.mounted /\ Stops /\ \E r : disk' = FlushDisk(r)
  <2>1. ef.mounted /\ ef'.home = ef.home /\ ef'.ro = ef.ro /\ ef.home \in Cards
    BY <1>4 DEF Stops, LifeInv, MountSane
  <2>2. ~ef.ro /\ ~inhibited
    BY <1>4, <2>1 DEF Stops, LifeInv, MountSane, ServiceSane
  <2> QED
    BY <1>0, <1>4, <2>1, <2>2, FlagsKept
<1>5. ASSUME NEW live, live # "halted", UnmountFs(live), ef.mounted PROVE FlagSane'
  <2>1. CASE Unmounts(live)
    BY <2>1 DEF Unmounts, Unmounted
  <2>2. CASE Stops
    <3>1. \E r : disk' = FlushDisk(r)
      BY <1>5, <2>2 DEF UnmountFs, Stops
    <3> QED
      BY <1>4, <1>5, <2>2, <3>1 DEF Stops
  <2> QED
    BY <1>0, <1>5, <2>1, <2>2, UnmountFsEffect
<1>6. CASE InhibitOn
  <2>1. CASE inhibited'
    <3>1. ~ef'.mounted => ef' \in {ef, Unmounted}
      BY <1>6, <2>1, InhibitOnEffect
    <3>2. ~Unmounted.nodes /\ ~Unmounted.map
      BY DEF Unmounted
    <3> QED
      BY <2>1, <3>1, <3>2
  <2>2. CASE ~inhibited'
    <3>1. ~inhibited /\ Idle /\ ef.mounted /\ Stops
      BY <1>6, <2>2, InhibitOnEffect
    <3>2. ReleaseMount
      BY <1>6, <3>1 DEF InhibitOn, Idle
    <3>3. UnmountFs(proc) /\ proc # "halted"
      BY <1>6, <3>1, <3>2 DEF ReleaseMount, Stops, Unmounted, InhibitOn, Serving
    <3> QED
      BY <1>5, <3>1, <3>3
  <2> QED
    BY <2>1, <2>2
<1>7. CASE InhibitOff \/ Start
  <2>1. (MountFs \/ Resume) /\ ef'.mounted
    BY <1>0, <1>7, InhibitOffEffect, MountFsType DEF InhibitOff, Remount, Start
  <2> QED
    BY <2>1, InhibitOffFlags
<1>8. CASE Shutdown
  BY <1>5, <1>8 DEF Shutdown
<1>9. CASE Reset
  BY <1>9 DEF Reset, Unmounted
<1>10. CASE Format
  BY <1>10 DEF Format
<1>11. CASE UNCHANGED <<ef, inhibited, disk>>
  BY <1>11
<1> QED
  BY <1>2, <1>3, <1>6, <1>7, <1>8, <1>9, <1>10, <1>11
  DEF Next, UserInhibit, UserUninhibit, MounterInhibit, MounterUninhibit,
      Die, Pull, Insert, MounterUnlist, vars

\* Before the start nothing is dirty.
LEMMA FlagInit == Init => FlagInv
<1> SUFFICES ASSUME Init PROVE FlagInv
  OBVIOUS
<1>1. ~ef.mounted /\ ~ef.nodes /\ ~ef.map
  BY DEF Init, Unmounted
<1> QED
  BY <1>1, LifeInit DEF FlagInv, FlagSane

\* Whenever a reset would lose changes, VolumeDirty is set on their card.
THEOREM UnsavedIsFlaggedHolds ==
  ASSUME ~IOErrors
  PROVE  Spec => []UnsavedIsFlagged
<1>1. Init => FlagInv
  BY FlagInit
<1>2. FlagInv => UnsavedIsFlagged
  BY DEF FlagInv, FlagSane, LifeInv, MountSane, ServiceSane, UnsavedIsFlagged
<1> QED
  BY <1>1, <1>2, FlagStep, PTL DEF Spec

-----------------------------------------------------------------------------
(* The flag is cleared with everything written.  With failing accesses it is  *)
(* not: exfat_unmount() ignores that the bitmap could not be written.         *)

\* Clearing VolumeDirty does not change what is lost.
LEMMA FlaggedLost ==
  ASSUME NEW d \in CardMap, slot \in Cards, NEW h, NEW c \in Cards
  PROVE  Flagged(d, h, FALSE)[c].lost = d[c].lost
  BY DEF Flagged, CardMap, CardState

\* Setting VolumeDirty clears it nowhere.
LEMMA FlaggedSetsOnly ==
  ASSUME NEW d \in CardMap, slot \in Cards, NEW h, NEW c \in Cards, d[c].flag
  PROVE  Flagged(d, h, TRUE)[c].flag
  BY DEF Flagged, CardMap, CardState

\* A flush and dropping changes leave every flag as it is.
LEMMA DroppedFlags ==
  ASSUME NEW d \in CardMap, NEW u, NEW c \in Cards
  PROVE  Dropped(d, u)[c].flag = d[c].flag
  BY DEF Dropped, CardMap, CardState

\* A flush loses nothing by itself.
LEMMA FlushDiskLost ==
  ASSUME TypeOK, NEW r, NEW c \in Cards
  PROVE  FlushDisk(r)[c].lost = disk[c].lost
  BY DEF FlushDisk, Touched, TypeOK, CardState

\* What the property says of one card.
ClearedOf(c) ==
  disk[c].flag /\ ~disk'[c].flag =>
    /\ disk'[c].lost => disk[c].lost
    /\ ef'.home = c => ~ef'.nodes /\ ~ef'.map

\* A card that works takes a flush as a whole.
LEMMA FlushIsWhole ==
  ASSUME ~IOErrors, TypeOK, TRUE \in WriteResults, NEW r \in FlushResults
  PROVE  ~r.nodes /\ ~r.map
<1>1. FALSE \notin WriteResults
  BY HandlerAssumption DEF WriteResults
<1> QED
  BY <1>1 DEF FlushResults

\* unmount_fs() clears the flag only with bitmap and nodes written.
LEMMA UnmountClears ==
  ASSUME ~IOErrors, TypeOK, NEW live, UnmountFs(live), NEW c \in Cards
  PROVE  ClearedOf(c)
<1>1. PICK r \in FlushResults :
        IF r.nodes
        THEN /\ proc' = "halted"
             /\ ef' = [ef EXCEPT !.map = r.map]
             /\ disk' = FlushDisk(r)
        ELSE /\ proc' = live
             /\ ef' = Unmounted
             /\ \/ disk' = Dropped(FlushDisk(r), r.map) /\ (ef.ro \/ FALSE \in WriteResults)
                \/ /\ ~ef.ro /\ TRUE \in WriteResults
                   /\ disk' = Flagged(Dropped(FlushDisk(r), r.map), ef.home, FALSE)
  BY DEF UnmountFs
<1>2. FlushDisk(r) \in CardMap /\ Dropped(FlushDisk(r), r.map) \in CardMap
  BY FlushDiskType, DroppedType
<1>3. FlushDisk(r)[c].flag = disk[c].flag
  BY FlagsKept
<1>4. Dropped(FlushDisk(r), r.map)[c].flag = disk[c].flag
  BY <1>2, <1>3, DroppedFlags
<1>5. CASE disk' \in {FlushDisk(r), Dropped(FlushDisk(r), r.map)}
  BY <1>3, <1>4, <1>5 DEF ClearedOf
<1>6. CASE /\ ~r.nodes /\ ef' = Unmounted /\ TRUE \in WriteResults
           /\ disk' = Flagged(Dropped(FlushDisk(r), r.map), ef.home, FALSE)
  <2>1. ~r.map /\ slot \in Cards
    BY <1>6, FlushIsWhole, WriteNeedsCard
  <2>2. disk' = Flagged(FlushDisk(r), ef.home, FALSE)
    BY <1>6, <2>1 DEF Dropped
  <2>3. disk'[c].lost = disk[c].lost
    <3>1. Flagged(FlushDisk(r), ef.home, FALSE)[c].lost = FlushDisk(r)[c].lost
      BY <1>2, <2>1, FlaggedLost
    <3> QED
      BY <2>2, <3>1, FlushDiskLost
  <2> QED
    BY <1>6, <2>3 DEF ClearedOf, Unmounted
<1> QED
  BY <1>1, <1>5, <1>6

\* release_mount() clears the flag only with everything written.
LEMMA ReleaseClears ==
  ASSUME ~IOErrors, TypeOK, ReleaseMount, NEW c \in Cards
  PROVE  ClearedOf(c)
<1>1. CASE disk' = disk
  BY <1>1 DEF ClearedOf
<1>2. CASE UnmountFs(proc)
  BY <1>2, UnmountClears
<1>3. CASE disk' = Dropped(disk, ef.nodes \/ ef.map)
  <2>1. disk'[c].flag = disk[c].flag
    BY <1>3, DroppedFlags DEF TypeOK, CardMap
  <2> QED
    BY <2>1 DEF ClearedOf
<1> QED
  BY <1>1, <1>2, <1>3 DEF ReleaseMount

\* Parking clears the flag only if nothing had to be dropped.
LEMMA ParkClears ==
  ASSUME TypeOK, Park, NEW c \in Cards
  PROVE  ClearedOf(c)
<1>1. CASE ef.ro
  BY <1>1 DEF Park, ClearedOf
<1>2. CASE ~ef.ro
  <2>1. ef' = [ef EXCEPT !.nodes = FALSE, !.map = FALSE]
    BY <1>2 DEF Park
  <2>2. PICK r \in FlushResults, ok \in WriteResults :
          disk' = IF r.nodes \/ r.map THEN Dropped(FlushDisk(r), TRUE)
                  ELSE IF ok THEN Flagged(FlushDisk(r), ef.home, FALSE)
                  ELSE FlushDisk(r)
    BY <1>2 DEF Park
  <2>3. ~ef'.nodes /\ ~ef'.map
    BY <2>1 DEF TypeOK, ExfatState
  <2>4. FlushDisk(r) \in CardMap /\ FlushDisk(r)[c].flag = disk[c].flag
    BY FlushDiskType, FlagsKept
  <2>5. CASE disk' = Dropped(FlushDisk(r), TRUE)
    BY <2>4, <2>5, DroppedFlags DEF ClearedOf
  <2>6. CASE ok /\ disk' = Flagged(FlushDisk(r), ef.home, FALSE)
    <3>1. slot \in Cards
      BY <2>6, WriteNeedsCard, WriteResultsType
    <3>2. Flagged(FlushDisk(r), ef.home, FALSE)[c].lost = FlushDisk(r)[c].lost
      BY <2>4, <3>1, FlaggedLost
    <3>3. disk'[c].lost = disk[c].lost
      BY <2>6, <3>2, FlushDiskLost
    <3> QED
      BY <2>3, <3>3 DEF ClearedOf
  <2>7. CASE disk' = FlushDisk(r)
    BY <2>4, <2>7 DEF ClearedOf
  <2> QED
    BY <2>2, <2>5, <2>6, <2>7
<1> QED
  BY <1>1, <1>2

\* Mounting and resuming set the flag and clear none.
LEMMA MountingClearsNone ==
  ASSUME TypeOK, MountFs \/ Resume, NEW c \in Cards
  PROVE  ClearedOf(c)
<1>1. CASE disk' = disk
  BY <1>1 DEF ClearedOf
<1>2. CASE slot \in Cards /\ disk' = Flagged(disk, slot, TRUE)
  BY <1>2, FlaggedSetsOnly DEF ClearedOf, TypeOK, CardMap
<1>3. CASE slot \in Cards /\ disk' = Flagged(disk, ef.home, TRUE)
  BY <1>3, FlaggedSetsOnly DEF ClearedOf, TypeOK, CardMap
<1>4. MountFs => disk' = disk \/ (slot \in Cards /\ disk' = Flagged(disk, slot, TRUE))
  BY DEF MountFs, TypeOK
<1>5. Resume => disk' = disk \/ (slot \in Cards /\ disk' = Flagged(disk, ef.home, TRUE))
  BY WriteNeedsCard DEF Resume
<1> QED
  BY <1>1, <1>2, <1>3, <1>4, <1>5

\* While accesses to a card that is present succeed, VolumeDirty is cleared only
\* by a step that leaves nothing of that volume unwritten and loses nothing:
\* by unmount_fs(), by parking, and by a format, which begins a new volume.
THEOREM ClearedWhenWrittenHolds ==
  ASSUME ~IOErrors
  PROVE  Spec => ClearedWhenWritten
<1>1. FlagInv /\ [Next]_vars => [\A c \in Cards : ClearedOf(c)]_vars
  <2> SUFFICES ASSUME FlagInv, [Next]_vars, NEW c \in Cards PROVE ClearedOf(c)
    BY DEF ClearedOf
  <2>0. TypeOK
    BY DEF FlagInv, LifeInv
  <2>1. CASE disk' = disk \/ disk' = Touched \/ \E r : disk' = FlushDisk(r)
    <3>1. disk'[c].flag = disk[c].flag
      BY <2>0, <2>1, FlagsKept
    <3> QED
      BY <3>1 DEF ClearedOf
  <2>2. CASE MakeLock \/ Open \/ FhFromLock \/ Write \/ Change \/ Flush
    BY <2>1, <2>2 DEF MakeLock, Open, FhFromLock, Write, Change, Flush, Changed
  <2>3. CASE FreeLock \/ End
    BY <2>0, <2>1, <2>3, ReleaseClears DEF FreeLock, End, ReleaseIfIdle
  <2>4. CASE InhibitOn
    BY <2>0, <2>1, <2>4, ReleaseClears, ParkClears DEF InhibitOn
  <2>5. CASE InhibitOff \/ Start
    BY <2>0, <2>5, MountingClearsNone DEF InhibitOff, Remount, Start
  <2>6. CASE Shutdown
    BY <2>0, <2>1, <2>6, UnmountClears DEF Shutdown
  <2>7. CASE Reset
    BY <2>0, <2>7, DroppedFlags DEF Reset, ClearedOf, TypeOK, CardMap
  <2>8. CASE Format
    <3>1. ~ef'.nodes /\ ~ef'.map
      BY <2>8 DEF Format, FlagInv, FlagSane
    <3>2. disk'[c].lost => disk[c].lost
      BY <2>0, <2>8 DEF Format, TypeOK, CardState
    <3> QED
      BY <3>1, <3>2 DEF ClearedOf
  <2> QED
    BY <2>1, <2>2, <2>3, <2>4, <2>5, <2>6, <2>7, <2>8
    DEF Next, UserInhibit, UserUninhibit, MounterInhibit, MounterUninhibit,
        Die, Pull, Insert, MounterUnlist, vars
<1>2. Init => FlagInv
  BY FlagInit
<1> QED
  BY <1>1, <1>2, FlagStep, PTL DEF Spec, ClearedWhenWritten, ClearedOf

-----------------------------------------------------------------------------
(* The volume node, while the DOS list can be locked *)

\* The node of an active volume is attached and listed, and none is forgotten.
ShownSane ==
  /\ ~inhibited /\ volume.node # "none" => volume.node = "attached" /\ volume.listed
  /\ ~volume.orphan

ShownInv == TypeOK /\ ShownSane

\* Without a busy list removing and attaching the node work.
LEMMA VolumeEffect ==
  ASSUME ~DosListBusy, ShownInv
  PROVE  /\ RemoveVolume => volume'.node = "none" /\ ~volume'.orphan
         /\ AddVolume => /\ ~volume'.orphan
                         /\ volume'.node = "none"
                              \/ (volume'.node = "attached" /\ volume'.listed)
         /\ AttachVolume => /\ ~volume'.orphan
                            /\ volume'.node = "none"
                                 \/ (volume'.node = "attached" /\ volume'.listed)
         /\ DetachVolume => ~volume'.orphan
<1> USE DEF ShownInv, ShownSane, TypeOK, VolumeNode
<1>1. RemoveVolume => volume'.node = "none" /\ ~volume'.orphan
  BY HandlerAssumption DEF RemoveVolume
<1>2. AddVolume => /\ ~volume'.orphan
                   /\ volume'.node = "none"
                        \/ (volume'.node = "attached" /\ volume'.listed)
  BY DEF AddVolume
<1>3. AttachVolume => volume' = IF volume.node = "none" THEN volume
                       ELSE [volume EXCEPT !.node = "attached", !.listed = TRUE]
  BY HandlerAssumption DEF AttachVolume
<1>4. DetachVolume => ~volume'.orphan
  BY DEF DetachVolume
<1> QED
  BY <1>1, <1>2, <1>3, <1>4

\* Every step keeps an active volume shown: what detaches or unlists the node
\* does so to an inhibited volume, and what ends the inhibition lists it again.
LEMMA ShownStep ==
  ASSUME ~DosListBusy
  PROVE  ShownInv /\ [Next]_vars => ShownInv'
<1> SUFFICES ASSUME ShownInv, [Next]_vars PROVE ShownSane'
  BY TypeStep DEF ShownInv
<1> USE DEF ShownSane
<1>1. CASE volume' = volume /\ (inhibited' = inhibited \/ inhibited')
  BY <1>1 DEF ShownInv
<1>2. CASE MakeLock \/ Open \/ FhFromLock \/ Write \/ Change \/ Flush \/ Die \/ Format \/ Pull
  BY <1>1, <1>2 DEF MakeLock, Open, FhFromLock, Write, Change, Flush, Die, Format, Pull
<1>3. CASE FreeLock \/ End
  <2>1. inhibited' = inhibited /\ (RemoveVolume \/ volume' = volume)
    BY <1>3 DEF FreeLock, End, ReleaseIfIdle
  <2> QED
    BY <1>1, <2>1, VolumeEffect
<1>4. CASE InhibitOn
  <2>1. CASE inhibited
    BY <1>1, <1>4, <2>1 DEF InhibitOn
  <2>2. CASE ~inhibited /\ RemoveVolume
    BY <2>2, VolumeEffect
  <2>3. CASE ~inhibited /\ Park
    <3>1. inhibited' /\ DetachVolume
      BY <1>4, <2>3 DEF InhibitOn, Park
    <3> QED
      BY <3>1, VolumeEffect
  <2> QED
    BY <1>4, <2>1, <2>2, <2>3 DEF InhibitOn
<1>5. CASE InhibitOff \/ Start
  <2>1. AddVolume \/ AttachVolume
    BY <1>5 DEF InhibitOff, Remount, Resume, Start
  <2> QED
    BY <2>1, VolumeEffect
<1>6. CASE Shutdown
  BY <1>6, VolumeEffect DEF Shutdown
<1>7. CASE Reset
  BY <1>7 DEF Reset
<1>8. CASE MounterUnlist
  <2>1. volume.node = "detached" /\ inhibited' = inhibited
    BY <1>8 DEF MounterUnlist
  <2>2. inhibited
    BY <2>1 DEF ShownInv
  <2>3. volume'.orphan = volume.orphan
    BY <1>8 DEF MounterUnlist, ShownInv, TypeOK, VolumeNode
  <2> QED
    BY <2>1, <2>2, <2>3 DEF ShownInv
<1> QED
  BY <1>1, <1>2, <1>3, <1>4, <1>5, <1>6, <1>7, <1>8
  DEF Next, UserInhibit, UserUninhibit, MounterInhibit, MounterUninhibit,
      Insert, vars

\* While the DOS list can be locked, the volume of a handler that serves is
\* attached and listed, also if it was parked, unlisted and resumed, and no
\* node that the handler has let go of stays in the list.
THEOREM VolumeShownHolds ==
  ASSUME ~DosListBusy
  PROVE  Spec => []VolumeShown
<1>1. Init => ShownInv
  <2> SUFFICES ASSUME Init PROVE ShownInv
    OBVIOUS
  <2>1. volume.node = "none" /\ ~volume.orphan
    BY DEF Init
  <2> QED
    BY <2>1, TypeInit DEF ShownInv, ShownSane
<1>2. ShownInv => VolumeShown
  BY DEF ShownInv, ShownSane, VolumeShown, Admitted
<1> QED
  BY <1>1, <1>2, ShownStep, PTL DEF Spec

=============================================================================
