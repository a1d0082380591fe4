--------------------------------- MODULE Mkfs ---------------------------------
(***************************************************************************)
(* Formatting: mkfs/ under mkexfatfs (mkfs/main.c) and under ACTION_FORMAT *)
(* (amiga/format.c).  A format is a fixed sequence of writes - everything  *)
(* is erased, then written, object by object - that may stop after any     *)
(* unit, because a write fails or the power does.  Afterwards the device   *)
(* may be mounted, also by exfatfsck -y, which repairs the boot checksum.  *)
(*                                                                         *)
(* Writes reach the medium in their order.  The bytes behind the end of an *)
(* object in its last unit are never read, so that they are erased with    *)
(* it.                                                                     *)
(***************************************************************************)
EXTENDS Mount

CONSTANTS
  Jobs,   \* the formats: [amiga: BOOLEAN, sector_bits, spc_bits (-1: not
          \*   given), label ("", "fits" or "long"), serial]
  Old     \* what may be on the device: the Job that made the volume, or NoJob

CONSTANTS
  NoJob,
  Sizes,  \* sizes of the device, in units
  MaxTorn \* bound: units of a write that reach the medium before it stops

VARIABLES
  disk,
  job,    \* the format that was last started, or NoJob
  pc,     \* its next write
  phase   \* "idle", "format", "mounted"; "ok": the format has returned 0

mkfs_vars == <<disk, job, pc, phase>>

Volume(d) == Cardinality(DOMAIN d)

-----------------------------------------------------------------------------
(* The parameters *)

\* setup_spc_bits() and choose_spc_bits(), for a volume of so many KB.  With
\* clusters of 128 KB a FAT reaches 512 TB; larger volumes are out of range.
DefaultSpcBits(sector_bits, kb) ==
  LET floor0(n) == IF n > 0 THEN n ELSE 0 IN
  CASE kb < 256 * 1024 -> floor0(12 - sector_bits)
    [] kb >= 256 * 1024 /\ kb < 32 * 1024 * 1024 -> floor0(15 - sector_bits)
    [] OTHER -> floor0(17 - sector_bits)

SpcBits(j, size) ==
  IF j.spc_bits >= 0 THEN j.spc_bits ELSE DefaultSpcBits(j.sector_bits, size \div 2)

\* exfat_amiga_format() formats without a label that does not fit.
Label(j) == IF j.label = "long" THEN "" ELSE j.label

\* All that the writes depend on, sizes in bytes.
Param(j, size) ==
  LET ss == 2 ^ j.sector_bits IN
  [job |-> j, ss |-> ss, spc_bits |-> SpcBits(j, size),
   cs |-> ss * 2 ^ SpcBits(j, size), volume |-> size * UnitBytes]

-----------------------------------------------------------------------------
(* The layout: get_position() of each object, in bytes *)

VbrSize(p) == 12 * p.ss
FatSize(p) == (p.volume \div p.cs) * 4
FatPos(p) == RoundUp(2 * VbrSize(p), 128 * p.ss)
CbmPos(p) == RoundUp(FatPos(p) + FatSize(p), p.cs)

\* Mutation: the last bits of the bitmap have no byte.
CbmSizeDown(p) == CDiv(CDiv(p.volume - CbmPos(p), p.cs), 8)

CbmSize(p) == DivRoundUp(CDiv(p.volume - CbmPos(p), p.cs), 8)
UctPos(p) == RoundUp(CbmPos(p) + CbmSize(p), p.cs)
UctSize == 5836
RootPos(p) == RoundUp(UctPos(p) + UctSize, p.cs)
RootSize(p) == p.cs

\* objects[], each with its position and size.
Layout(p) ==
  << <<0, VbrSize(p)>>, <<VbrSize(p), VbrSize(p)>>, <<FatPos(p), FatSize(p)>>,
     <<CbmPos(p), CbmSize(p)>>, <<UctPos(p), UctSize>>, <<RootPos(p), RootSize(p)>> >>

\* check_size().
CheckSize(p) == RootPos(p) + RootSize(p) <= p.volume

ClusterOf(p, pos) == (pos - CbmPos(p)) \div p.cs + FirstDataCluster

\* init_sb().
InitSb(p) ==
  LET clusters_max == p.volume \div p.cs
      fat_start == 128
      fat_sectors == DivRoundUp(clusters_max * 4, p.ss)
      fat_count == RoundUp(fat_start + fat_sectors, 2 ^ p.spc_bits) - fat_start
  IN  [serial |-> p.job.serial, sector_bits |-> p.job.sector_bits,
       spc_bits |-> p.spc_bits, version |-> <<1, 0>>, fat_count |-> 1,
       volume_state |-> {}, allocated_percent |-> 0,
       fat_sector_start |-> fat_start,
       cluster_sector_start |-> CbmPos(p) \div p.ss,
       cluster_count |-> clusters_max - (fat_start + fat_count) \div 2 ^ p.spc_bits,
       rootdir_cluster |-> ClusterOf(p, RootPos(p))]

-----------------------------------------------------------------------------
(* The writes: units from u on get the content data; a write that is not  *)
(* whole units changes the cells that it names only.                      *)

Whole(u, data) == [u |-> u, data |-> data, whole |-> TRUE]
Part(u, k, cells) == [u |-> u, data |-> <<[k |-> k, c |-> cells]>>, whole |-> FALSE]

Unit(pos) == pos \div UnitBytes

\* erase_object().
EraseObject(o) ==
  Whole(Unit(o[1]), [i \in 1..DivRoundUp(o[2], UnitBytes) |-> Zero])

\* Mutation: the root directory is not erased.
EraseNoRoot(p) == [i \in 1..5 |-> EraseObject(Layout(p)[i])]

Erase(p) == [i \in DOMAIN Layout(p) |-> EraseObject(Layout(p)[i])]

\* vbr_write(): the super block, 8 sectors with a boot signature, 2 empty
\* ones and the checksum, one behind the other from pos on.  The super block
\* is written with its own size.
VbrWrite(p, pos) ==
  LET n == p.ss \div UnitBytes
      sector(last) == [i \in 1..n |-> IF i = n THEN last ELSE Zero]
      body == [i \in 1..10 |-> sector(IF i <= 8 THEN [k |-> "boot", c |-> <<>>] ELSE Zero)]
      sum == VbrChecksum(InitSb(p), [u \in 1..(10 * n) |->
                                       body[((u - 1) \div n) + 1][((u - 1) % n) + 1]])
      sectors == Append(body, [i \in 1..n |-> Only("sum", 0, sum)])
  IN  <<Whole(Unit(pos), <<Only("sb", 0, InitSb(p))>>)>>
        \o [i \in 1..11 |-> Whole(Unit(pos) + 1 + (i - 1) * n, sectors[i])]

\* fat_write(): the entries, each in a write of its own.
FatEntries(p) ==
  LET chain(first, length) ==
        LET n == DivRoundUp(length, p.cs) IN
        [i \in 1..(IF n > 0 THEN n ELSE 1) |-> IF i < n THEN first + i ELSE End]
      cbm == <<-2, -3>> \o chain(FirstDataCluster, CbmSize(p))
      uct == cbm \o chain(Len(cbm), UctSize)
  IN  uct \o chain(Len(uct), RootSize(p))

FatWrite(p) ==
  [i \in DOMAIN FatEntries(p) |->
     Part(Unit(FatPos(p)) + (i - 1) \div FatCells, "fat",
          Cell((i - 1) % FatCells, FatEntries(p)[i]))]

\* cbm_write(): the clusters of the three objects are in use; the rest of
\* the last byte is free.
Allocated(p) ==
  DivRoundUp(CbmSize(p), p.cs) + DivRoundUp(UctSize, p.cs) + DivRoundUp(RootSize(p), p.cs)

CbmWrite(p) ==
  <<Part(Unit(CbmPos(p)), "bits",
         [b \in 0..(RoundUp(Allocated(p), 8) - 1) |-> b < Allocated(p)])>>

UctUnits == [i \in 1..DivRoundUp(UctSize, UnitBytes) |-> Only("uct", 0, i)]
UctWrite(p) == <<Whole(Unit(UctPos(p)), UctUnits)>>

\* rootdir_write() with init_label_entry(), init_bitmap_entry() and
\* init_upcase_entry(): an entry without a label is not valid.
RootWrite(p) ==
  LET entry(t, c, n, l) == [type |-> t, start_cluster |-> c, size |-> n, label |-> l]
      label == Label(p.job)
      entries ==
        << IF label = "" THEN entry("none", 0, 0, "") ELSE entry("label", 0, 0, label),
           entry("bitmap", FirstDataCluster, CbmSize(p), ""),
           entry("upcase", ClusterOf(p, UctPos(p)), UctSize, "") >>
  IN  [i \in 1..3 |-> Part(Unit(RootPos(p)), "dir", Cell(i - 1, entries[i]))]

\* create(): the objects in the order of objects[].
Create(p) ==
  VbrWrite(p, 0) \o VbrWrite(p, VbrSize(p)) \o FatWrite(p) \o CbmWrite(p)
    \o UctWrite(p) \o RootWrite(p)

\* mkfs() after check_size().
Writes(p) == Erase(p) \o Create(p)

\* The cells of new, and those of old that it leaves alone.
Over(new, old) ==
  [x \in DOMAIN new \cup DOMAIN old |-> IF x \in DOMAIN new THEN new[x] ELSE old[x]]

\* The first n units of a write reach the medium.
Apply(d, w, n) ==
  [u \in DOMAIN d |->
     IF u \notin w.u..(w.u + n - 1) THEN d[u]
     ELSE LET new == w.data[u - w.u + 1] IN
          IF w.whole \/ d[u].k # new.k THEN new
          ELSE [new EXCEPT !.c = Over(new.c, d[u].c)]]

Made(d, p) ==
  LET after[i \in 0..Len(Writes(p))] ==
        IF i = 0 THEN d
        ELSE Apply(after[i - 1], Writes(p)[i], Len(Writes(p)[i].data))
  IN  after[Len(Writes(p))]

-----------------------------------------------------------------------------
(* What was there before: nothing of exFAT, or a volume with a file in its *)
(* first free cluster.                                                     *)

Junk == [k |-> "junk", c |-> <<>>]

WithFile(d, p) ==
  LET c == FirstDataCluster + Allocated(p)
      sb == InitSb(p)
      file == [type |-> "file", start_cluster |-> c, size |-> p.cs, label |-> ""]
      writes == << Part(Unit(CbmPos(p)), "bits", Cell(Allocated(p), TRUE)),
                   Part(Unit(RootPos(p)), "dir", Cell(3, file)),
                   Whole(ClusterUnit(sb, c),
                         [i \in 1..ClusterUnits(sb) |-> Only("data", 0, i)]) >>
      after[i \in 0..3] ==
        IF i = 0 THEN d ELSE Apply(after[i - 1], writes[i], Len(writes[i].data))
  IN  after[3]

OldDisk(size, o) ==
  LET blank == [u \in 0..(size - 1) |-> Junk] IN
  IF o = NoJob THEN blank
  ELSE WithFile(Made(blank, Param(o, size)), Param(o, size))

HasRoom(p) == CheckSize(p) /\ InitSb(p).cluster_count > Allocated(p)

\* mkexfatfs formats with sectors of 512 bytes, and the size of a cluster is
\* an int.  The bits that cbm_write() sets are in one unit.
ASSUME MkfsAssumption ==
  /\ Sizes \subseteq Nat \ {0}
  /\ MaxTorn \in Nat
  /\ \A j \in Jobs \cup (Old \ {NoJob}) :
       /\ ~j.amiga => j.sector_bits = 9
       /\ j.spc_bits \in -1..21
       /\ \A size \in Sizes : CheckSize(Param(j, size)) => Allocated(Param(j, size)) < BitCells
  /\ \A o \in Old \ {NoJob} : o.sector_bits \in 9..12

MkfsInit ==
  /\ \E size \in Sizes, o \in Old :
       /\ o # NoJob => HasRoom(Param(o, size))
       /\ disk = OldDisk(size, o)
  /\ job = NoJob
  /\ pc = 0
  /\ phase = "idle"

-----------------------------------------------------------------------------
(* The actions *)

\* The writes of each format, once for all states.
Program == [j \in Jobs |-> [size \in Sizes |-> Writes(Param(j, size))]]
Now == Program[job][Volume(disk)][pc]

\* A format that is refused, by the caller or by check_size(), has written
\* nothing.
Start(j, refused) ==
  /\ job = NoJob /\ phase = "idle"
  /\ job' = j
  /\ pc' = 1
  /\ phase' = IF refused \/ ~CheckSize(Param(j, Volume(disk))) THEN "idle" ELSE "format"
  /\ UNCHANGED disk

\* main() and setup() of mkexfatfs: no volume is made if the label does not
\* fit or there is no time for a serial number.
Setup(j) ==
  /\ ~j.amiga
  /\ \E noserial \in BOOLEAN : Start(j, j.label = "long" \/ noserial)

\* exfat_amiga_format(): blocks of 512 to 4096 bytes.
AmigaFormat(j) ==
  /\ j.amiga
  /\ Start(j, j.sector_bits \notin 9..12)

Write ==
  /\ phase = "format" /\ pc <= Len(Program[job][Volume(disk)])
  /\ disk' = Apply(disk, Now, Len(Now.data))
  /\ pc' = pc + 1
  /\ UNCHANGED <<job, phase>>

\* The power fails, or a write does, in which case mkfs() returns 1: n units
\* of the write are on the medium.
Interrupt(n) ==
  /\ phase = "format" /\ pc <= Len(Program[job][Volume(disk)])
  /\ n < Len(Now.data)
  /\ disk' = Apply(disk, Now, n)
  /\ phase' = "idle"
  /\ UNCHANGED <<job, pc>>

\* exfat_fsync(), which may fail, and exfat_close().
Sync ==
  /\ phase = "format" /\ pc > Len(Program[job][Volume(disk)])
  /\ phase' \in {"ok", "idle"}
  /\ UNCHANGED <<disk, job, pc>>

Rest == phase \in {"ok", "idle"}

\* exfat_mount() and exfat_soil_super_block(), which may fail; with repair
\* also a mount that fails in the end has put the checksum right.
MountRepair ==
  /\ Rest
  /\ \/ /\ ~Mounts(disk, TRUE)
        /\ disk' = Repaired(disk, TRUE)
        /\ phase' = phase
     \/ /\ Mounts(disk, TRUE)
        /\ disk' \in {Repaired(disk, TRUE), Soiled(Repaired(disk, TRUE))}
        /\ phase' = "mounted"
  /\ UNCHANGED <<job, pc>>

MountPlain ==
  /\ Rest
  /\ Mounts(disk, FALSE)
  /\ disk' \in {disk, Soiled(disk)}
  /\ phase' = "mounted"
  /\ UNCHANGED <<job, pc>>

\* exfat_unmount(), or a crash: nothing has changed but the super block.
Unmount ==
  /\ phase = "mounted"
  /\ disk' \in {disk, Finalized(disk)}
  /\ phase' = "idle"
  /\ UNCHANGED <<job, pc>>

MkfsNext ==
  \/ \E j \in Jobs : Setup(j) \/ AmigaFormat(j)
  \/ Write
  \/ \E n \in 0..MaxTorn : Interrupt(n)
  \/ Sync
  \/ MountRepair
  \/ MountPlain
  \/ Unmount

MkfsSpec == MkfsInit /\ [][MkfsNext]_mkfs_vars

-----------------------------------------------------------------------------
(* Properties *)

\* The clusters that something on the volume occupies: the objects of the
\* root directory, contiguous from their first cluster on, and the root.
Occupied(d) ==
  LET sb == Super(d)
      chain == RootChain(d, sb)
      bytes == ClusterUnits(sb) * UnitBytes
  IN  chain \cup UNION {e.start_cluster..(e.start_cluster + DivRoundUp(e.size, bytes) - 1) :
                          e \in {e \in EntriesIn(d, sb, chain) : e.size > 0}}

\* A volume that holds together: what is in use, and nothing else, is marked;
\* the upcase table and the data of the files are what they should be.
HoldsTogether(d) ==
  LET sb == Super(d)
      entries == EntriesIn(d, sb, RootChain(d, sb))
  IN  /\ \A e \in Of(entries, "bitmap") : Marked(d, sb, e) = Occupied(d)
      /\ \A e \in Of(entries, "upcase") : \A i \in DOMAIN UctUnits :
           LET u == ClusterUnit(sb, e.start_cluster) + i - 1 IN
           u \in DOMAIN d /\ d[u].k = "uct" /\ d[u].c[0] = i
      /\ \A e \in Of(entries, "file") : \A u \in ClusterRange(sb, e.start_cluster) :
           u \in DOMAIN d /\ d[u].k = "data"

\* Wherever a format stops, and with or without repair of the boot checksum,
\* what then mounts is a volume that holds together, the old one or the new
\* one: erasing comes first, and the last write is the one without which
\* exfat_mount() refuses.
NoHalfVolume == \A repair \in BOOLEAN : Mounts(disk, repair) => HoldsTogether(disk)

\* A format that has returned 0 leaves a volume that mounts without repair: a
\* new one with the label asked for and nothing in it.
FormattedMounts ==
  phase = "ok" =>
    /\ Mounts(disk, FALSE)
    /\ Super(disk).serial = job.serial
    /\ LET entries == EntriesIn(disk, Super(disk), RootChain(disk, Super(disk))) IN
         /\ Of(entries, "file") = {}
         /\ {e.label : e \in Of(entries, "label")} = {Label(job)} \ {""}

\* A volume that mounts goes on to mount, whatever mounts, unmounts and
\* crashes do to its super block: the boot checksum does not cover what they
\* change.
StaysMountable ==
  [][(phase # "format" /\ Mounts(disk, FALSE)) => Mounts(disk, FALSE)']_mkfs_vars

=============================================================================
