-------------------------------- MODULE Mount --------------------------------
(***************************************************************************)
(* What exfat_mount() of libexfat/mount.c accepts, as operators on the     *)
(* content of a device, and the two fields of the super block that a       *)
(* mounted volume changes.                                                 *)
(*                                                                         *)
(* A device is a function from its units of 512 bytes to what they hold: a *)
(* kind k and the cells c of that kind that are not zero - entries of the  *)
(* FAT, bits of the bitmap, directory entries.  A checksum is an injective *)
(* function of the bytes it covers.                                        *)
(***************************************************************************)
EXTENDS Integers, FiniteSets, Sequences

FirstDataCluster == 2
End == -1             \* EXFAT_CLUSTER_END
UnitBytes == 512
FatCells == 128       \* entries of the FAT in a unit
BitCells == 4096      \* bits of the bitmap in a unit
DirCells == 16        \* directory entries in a unit

Zero == [k |-> "zero", c |-> <<>>]
Cell(i, v) == [x \in {i} |-> v]
Only(k, i, v) == [k |-> k, c |-> Cell(i, v)]

\* C's division, which truncates.
CDiv(a, b) == IF a >= 0 THEN a \div b ELSE -((-a) \div b)
DivRoundUp(x, d) == CDiv(x + d - 1, d)
RoundUp(x, d) == DivRoundUp(x, d) * d

\* SECTOR_SIZE and CLUSTER_SIZE, in units.
SectorUnits(sb) == 2 ^ (sb.sector_bits - 9)
ClusterUnits(sb) == SectorUnits(sb) * 2 ^ sb.spc_bits

ClusterInvalid(sb, c) == c < FirstDataCluster \/ c - FirstDataCluster >= sb.cluster_count

\* exfat_c2o().
ClusterUnit(sb, c) ==
  (sb.cluster_sector_start + (c - FirstDataCluster) * 2 ^ sb.spc_bits) * SectorUnits(sb)

ClusterRange(sb, c) == ClusterUnit(sb, c)..(ClusterUnit(sb, c) + ClusterUnits(sb) - 1)

\* The cell that is i cells of kind k behind the start of unit u.
CellAt(d, u, k, per, i, none) ==
  LET x == u + i \div per IN
  IF x \in DOMAIN d /\ d[x].k = k /\ i % per \in DOMAIN d[x].c
  THEN d[x].c[i % per] ELSE none

\* exfat_next_cluster() in a chain.
NextCluster(d, sb, c) == CellAt(d, sb.fat_sector_start * SectorUnits(sb), "fat", FatCells, c, 0)

-----------------------------------------------------------------------------
(* The boot region *)

\* Mutation: the checksum covers the whole super block.
VbrChecksumWhole(sb, units) == <<sb, [i \in DOMAIN units |-> units[i].k]>>

\* exfat_vbr_start_checksum(), which skips volume_state and
\* allocated_percent, and exfat_vbr_add_checksum(): of a super block and of
\* the units that follow.
VbrChecksum(sb, units) ==
  << [sb EXCEPT !.volume_state = {}, !.allocated_percent = 0],
     [i \in DOMAIN units |-> units[i].k] >>

\* The checksum of the sectors 0 to 10, as the mount computes it.
VbrExpected(d, sb) ==
  VbrChecksum(sb, [u \in 1..(11 * SectorUnits(sb) - 1) |-> d[u]])

\* verify_vbr_checksum(): the whole of sector 11 repeats the checksum.
VerifyVbrChecksum(d, sb) ==
  \A u \in (11 * SectorUnits(sb))..(12 * SectorUnits(sb) - 1) :
    d[u].k = "sum" /\ d[u].c[0] = VbrExpected(d, sb)

\* exfat_fix_invalid_vbr_checksum().
FixVbrChecksum(d, sb) ==
  [u \in DOMAIN d |->
     IF u \div SectorUnits(sb) = 11 THEN Only("sum", 0, VbrExpected(d, sb)) ELSE d[u]]

-----------------------------------------------------------------------------
(* The root directory *)

\* rootdir_size(): the clusters of the root directory, or none if the chain
\* is broken or does not end.
RootChain(d, sb) ==
  LET at[i \in 0..sb.cluster_count] ==
        IF i = 0 THEN sb.rootdir_cluster
        ELSE IF ClusterInvalid(sb, at[i - 1]) THEN End
        ELSE NextCluster(d, sb, at[i - 1])
      lengths == {n \in 1..sb.cluster_count :
                    /\ \A i \in 0..(n - 1) : ~ClusterInvalid(sb, at[i])
                    /\ at[n] = End}
  IN  UNION {{at[i] : i \in 0..(n - 1)} : n \in lengths}

\* The directory entries in use in a set of clusters.
EntriesIn(d, sb, clusters) ==
  UNION {{d[u].c[i] : i \in DOMAIN d[u].c} :
           u \in {u \in DOMAIN d \cap UNION {ClusterRange(sb, c) : c \in clusters} :
                    d[u].k = "dir"}}

Of(entries, t) == {e \in entries : e.type = t}

UpcaseMax == 131072  \* the bytes of EXFAT_UPCASE_CHARS characters

\* readdir() on an upcase entry and on a bitmap entry: is it accepted?
UpcaseAccepted(sb, e) ==
  /\ ~ClusterInvalid(sb, e.start_cluster)
  /\ e.size \in 1..UpcaseMax /\ e.size % 2 = 0

BitmapAccepted(sb, e) ==
  /\ ~ClusterInvalid(sb, e.start_cluster)
  /\ e.size >= DivRoundUp(sb.cluster_count, 8)

\* ef->cmap.chunk: the clusters that the bitmap marks.
Marked(d, sb, e) ==
  {b + FirstDataCluster : b \in {b \in 0..(sb.cluster_count - 1) :
      CellAt(d, ClusterUnit(sb, e.start_cluster), "bits", BitCells, b, FALSE)}}

-----------------------------------------------------------------------------
(* exfat_mount() *)

Super(d) == d[0].c[0]

\* The checks before the checksum.
SuperAccepted(d) ==
  /\ d[0].k = "sb"
  /\ Super(d).sector_bits >= 9
  /\ Super(d).sector_bits + Super(d).spc_bits <= 25
  /\ Cardinality(DOMAIN d) >= 12 * SectorUnits(Super(d))

\* The device after a mount: with repair, the checksum is put right.
Repaired(d, repair) ==
  IF SuperAccepted(d) /\ repair /\ ~VerifyVbrChecksum(d, Super(d))
  THEN FixVbrChecksum(d, Super(d)) ELSE d

\* Does the mount succeed?
Mounts(d, repair) ==
  LET sb == Super(d)
      entries == EntriesIn(d, sb, RootChain(d, sb))
  IN  /\ SuperAccepted(d)
      /\ repair \/ VerifyVbrChecksum(d, sb)
      /\ sb.version = <<1, 0>> /\ sb.fat_count = 1
      /\ sb.cluster_count * ClusterUnits(sb) <= Cardinality(DOMAIN d)
      /\ RootChain(d, sb) # {}
      /\ Of(entries, "upcase") # {} /\ Of(entries, "bitmap") # {}
      /\ \A e \in Of(entries, "upcase") : UpcaseAccepted(sb, e)
      /\ \A e \in Of(entries, "bitmap") : BitmapAccepted(sb, e)

\* exfat_soil_super_block() and commit_super_block().
Soiled(d) ==
  [d EXCEPT ![0] = Only("sb", 0, [Super(d) EXCEPT !.volume_state = @ \cup {"mounted"}])]

\* finalize_super_block(): the share of clusters in use, rounded.
Percent(used, total) == (used * 100 + total \div 2) \div total

Finalized(d) ==
  LET sb == Super(d)
      map == CHOOSE e \in Of(EntriesIn(d, sb, RootChain(d, sb)), "bitmap") : TRUE
  IN  [d EXCEPT ![0] = Only("sb", 0,
         [sb EXCEPT !.volume_state = @ \ {"mounted"},
                    !.allocated_percent =
                       IF @ = 255 THEN @
                       ELSE Percent(Cardinality(Marked(d, sb, map)), sb.cluster_count)])]

=============================================================================
