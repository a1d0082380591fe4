-------------------------------- MODULE MCMkfs --------------------------------
EXTENDS Mkfs

\* Formats of a device with 512-byte sectors: with the default cluster of
\* 8 sectors, and with clusters of one and of 32.
SmallJobs ==
  [amiga: BOOLEAN, sector_bits: {9}, spc_bits: {-1}, label: {"fits", "long"}, serial: {1}]
  \cup [amiga: {FALSE}, sector_bits: {9}, spc_bits: {0, 5}, label: {""}, serial: {1}]

OldJobs ==
  [amiga: {FALSE}, sector_bits: {9}, spc_bits: {-1, 0}, label: {"fits"}, serial: {2}]

SmallOld == OldJobs \cup {NoJob}

\* Formats on the Amiga, on a device with blocks of 4096 bytes.
LargeJobs ==
  [amiga: {TRUE}, sector_bits: {12}, spc_bits: {-1}, label: {"fits"}, serial: {1}]

=============================================================================
