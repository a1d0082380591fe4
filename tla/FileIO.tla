-------------------------------- MODULE FileIO --------------------------------
(***************************************************************************)
(* Reading, writing and resizing one file through several file handles:    *)
(* exfat_generic_pread(), exfat_generic_pwrite() and exfat_truncate() of   *)
(* libexfat with the packets of amiga/handler.c that call them.            *)
(*                                                                         *)
(* exFAT keeps two sizes of a file.  Bytes from valid_size on are on the   *)
(* medium but hold whatever a deleted file left there, and must read as    *)
(* zeros.  The clusters of the file are taken for granted (see Clusters);  *)
(* a cluster that is freed or allocated holds Stale bytes.  The handler    *)
(* serves one packet at a time, so a call is one action.  Byte i of the    *)
(* file is at offset i - 1.                                                *)
(***************************************************************************)
EXTENDS Naturals, FiniteSets

CONSTANTS
  ClusterSize,  \* CLUSTER_SIZE(sb), bytes
  MaxSize,      \* bound: bytes of the file
  Values,       \* what a client may write, and 0
  Stale,        \* a byte that a deleted file left behind
  Handles,      \* open file handles on the file
  Full,         \* TRUE: an allocation may fail with ENOSPC
  WriteErrors   \* TRUE: a data write to the medium may fail

ASSUME FileIOAssumption ==
  /\ ClusterSize \in Nat \ {0} /\ MaxSize \in Nat
  /\ {0, 1} \subseteq Values /\ Stale \notin Values
  /\ Full \in BOOLEAN /\ WriteErrors \in BOOLEAN

VARIABLES
  file,  \* size, valid_size and the bytes of the file's clusters
  pos    \* file->pos of each handle

vars == <<file, pos>>

Bytes == 1..MaxSize
Minimum(a, b) == IF a < b THEN a ELSE b
Maximum(a, b) == IF a > b THEN a ELSE b

\* Any file that another system may have left, whose valid part is a client's.
Init ==
  /\ file \in {[size |-> s, valid |-> v,
                raw |-> [i \in Bytes |-> IF i <= v THEN 1 ELSE Stale]] :
                 s \in 0..MaxSize, v \in 0..MaxSize}
  /\ file.valid <= file.size
  /\ pos = [h \in Handles |-> 0]

-----------------------------------------------------------------------------
(* libexfat *)

\* bytes2clusters(), in bytes.
Allocated(n) == ((n + ClusterSize - 1) \div ClusterSize) * ClusterSize

\* Mutation: the tail of the last cluster is taken to be zero.
ErasedClusters(f, n) ==
  [i \in Bytes |-> IF i \in (Allocated(f.valid) + 1)..n THEN 0 ELSE f.raw[i]]

\* erase_range(valid_size, n).
Erased(f, n) ==
  [i \in Bytes |-> IF i \in (f.valid + 1)..n THEN 0 ELSE f.raw[i]]

\* exfat_truncate() to n bytes: what it can leave, and whether it succeeded.
Truncate(f, n, erase) ==
  LET kept == [f EXCEPT !.raw = [i \in Bytes |->
                 IF i <= Minimum(Allocated(f.size), Allocated(n)) THEN @[i] ELSE Stale]]
      done == IF n = f.size THEN f
              ELSE [size |-> n,
                    valid |-> IF erase THEN n ELSE Minimum(f.valid, n),
                    raw |-> IF erase THEN Erased(kept, n) ELSE kept.raw]
  IN  {[ok |-> TRUE, f |-> done]} \cup
      (IF Full /\ Allocated(n) > Allocated(f.size) THEN {[ok |-> FALSE, f |-> f]} ELSE {})

\* The offsets at which a transfer of n bytes at o is divided into chunks.
Cuts(o, n) == {k \in 0..n : k \in {0, n} \/ (o + k) % ClusterSize = 0}

\* The loop of exfat_generic_pwrite(), n bytes of value v at o, within the file.
\* A chunk that fails may have reached the medium, and leaves valid_size alone.
Stored(f, o, n, v) ==
  LET after(k, m) ==
        [f EXCEPT !.valid = IF k > 0 THEN Maximum(@, o + k) ELSE @,
                  !.raw = [i \in Bytes |-> IF i \in (o + 1)..(o + m) THEN v ELSE @[i]]]
      next(k) == CHOOSE m \in Cuts(o, n) : m > k /\ \A j \in Cuts(o, n) : j > k => m <= j
  IN  {[ok |-> TRUE, f |-> after(n, n)]} \cup
      (IF ~WriteErrors THEN {}
       ELSE UNION {{[ok |-> FALSE, f |-> after(k, k)], [ok |-> FALSE, f |-> after(k, next(k))]} :
                     k \in Cuts(o, n) \ {n}})

\* Mutation: a write behind the end does not zero the hole first.
PwriteNoHole(f, o, n, v) ==
  UNION {IF t.ok THEN Stored(t.f, o, n, v) ELSE {t} :
           t \in IF o + n > f.size THEN Truncate(f, o + n, FALSE) ELSE {[ok |-> TRUE, f |-> f]}}

\* exfat_generic_pwrite(): a hole behind the end is zeroed, the rest of the
\* growth is not, since it is about to be written.
Pwrite(f, o, n, v) ==
  LET hole == IF o > f.size THEN Truncate(f, o, TRUE) ELSE {[ok |-> TRUE, f |-> f]}
      grow(g) == IF o + n > g.size THEN Truncate(g, o + n, FALSE) ELSE {[ok |-> TRUE, f |-> g]}
      grown == UNION {IF r.ok THEN grow(r.f) ELSE {r} : r \in hole}
  IN  UNION {IF r.ok THEN Stored(r.f, o, n, v) ELSE {r} : r \in grown}

\* Mutation: what lies behind valid_size is read from the medium.
PreadUnclipped(f, o, n) ==
  [i \in 1..Minimum(n, IF o >= f.size THEN 0 ELSE f.size - o) |-> f.raw[o + i]]

\* exfat_generic_pread() of n bytes at o: the buffer as far as it is filled.
\* What reaches behind valid_size is put together from the part before and
\* zeros.
Pread(f, o, n) ==
  LET raw(k) == [i \in 1..Minimum(k, f.size - o) |-> f.raw[o + i]]
      part == IF o < f.valid THEN f.valid - o ELSE 0
      zeros == Minimum(n - part, f.size - f.valid)
      buffer == [i \in 1..(part + zeros) |-> IF i <= part THEN raw(part)[i] ELSE 0]
  IN  IF o >= f.size THEN <<>>
      ELSE IF o + n <= f.valid THEN raw(n)
      ELSE [i \in 1..Minimum(n, f.size - o) |-> buffer[i]]

-----------------------------------------------------------------------------
(* Packets *)

\* ACTION_WRITE.
Write(h, n, v) ==
  /\ pos[h] + n <= MaxSize
  /\ \E r \in Pwrite(file, pos[h], n, v) :
       /\ file' = r.f
       /\ pos' = IF r.ok THEN [pos EXCEPT ![h] = @ + n] ELSE pos

\* ACTION_READ.
Read(h, n) ==
  /\ pos' = [pos EXCEPT ![h] = @ + Cardinality(DOMAIN Pread(file, pos[h], n))]
  /\ UNCHANGED file

\* ACTION_SEEK, to a place in the file.
Seek(h, p) ==
  /\ p <= file.size
  /\ pos' = [pos EXCEPT ![h] = p]
  /\ UNCHANGED file

\* ACTION_SET_FILE_SIZE clamps the position of the handle it came through.
SetFileSize(h, n) ==
  \E r \in Truncate(file, n, TRUE) :
    /\ file' = r.f
    /\ pos' = IF r.ok /\ pos[h] > n THEN [pos EXCEPT ![h] = n] ELSE pos

\* FINDOUTPUT empties an existing file.
OpenNew(h) ==
  \E r \in Truncate(file, 0, TRUE) :
    /\ file' = r.f
    /\ pos' = [pos EXCEPT ![h] = 0]

Next ==
  \E h \in Handles :
    \/ \E n \in Bytes, v \in Values : Write(h, n, v)
    \/ \E n \in Bytes : Read(h, n)
    \/ \E p \in 0..MaxSize : Seek(h, p) \/ SetFileSize(h, p)
    \/ OpenNew(h)

Spec == Init /\ [][Next]_vars

-----------------------------------------------------------------------------
(* Properties *)

\* The types of the file and the positions; positions may lie behind the end.
TypeOK ==
  /\ file \in [size: 0..MaxSize, valid: 0..MaxSize, raw: [Bytes -> Values \cup {Stale}]]
  /\ pos \in [Handles -> 0..MaxSize]

\* What a client sees of the file.
Content == [i \in 1..file.size |-> IF i <= file.valid THEN file.raw[i] ELSE 0]

\* A byte that a deleted file left comes to be readable in one way only: a
\* handle writes behind valid_size within the file, and the byte lies between
\* the two.  No other write, hole, resize or failure uncovers one.
NoStale ==
  [][\A i \in 1..file'.valid :
       file'.raw[i] = Stale =>
         \/ i <= file.valid /\ file.raw[i] = Stale
         \/ i > file.valid /\ \E h \in Handles : pos[h] \in i..file.size]_vars

\* No byte a client can read was left by a deleted file (hosttest/README.md:
\* the ValidDataLength rule stops deleted data leaking into a file).  The write
\* that NoStale excepts breaks it.
NeverStale == \A i \in 1..file.valid : file.raw[i] # Stale

\* Every read delivers the content, however it lies to size and valid_size.
ReadExact ==
  \A o \in 0..MaxSize, n \in Bytes :
    Pread(file, o, n) =
      [i \in 1..Minimum(n, IF o >= file.size THEN 0 ELSE file.size - o) |-> Content[o + i]]

\* Writes, resizes and their failures change the content as a file's, of which
\* the part up to valid_size is sure.
Abstract == INSTANCE File WITH content <- Content, sure <- file.valid, Junk <- Stale
ImplementsFile == Abstract!Spec

=============================================================================
