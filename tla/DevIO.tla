-------------------------------- MODULE DevIO --------------------------------
(***************************************************************************)
(* The block device layer of amiga/dev_io.c: byte reads and writes of a    *)
(* partition on top of a device that transfers whole blocks, through one   *)
(* bounce buffer that is at the same time a cache of one block.            *)
(*                                                                         *)
(* A call is a record and each of its device transfers one step (a fetch   *)
(* and the write-back of the same block are one), so a card may be pulled  *)
(* between any two.  Another card is put in only between calls:            *)
(* sagasd.device waits for the handler before it lets a card be used, and  *)
(* until the device is opened again the handler reads nothing but its boot *)
(* sector (RightMedium of module Handler).                                 *)
(***************************************************************************)
EXTENDS Integers

CONSTANTS
  BlockSize,    \* dev->blocksize, bytes
  MediaSize,    \* bytes of the medium, whole blocks
  FirstByte,    \* dev->firstbyte: where the partition starts
  Size,         \* dev->size: bytes of the partition
  MaxTransfer,  \* dev->maxtransfer, bytes; 0: no limit
  BootSize,     \* sizeof(struct exfat_super_block)
  MaxValue,     \* a byte is in 0..MaxValue
  Cards,        \* the contents of the cards that may be inserted
  Masked,       \* the operations whose buffers may violate dev->mask
  IOErrors,     \* TRUE: a transfer may fail
  Removable     \* TRUE: cards are pulled and inserted

Values == 0..MaxValue
Bytes == 0..(MediaSize - 1)
InBlock == 0..(BlockSize - 1)
NoBlock == -1

ASSUME DevIOAssumption ==
  /\ BlockSize \in Nat \ {0} /\ MediaSize \in Nat /\ MaxTransfer \in Nat
  /\ MediaSize % BlockSize = 0
  /\ FirstByte \in Nat /\ Size \in Nat /\ BootSize \in 1..Size
  /\ FirstByte + Size <= MediaSize
  /\ MaxValue \in Nat
  /\ Cards \subseteq [Bytes -> Values]
  /\ Masked \subseteq {"read", "write"}
  /\ IOErrors \in BOOLEAN /\ Removable \in BOOLEAN

VARIABLES
  media,    \* the bytes of the card in the slot, or of the last one
  present,  \* a card is in the slot
  other,    \* it is not the one the device was opened on
  bounce,   \* dev->bounce
  lba,      \* dev->bounce_lba, a byte offset, or NoBlock
  pos,      \* dev->pos
  call      \* the call of partition_io() in progress

vars == <<media, present, other, bounce, lba, pos, call>>

\* start: first byte on the medium; done: bytes moved; data: the caller's
\* buffer; safe: it satisfies dev->mask; cursor: exfat_read/exfat_write.
Call == [op: {"read", "write"}, start: Bytes, size: 1..Size, done: 0..Size,
         data: UNION {[0..(n - 1) -> Values] : n \in 1..Size},
         safe: BOOLEAN, cursor: BOOLEAN]

NoCall == [op |-> "none"]

Init ==
  /\ media \in Cards
  /\ present = TRUE
  /\ other = FALSE
  /\ bounce = [i \in InBlock |-> 0]
  /\ lba = NoBlock
  /\ pos = 0
  /\ call = NoCall

-----------------------------------------------------------------------------
(* Transfers *)

Block(b) == [i \in InBlock |-> media[b + i]]

\* The medium after the bytes of data have been stored from byte b on.
Stored(b, data) ==
  [i \in Bytes |-> IF i - b \in DOMAIN data THEN data[i - b] ELSE media[i]]

\* raw_io() works on a card, and may fail; without a card it always fails.
Works == present
Fails == ~present \/ IOErrors

Busy == call.op # "none"
Abs == call.start + call.done
Left == call.size - call.done
HeadBytes == Abs % BlockSize

\* n more bytes are through; a read has put got into the caller's buffer.
Moved(n, got) ==
  call' = [call EXCEPT
             !.done = @ + n,
             !.data = IF call.op = "write" THEN @
                      ELSE [i \in DOMAIN @ |->
                              IF i - call.done \in 0..(n - 1)
                              THEN got[i - call.done] ELSE @[i]]]

\* The call returns -1.
Fail == call' = NoCall

\* fetch_block(): what it can leave in the bounce buffer.
Fetch(b) ==
  IF lba = b
  THEN {[ok |-> TRUE, bounce |-> bounce, lba |-> b]}
  ELSE {o \in {[ok |-> TRUE, bounce |-> Block(b), lba |-> b],
               [ok |-> FALSE, bounce |-> Block(b), lba |-> NoBlock],
               [ok |-> FALSE, bounce |-> bounce, lba |-> NoBlock]} :
          IF o.ok THEN Works ELSE Fails}

\* The bounce buffer with n bytes of the caller's buffer put in at h.
Patched(b, h, n) ==
  [i \in InBlock |-> IF i \in h..(h + n - 1) THEN call.data[call.done + i - h]
                     ELSE b[i]]

\* An unaligned head or tail: n bytes at offset h of a block.
Partial(h, n) ==
  \E f \in Fetch(Abs - h) :
    /\ bounce' = IF f.ok /\ call.op = "write" THEN Patched(f.bounce, h, n)
                 ELSE f.bounce
    /\ IF ~f.ok
       THEN Fail /\ lba' = f.lba /\ UNCHANGED media
       ELSE IF call.op = "read"
       THEN /\ Moved(n, [i \in 0..(n - 1) |-> f.bounce[h + i]])
            /\ lba' = f.lba
            /\ UNCHANGED media
       ELSE \/ /\ Works
               /\ media' = Stored(Abs - h, bounce')
               /\ lba' = f.lba
               /\ Moved(n, <<>>)
            \/ /\ Fails
               /\ media' \in {media, Stored(Abs - h, bounce')}
               /\ lba' = NoBlock
               /\ Fail

HeadStep ==
  /\ Busy /\ Left > 0 /\ HeadBytes # 0
  /\ Partial(HeadBytes, IF BlockSize - HeadBytes > Left THEN Left ELSE BlockSize - HeadBytes)
  /\ UNCHANGED <<present, other, pos>>

TailStep ==
  /\ Busy /\ Left > 0 /\ Left < BlockSize /\ HeadBytes = 0
  /\ Partial(0, Left)
  /\ UNCHANGED <<present, other, pos>>

\* Mutation: whole blocks are written without forgetting the cached one.
ChunkKept(c) ==
  /\ UNCHANGED <<bounce, lba>>
  /\ \/ /\ Works
        /\ media' = IF call.op = "write"
                    THEN Stored(Abs, [i \in 0..(c - 1) |-> call.data[call.done + i]])
                    ELSE media
        /\ Moved(c, [i \in 0..(c - 1) |-> media[Abs + i]])
     \/ Fails /\ Fail /\ UNCHANGED media

\* Mutation: whole blocks are read from the cache too.
ChunkCached(c) ==
  LET cached == call.op = "read" /\ lba = Abs IN
  /\ bounce' = bounce
  /\ lba' = IF call.op = "write" THEN NoBlock ELSE lba
  /\ \/ /\ Works \/ cached
        /\ media' = IF call.op = "write"
                    THEN Stored(Abs, [i \in 0..(c - 1) |-> call.data[call.done + i]])
                    ELSE media
        /\ Moved(c, [i \in 0..(c - 1) |->
                       IF cached /\ i < BlockSize THEN bounce[i] ELSE media[Abs + i]])
     \/ Fails /\ Fail /\ UNCHANGED media

\* aligned_io(): c bytes of whole blocks in one transfer, from or to the
\* caller's buffer.  A write that fails may have reached any of its blocks.
Chunk(c) ==
  LET out(n) == [i \in 0..(n - 1) |-> call.data[call.done + i]] IN
  /\ bounce' = bounce
  /\ lba' = IF call.op = "write" THEN NoBlock ELSE lba
  /\ \/ /\ Works
        /\ media' = IF call.op = "write" THEN Stored(Abs, out(c)) ELSE media
        /\ Moved(c, [i \in 0..(c - 1) |-> media[Abs + i]])
     \/ /\ Fails
        /\ media' \in IF call.op = "write"
                      THEN {Stored(Abs, out(n * BlockSize)) : n \in 0..(c \div BlockSize)}
                      ELSE {media}
        /\ Fail

\* aligned_io() for a buffer the driver cannot use: one block through the
\* bounce buffer, whose block number is left as it is by a read.
BouncedChunk ==
  LET out == [i \in InBlock |-> call.data[call.done + i]] IN
  /\ bounce' \in IF call.op = "write" THEN {out}
                 ELSE {Block(Abs)} \cup (IF Fails THEN {bounce} ELSE {})
  /\ lba' = IF call.op = "write" THEN NoBlock ELSE lba
  /\ \/ /\ Works /\ (call.op = "read" => bounce' = Block(Abs))
        /\ media' = IF call.op = "write" THEN Stored(Abs, out) ELSE media
        /\ Moved(BlockSize, bounce')
     \/ /\ Fails
        /\ media' \in IF call.op = "write" THEN {media, Stored(Abs, out)} ELSE {media}
        /\ Fail

\* de_MaxTransfer in whole blocks, at least one.
ChunkSize ==
  LET whole == Left - (Left % BlockSize)
      limit == MaxTransfer - (MaxTransfer % BlockSize)
  IN  IF MaxTransfer = 0 \/ whole <= MaxTransfer THEN whole
      ELSE IF limit = 0 THEN BlockSize ELSE limit

MiddleStep ==
  /\ Busy /\ Left >= BlockSize /\ HeadBytes = 0
  /\ IF call.safe THEN Chunk(ChunkSize) ELSE BouncedChunk
  /\ UNCHANGED <<present, other, pos>>

\* The call returns its size; exfat_read() and exfat_write() move the cursor.
Return ==
  /\ Busy /\ Left = 0
  /\ call' = NoCall
  /\ pos' = IF call.cursor THEN pos + call.size ELSE pos
  /\ UNCHANGED <<media, present, other, bounce, lba>>

-----------------------------------------------------------------------------
(* Calls *)

\* A written buffer is position dependent, so that a byte stored at the wrong
\* place is not taken for the right one; a read one starts as zeros.
Pattern(v, n) == [i \in 0..(n - 1) |-> (v + i) % (MaxValue + 1)]

Begin(op, offset, n, data, cursor) ==
  \E safe \in IF op \in Masked THEN BOOLEAN ELSE {TRUE} :
    call' = [op |-> op, start |-> FirstByte + offset, size |-> n, done |-> 0,
             data |-> data, safe |-> safe, cursor |-> cursor]

\* Mutation: the end of the partition is not checked.
InPartitionUnchecked(offset, n) == n > 0 /\ offset < Size /\ FirstByte + offset + n <= MediaSize

\* partition_io(): a call outside the partition returns at once.
InPartition(offset, n) == n > 0 /\ offset < Size /\ offset + n <= Size

\* exfat_pread() and exfat_pwrite().
Pread(offset, n) ==
  /\ ~Busy /\ InPartition(offset, n)
  /\ other => offset = 0 /\ n = BootSize
  /\ Begin("read", offset, n, Pattern(0, n), FALSE)
  /\ UNCHANGED <<media, present, other, bounce, lba, pos>>

Pwrite(offset, n, v) ==
  /\ ~Busy /\ ~other /\ InPartition(offset, n)
  /\ Begin("write", offset, n, Pattern(v, n), FALSE)
  /\ UNCHANGED <<media, present, other, bounce, lba, pos>>

\* exfat_read() and exfat_write(), at the cursor.
Read(n) ==
  /\ ~Busy /\ ~other /\ InPartition(pos, n)
  /\ Begin("read", pos, n, Pattern(0, n), TRUE)
  /\ UNCHANGED <<media, present, other, bounce, lba, pos>>

WriteAt(n, v) ==
  /\ ~Busy /\ ~other /\ InPartition(pos, n)
  /\ Begin("write", pos, n, Pattern(v, n), TRUE)
  /\ UNCHANGED <<media, present, other, bounce, lba, pos>>

\* exfat_seek() with SEEK_SET, SEEK_CUR or SEEK_END; before 0 it is refused.
Seek(base, d) ==
  /\ ~Busy
  /\ pos' = IF base + d < 0 THEN 0 ELSE base + d
  /\ UNCHANGED <<media, present, other, bounce, lba, call>>

\* exfat_close() and exfat_open() of the same partition.
Reopen ==
  /\ ~Busy
  /\ bounce' = [i \in InBlock |-> 0]
  /\ lba' = NoBlock
  /\ pos' = 0
  /\ other' = FALSE
  /\ UNCHANGED <<media, present, call>>

\* The slot (external).
Pull ==
  /\ Removable /\ present
  /\ present' = FALSE
  /\ UNCHANGED <<media, other, bounce, lba, pos, call>>

Insert ==
  /\ ~present /\ ~Busy
  /\ present' = TRUE
  /\ \/ UNCHANGED <<media, other>>
     \/ media' \in Cards /\ other' = TRUE
  /\ UNCHANGED <<bounce, lba, pos, call>>

Next ==
  \/ HeadStep \/ MiddleStep \/ TailStep \/ Return
  \/ \E offset \in 0..Size, n \in 1..Size :
       Pread(offset, n) \/ \E v \in Values : Pwrite(offset, n, v)
  \/ \E n \in 1..Size : Read(n) \/ \E v \in Values : WriteAt(n, v)
  \/ \E base \in {0, pos, Size}, d \in (-Size)..Size : base + d <= Size /\ Seek(base, d)
  \/ Reopen
  \/ Pull \/ Insert

Spec == Init /\ [][Next]_vars

-----------------------------------------------------------------------------
(* Properties *)

\* The types of the device structure, the card and the call in progress.
TypeOK ==
  /\ media \in [Bytes -> Values]
  /\ present \in BOOLEAN /\ other \in BOOLEAN
  /\ bounce \in [InBlock -> Values]
  /\ lba \in {NoBlock} \cup {b \in Bytes : b % BlockSize = 0}
  /\ pos \in 0..Size
  /\ call = NoCall \/ (call \in Call /\ DOMAIN call.data = 0..(call.size - 1))

\* The bounce buffer holds the block its number says, or the number says none
\* (comment on bounce_lba in struct exfat_dev), as long as the card is the same.
BounceHolds == lba # NoBlock /\ ~other => bounce = Block(lba)

\* Bytes a read has delivered are the bytes on the medium.
ReadExact ==
  Busy /\ call.op = "read" /\ ~other =>
    \A i \in 0..(call.done - 1) : call.data[i] = media[call.start + i]

\* Bytes a write has acknowledged are on the medium.
WriteExact ==
  Busy /\ call.op = "write" =>
    \A i \in 0..(call.done - 1) : media[call.start + i] = call.data[i]

\* What a transfer has done so far is exact: with the bounce buffer right, the
\* head, the middle and the tail of any range come from and go to its bytes,
\* whatever transfers have failed before.
TransfersExact == BounceHolds /\ ReadExact /\ WriteExact

\* A call changes no byte but those it was asked to write, also when the block
\* they share with others is written back or a transfer fails half way, and
\* none outside the partition.
WriteConfined ==
  [][\A i \in Bytes : media'[i] # media[i] =>
       \/ ~present
       \/ /\ Busy /\ call.op = "write"
          /\ i - call.start \in 0..(call.size - 1)
          /\ i - FirstByte \in 0..(Size - 1)
          /\ media'[i] = call.data[i - call.start]]_vars

\* A read of the boot sector answers for the card in the slot, which is what
\* same_volume() relies on after a card change.
BootReadHonest ==
  [][Busy /\ call.op = "read" /\ call.start = FirstByte /\ call.size = BootSize
       /\ call'.op = "read" /\ call'.done > call.done =>
         /\ present
         /\ \A i \in call.done..(call'.done - 1) :
              call'.data[i] = media[call.start + i]]_vars

=============================================================================
