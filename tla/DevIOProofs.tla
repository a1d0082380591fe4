----------------------------- MODULE DevIOProofs -----------------------------
(* Theorems about the device: about DevIO, for every block size, partition   *)
(* and transfer limit, and about Mkfs, for every format that the code can be  *)
(* asked for and every size of the device.                                    *)
EXTENDS DevIO, Mkfs, FiniteSetTheorems, SequenceTheorems, WellFoundedInduction, TLAPS

-----------------------------------------------------------------------------
(* Numbers *)

\* Multiples of the block size, without division.
Multiple(n) == \E q \in Nat : n = BlockSize * q

\* A block has at least one byte.
LEMMA BlockType == BlockSize \in Nat /\ BlockSize > 0
BY DevIOAssumption

\* A number and the block it is in.
LEMMA SplitNumber ==
  ASSUME NEW n \in Nat
  PROVE  /\ n % BlockSize \in 0..(BlockSize - 1) /\ n % BlockSize <= n
         /\ n - (n % BlockSize) \in Nat /\ Multiple(n - (n % BlockSize))
         /\ n % BlockSize = 0 => Multiple(n)
<1> DEFINE q == n \div BlockSize
           r == n % BlockSize
<1>1. q \in Nat /\ r \in 0..(BlockSize - 1) /\ n = BlockSize * q + r
  BY BlockType
<1> HIDE DEF q, r
<1>2. BlockSize * q \in Nat
  BY <1>1, BlockType
<1>3. n - r = BlockSize * q
  BY <1>1, <1>2, BlockType
<1> QED
  BY <1>1, <1>2, <1>3 DEF Multiple, r

\* A multiple of the block size leaves no remainder.
LEMMA MultipleMod ==
  ASSUME NEW n \in Nat, Multiple(n)
  PROVE  n % BlockSize = 0
<1>1. PICK q \in Nat : n = BlockSize * q
  BY DEF Multiple
<1> DEFINE d == n \div BlockSize
           r == n % BlockSize
<1>2. d \in Nat /\ r \in 0..(BlockSize - 1) /\ n = BlockSize * d + r
  BY BlockType
<1> HIDE DEF d, r
<1>3. CASE q > d
  <2>1. q >= d + 1
    BY <1>2, <1>3
  <2>2. BlockSize * q >= BlockSize * (d + 1)
    BY <1>2, <2>1, BlockType
  <2>3. BlockSize * (d + 1) = BlockSize * d + BlockSize
    BY <1>2, BlockType
  <2>4. BlockSize * d \in Nat /\ BlockSize * q \in Nat
    BY <1>2, BlockType
  <2> QED
    BY <1>1, <1>2, <2>2, <2>3, <2>4, BlockType
<1>4. CASE q <= d
  <2>1. BlockSize * q <= BlockSize * d
    BY <1>2, <1>4, BlockType
  <2>2. BlockSize * d \in Nat /\ BlockSize * q \in Nat
    BY <1>2, BlockType
  <2> QED
    BY <1>1, <1>2, <2>1, <2>2 DEF r
<1> QED
  BY <1>2, <1>3, <1>4

\* Blocks do not lie across the end of the medium, or of any whole blocks.
LEMMA BlockFits ==
  ASSUME NEW a \in Nat, NEW m \in Nat, Multiple(a), Multiple(m), a < m
  PROVE  a + BlockSize <= m
<1>1. PICK p \in Nat : a = BlockSize * p
  BY DEF Multiple
<1>2. PICK q \in Nat : m = BlockSize * q
  BY DEF Multiple
<1>3. p < q
  <2> SUFFICES ASSUME q <= p PROVE FALSE
    OBVIOUS
  <2>1. BlockSize * q <= BlockSize * p
    BY BlockType
  <2> QED
    BY <1>1, <1>2, <2>1
<1>4. BlockSize * (p + 1) <= BlockSize * q
  BY <1>3, BlockType
<1>5. BlockSize * (p + 1) = BlockSize * p + BlockSize
  BY BlockType
<1> QED
  BY <1>1, <1>2, <1>4, <1>5

\* Sums and differences of multiples.
LEMMA MultipleSum ==
  ASSUME NEW a \in Nat, NEW b \in Nat, Multiple(a), Multiple(b)
  PROVE  Multiple(a + b) /\ (b <= a => Multiple(a - b))
<1>1. PICK p \in Nat : a = BlockSize * p
  BY DEF Multiple
<1>2. PICK q \in Nat : b = BlockSize * q
  BY DEF Multiple
<1>3. a + b = BlockSize * (p + q) /\ p + q \in Nat
  BY <1>1, <1>2, BlockType
<1>4. ASSUME b <= a PROVE Multiple(a - b)
  <2>1. q <= p
    <3> SUFFICES ASSUME p < q PROVE FALSE
      OBVIOUS
    <3>1. BlockSize * (p + 1) <= BlockSize * q
      BY BlockType
    <3>2. BlockSize * (p + 1) = BlockSize * p + BlockSize
      BY BlockType
    <3> QED
      BY <1>1, <1>2, <1>4, <3>1, <3>2, BlockType
  <2>2. p - q \in Nat /\ a - b = BlockSize * (p - q)
    BY <1>1, <1>2, <2>1, BlockType
  <2> QED
    BY <2>2 DEF Multiple
<1> QED
  BY <1>3, <1>4 DEF Multiple

-----------------------------------------------------------------------------
(* The invariants *)

\* A call in progress is inside the partition.
CallOK(c) ==
  /\ c \in Call /\ c.data \in [0..(c.size - 1) -> Values]
  /\ FirstByte <= c.start /\ c.start + c.size <= FirstByte + Size /\ c.done <= c.size

\* A block of the medium.
BlockAt(b) == b \in Nat /\ Multiple(b) /\ b + BlockSize <= MediaSize

\* Types, and what the next step of a call relies on.
DevType ==
  /\ media \in [Bytes -> Values]
  /\ present \in BOOLEAN /\ other \in BOOLEAN
  /\ bounce \in [InBlock -> Values]
  /\ lba = NoBlock \/ BlockAt(lba)
  /\ pos \in 0..Size
  /\ call = NoCall \/ (CallOK(call) /\ (call.cursor => call.start = FirstByte + pos))

\* After a card change only the boot sector is read.
BootOnly ==
  Busy /\ other => call.op = "read" /\ call.start = FirstByte /\ call.size = BootSize

\* A call without a card change, from a buffer that the driver can read into.
DevInv == DevType /\ BootOnly /\ TransfersExact /\ (Busy /\ call.op = "read" => call.safe)

-----------------------------------------------------------------------------
(* Transfers *)

\* The numbers of a device and of a call in progress.
LEMMA DevNumbers ==
  /\ BlockSize \in Nat /\ BlockSize > 0 /\ MediaSize \in Nat /\ FirstByte \in Nat /\ Size \in Nat
  /\ MaxTransfer \in Nat /\ FirstByte + Size <= MediaSize /\ Multiple(MediaSize)
  /\ MaxValue \in Nat /\ 0 \in Values
<1>1. MediaSize \in Nat /\ MediaSize % BlockSize = 0
  BY DevIOAssumption
<1>2. Multiple(MediaSize)
  BY <1>1, SplitNumber
<1> QED
  BY <1>2, DevIOAssumption DEF Values

\* The fields of a call in progress.
LEMMA CallFields ==
  ASSUME NEW c, CallOK(c)
  PROVE  /\ c.op \in {"read", "write"} /\ c.op # "none" /\ c.start \in Nat /\ c.size \in Nat /\ c.done \in Nat
         /\ c.size \in 1..Size /\ c.safe \in BOOLEAN /\ c.cursor \in BOOLEAN
         /\ c.start + c.size <= MediaSize /\ c.done <= c.size
         /\ c.data \in [0..(c.size - 1) -> Values]
         /\ c # NoCall
<1>1. c \in Call
  BY DEF CallOK
<1>2. c.op \in {"read", "write"} /\ c.start \in Bytes /\ c.size \in 1..Size /\ c.done \in 0..Size
      /\ c.safe \in BOOLEAN /\ c.cursor \in BOOLEAN
  BY <1>1 DEF Call
<1>3. c # NoCall
  <2>1. NoCall.op = "none"
    BY DEF NoCall
  <2> QED
    BY <1>2, <2>1
<1> QED
  BY <1>2, <1>3, DevNumbers DEF CallOK, Bytes

\* A busy device has a call in progress.
LEMMA BusyCall ==
  ASSUME DevType, Busy
  PROVE  /\ CallOK(call) /\ (call.cursor => call.start = FirstByte + pos)
         /\ Abs = call.start + call.done /\ Abs \in Nat /\ Left = call.size - call.done /\ Left \in Nat
         /\ Abs + Left = call.start + call.size
         /\ HeadBytes \in 0..(BlockSize - 1) /\ HeadBytes <= Abs /\ (Left > 0 => BlockAt(Abs - HeadBytes))
<1>1. NoCall.op = "none"
  BY DEF NoCall
<1>2. CallOK(call) /\ (call.cursor => call.start = FirstByte + pos)
  BY <1>1 DEF DevType, Busy
<1>3. /\ Abs = call.start + call.done /\ Abs \in Nat /\ Left = call.size - call.done /\ Left \in Nat
      /\ Abs + Left = call.start + call.size /\ Abs + Left <= MediaSize
  BY <1>2, CallFields, DevNumbers DEF Abs, Left
<1>4. HeadBytes \in 0..(BlockSize - 1) /\ HeadBytes <= Abs /\ Abs - HeadBytes \in Nat /\ Multiple(Abs - HeadBytes)
  BY <1>3, SplitNumber DEF HeadBytes
<1>5. Left > 0 => Abs - HeadBytes < MediaSize
  BY <1>3, <1>4, DevNumbers
<1>6. Left > 0 => Abs - HeadBytes + BlockSize <= MediaSize
  BY <1>4, <1>5, BlockFits, DevNumbers
<1> QED
  BY <1>2, <1>3, <1>4, <1>6 DEF BlockAt

\* A block that is read consists of values.
LEMMA BlockValues ==
  ASSUME DevType, NEW b, BlockAt(b)
  PROVE  Block(b) \in [InBlock -> Values] /\ \A i \in InBlock : b + i \in Bytes
<1>1. \A i \in InBlock : b + i \in Bytes
  BY DevNumbers DEF BlockAt, InBlock, Bytes
<1> QED
  BY <1>1 DEF Block, DevType

\* fetch_block().
LEMMA FetchEffect ==
  ASSUME DevType, NEW b, BlockAt(b), NEW f \in Fetch(b)
  PROVE  /\ f.ok \in BOOLEAN /\ f.bounce \in [InBlock -> Values]
         /\ f.ok => f.lba = b
         /\ ~f.ok => f.lba = NoBlock
         /\ f.ok /\ BounceHolds /\ ~other => f.bounce = Block(b)
<1>1. Block(b) \in [InBlock -> Values] /\ bounce \in [InBlock -> Values] /\ b # NoBlock
  BY BlockValues DEF DevType, BlockAt, NoBlock
<1>2. CASE lba = b
  <2>1. f = [ok |-> TRUE, bounce |-> bounce, lba |-> b]
    BY <1>2 DEF Fetch
  <2> QED
    BY <1>1, <1>2, <2>1 DEF BounceHolds
<1>3. CASE lba # b
  <2>1. f \in {[ok |-> TRUE, bounce |-> Block(b), lba |-> b],
               [ok |-> FALSE, bounce |-> Block(b), lba |-> NoBlock],
               [ok |-> FALSE, bounce |-> bounce, lba |-> NoBlock]}
    BY <1>3 DEF Fetch
  <2>2. CASE f = [ok |-> TRUE, bounce |-> Block(b), lba |-> b]
    BY <1>1, <2>2
  <2>3. CASE f = [ok |-> FALSE, bounce |-> Block(b), lba |-> NoBlock]
    BY <1>1, <2>3
  <2>4. CASE f = [ok |-> FALSE, bounce |-> bounce, lba |-> NoBlock]
    BY <1>1, <2>4
  <2> QED
    BY <2>1, <2>2, <2>3, <2>4
<1> QED
  BY <1>2, <1>3

\* Bytes are stored on the medium.
LEMMA StoredEffect ==
  ASSUME DevType, NEW b \in Nat, NEW n \in Nat, b + n <= MediaSize, NEW d \in [0..(n - 1) -> Values]
  PROVE  /\ Stored(b, d) \in [Bytes -> Values]
         /\ \A i \in Bytes : Stored(b, d)[i] = IF i - b \in 0..(n - 1) THEN d[i - b] ELSE media[i]
BY DevNumbers DEF Stored, DevType, Bytes

\* n bytes of a call are through.
LEMMA MovedEffect ==
  ASSUME DevType, Busy, NEW n \in Nat, n > 0, n <= Left, NEW got, Moved(n, got),
         call.op = "read" => \A i \in 0..(n - 1) : got[i] \in Values
  PROVE  /\ CallOK(call')
         /\ call'.op = call.op /\ call'.start = call.start /\ call'.size = call.size
         /\ call'.safe = call.safe /\ call'.cursor = call.cursor /\ call'.done = call.done + n
         /\ call.op = "write" => call'.data = call.data
         /\ call.op = "read" => \A i \in 0..(call.size - 1) :
              call'.data[i] = IF i - call.done \in 0..(n - 1) THEN got[i - call.done]
                              ELSE call.data[i]
<1> DEFINE data == IF call.op = "write" THEN call.data
                   ELSE [i \in DOMAIN call.data |-> IF i - call.done \in 0..(n - 1)
                                                    THEN got[i - call.done] ELSE call.data[i]]
<1>1. CallOK(call) /\ Left = call.size - call.done /\ call \in Call
  BY BusyCall DEF CallOK
<1>2. /\ call.op \in {"read", "write"} /\ call.size \in 1..Size /\ call.done \in Nat
      /\ call.data \in [0..(call.size - 1) -> Values] /\ call.done <= call.size
  BY <1>1, CallFields
<1>3. data \in [0..(call.size - 1) -> Values]
  <2>1. CASE call.op = "write"
    BY <1>2, <2>1
  <2>2. CASE call.op = "read"
    BY <1>2, <2>2
  <2> QED
    BY <1>2, <2>1, <2>2
<1>4. call' = [call EXCEPT !.done = call.done + n, !.data = data]
  BY DEF Moved
<1>5. /\ call.op = "write" => data = call.data
      /\ call.op = "read" => \A i \in 0..(call.size - 1) :
           data[i] = IF i - call.done \in 0..(n - 1) THEN got[i - call.done] ELSE call.data[i]
  BY <1>2
<1> HIDE DEF data
<1>6. call.done + n \in 0..Size /\ call.done + n <= call.size
  BY <1>1, <1>2, DevNumbers
<1>7. data \in UNION {[0..(k - 1) -> Values] : k \in 1..Size}
  BY <1>2, <1>3
<1>8. call' \in Call
  BY <1>1, <1>4, <1>6, <1>7 DEF Call
<1>9. /\ call'.op = call.op /\ call'.start = call.start /\ call'.size = call.size
      /\ call'.safe = call.safe /\ call'.cursor = call.cursor /\ call'.done = call.done + n
      /\ call'.data = data
  BY <1>1, <1>4 DEF Call
<1> QED
  BY <1>1, <1>3, <1>5, <1>6, <1>8, <1>9 DEF CallOK

\* What one transfer leaves: typed state, and a call that is over or further on.
Advanced ==
  /\ media' \in [Bytes -> Values] /\ bounce' \in [InBlock -> Values]
  /\ lba' = NoBlock \/ BlockAt(lba')
  /\ \/ call' = NoCall
     \/ /\ CallOK(call') /\ call'.done > call.done
        /\ call'.op = call.op /\ call'.start = call.start /\ call'.size = call.size
        /\ call'.safe = call.safe /\ call'.cursor = call.cursor
  /\ call.op = "read" => media' = media

\* The bytes that a transfer of a call has moved are the right ones.
ExactStep ==
  /\ BounceHolds'
  /\ call.op = "read" /\ call' # NoCall => \A i \in 0..(call'.done - 1) :
       call'.data[i] = IF i < call.done THEN call.data[i] ELSE media[call.start + i]
  /\ call.op = "write" => \A i \in Bytes : media'[i] # media[i] =>
       i - call.start \in call.done..(call.size - 1) /\ media'[i] = call.data[i - call.start]
  /\ call.op = "write" /\ call' # NoCall =>
       /\ call'.data = call.data
       /\ \A i \in call.done..(call'.done - 1) : media'[call.start + i] = call.data[i]

\* A head or a tail that is read through the bounce buffer.
LEMMA PartialRead ==
  ASSUME DevType, Busy, other' = other, call.op = "read",
         NEW h \in Nat, NEW n \in Nat, n > 0, n <= Left, h + n <= BlockSize, h <= Abs,
         BlockAt(Abs - h), Partial(h, n)
  PROVE  Advanced /\ (BounceHolds /\ ~other => ExactStep)
<1> DEFINE b == Abs - h
<1>1. PICK f \in Fetch(b) :
        /\ bounce' = f.bounce
        /\ IF ~f.ok THEN call' = NoCall /\ lba' = f.lba /\ media' = media
           ELSE Moved(n, [i \in 0..(n - 1) |-> f.bounce[h + i]]) /\ lba' = f.lba /\ media' = media
  BY DEF Partial, Fail
<1>2. /\ BlockAt(b) /\ b \in Nat /\ b + h = Abs
      /\ Abs = call.start + call.done /\ CallOK(call) /\ Left = call.size - call.done
  BY BusyCall DEF BlockAt
<1> HIDE DEF b
<1>3. /\ f.ok \in BOOLEAN /\ f.bounce \in [InBlock -> Values]
      /\ f.ok => f.lba = b
      /\ ~f.ok => f.lba = NoBlock
      /\ f.ok /\ BounceHolds /\ ~other => f.bounce = Block(b)
  BY <1>2, FetchEffect
<1>4. media \in [Bytes -> Values]
  BY DEF DevType
<1>5. CASE ~f.ok
  BY <1>1, <1>3, <1>4, <1>5 DEF Advanced, ExactStep, BounceHolds
<1>6. CASE f.ok
  <2> DEFINE got == [i \in 0..(n - 1) |-> f.bounce[h + i]]
  <2>1. Moved(n, got) /\ lba' = b /\ media' = media /\ bounce' = f.bounce
    BY <1>1, <1>3, <1>6
  <2>2. \A i \in 0..(n - 1) : h + i \in InBlock /\ got[i] = f.bounce[h + i] /\ got[i] \in Values
    BY <1>3, DevNumbers DEF InBlock
  <2> HIDE DEF got
  <2>3. /\ CallOK(call')
        /\ call'.op = call.op /\ call'.start = call.start /\ call'.size = call.size
        /\ call'.safe = call.safe /\ call'.cursor = call.cursor /\ call'.done = call.done + n
        /\ \A i \in 0..(call.size - 1) :
             call'.data[i] = IF i - call.done \in 0..(n - 1) THEN got[i - call.done]
                             ELSE call.data[i]
    BY <2>1, <2>2, MovedEffect
  <2>4. call.done \in Nat /\ call.start \in Nat /\ call.size \in Nat
    BY <1>2, CallFields
  <2>5. Advanced
    BY <1>2, <1>3, <1>4, <2>1, <2>3, <2>4 DEF Advanced
  <2>6. ASSUME BounceHolds, ~other PROVE ExactStep
    <3>1. f.bounce = Block(b)
      BY <1>3, <1>6, <2>6
    <3>2. BounceHolds'
      BY <2>1, <3>1 DEF BounceHolds, Block
    <3>3. ASSUME NEW i \in 0..(call'.done - 1)
          PROVE call'.data[i] = IF i < call.done THEN call.data[i] ELSE media[call.start + i]
      <4>1. i \in 0..(call.size - 1) /\ i \in Nat
        BY <1>2, <2>3, <2>4
      <4>2. CASE i < call.done
        BY <2>3, <2>4, <4>1, <4>2
      <4>3. CASE i >= call.done
        <5> DEFINE k == i - call.done
        <5>1. k \in 0..(n - 1)
          BY <2>3, <2>4, <4>3
        <5>2. call'.data[i] = got[k]
          BY <2>3, <4>1, <5>1
        <5>3. got[k] = Block(b)[h + k] /\ h + k \in InBlock
          BY <2>2, <3>1, <5>1
        <5>4. Block(b)[h + k] = media[b + (h + k)]
          BY <5>3 DEF Block
        <5>5. b + (h + k) = call.start + i
          BY <1>2, <2>4, <4>1
        <5> QED
          BY <4>1, <4>3, <5>2, <5>3, <5>4, <5>5, <2>4
      <4> QED
        BY <2>4, <4>1, <4>2, <4>3
    <3> QED
      BY <3>2, <3>3 DEF ExactStep
  <2> QED
    BY <2>5, <2>6
<1> QED
  BY <1>3, <1>5, <1>6

\* d is what is on the medium from b on, with the hi bytes of data from done on
\* put in at lo.
Outgoing(b, n, d, lo, hi, data, start, done, size) ==
  /\ b + n <= MediaSize /\ lo + hi <= n /\ done + hi <= size /\ b + lo = start + done
  /\ \A i \in lo..(lo + hi - 1) : d[i] = data[done + (i - lo)]
  /\ \A i \in 0..(n - 1) : ~(i \in lo..(lo + hi - 1)) => d[i] = media[b + i]

\* The medium is m after that: it has the bytes of data, and no other byte changed.
StoredRight(m, b, n, d, hi, data, start, done, size) ==
  /\ m \in [Bytes -> Values]
  /\ \A i \in Bytes : m[i] # media[i] =>
       i - start \in done..(size - 1) /\ m[i] = data[i - start]
  /\ \A i \in done..(done + hi - 1) : m[start + i] = data[i]
  /\ \A i \in 0..(n - 1) : m[b + i] = d[i]

\* What a store of the bytes of a write, with what surrounds them, leaves.
LEMMA StoreExact ==
  ASSUME DevType, NEW start \in Nat, NEW size \in Nat, NEW done \in Nat, NEW data,
         NEW b \in Nat, NEW n \in Nat, NEW lo \in Nat, NEW hi \in Nat,
         NEW d \in [0..(n - 1) -> Values], Outgoing(b, n, d, lo, hi, data, start, done, size)
  PROVE  StoredRight(Stored(b, d), b, n, d, hi, data, start, done, size)
<1> DEFINE m == Stored(b, d)
<1>1. /\ MediaSize \in Nat
      /\ b + n <= MediaSize /\ lo + hi <= n /\ done + hi <= size /\ b + lo = start + done
  BY DevNumbers DEF Outgoing
<1>2. /\ m \in [Bytes -> Values]
      /\ \A i \in Bytes : m[i] = IF i - b \in 0..(n - 1) THEN d[i - b] ELSE media[i]
  BY <1>1, StoredEffect
<1> HIDE DEF m
<1>3. ASSUME NEW i \in Bytes, m[i] # media[i]
      PROVE  i - start \in done..(size - 1) /\ m[i] = data[i - start]
  <2> DEFINE k == i - b
  <2>1. i \in Nat
    BY DEF Bytes
  <2>2. k \in 0..(n - 1) /\ m[i] = d[k]
    BY <1>2, <1>3
  <2>3. b + k = i /\ k \in Nat
    BY <2>1, <2>2
  <2>4. k \in lo..(lo + hi - 1)
    BY <1>3, <2>2, <2>3 DEF Outgoing
  <2>5. d[k] = data[done + (k - lo)]
    BY <2>4 DEF Outgoing
  <2>6. done + (k - lo) = i - start /\ i - start \in done..(size - 1)
    BY <1>1, <2>1, <2>4
  <2> QED
    BY <2>2, <2>5, <2>6
<1>4. ASSUME NEW i \in done..(done + hi - 1)
      PROVE  m[start + i] = data[i]
  <2> DEFINE k == start + i - b
  <2>1. k \in lo..(lo + hi - 1) /\ k \in 0..(n - 1) /\ done + (k - lo) = i /\ (start + i) - b = k
    BY <1>1
  <2>2. start + i \in Bytes
    BY <1>1, <2>1 DEF Bytes
  <2>3. d[k] = data[done + (k - lo)]
    BY <2>1 DEF Outgoing
  <2> QED
    BY <1>2, <2>1, <2>2, <2>3
<1>5. ASSUME NEW i \in 0..(n - 1) PROVE m[b + i] = d[i]
  <2>1. b + i \in Bytes /\ (b + i) - b = i
    BY <1>1 DEF Bytes
  <2> QED
    BY <1>2, <2>1
<1> QED
  BY <1>2, <1>3, <1>4, <1>5 DEF m, StoredRight

\* A head or a tail that is written: the block is fetched, patched and stored.
LEMMA PartialWrite ==
  ASSUME DevType, Busy, other' = other, call.op = "write",
         NEW h \in Nat, NEW n \in Nat, n > 0, n <= Left, h + n <= BlockSize, h <= Abs,
         BlockAt(Abs - h), Partial(h, n)
  PROVE  Advanced /\ (BounceHolds /\ ~other => ExactStep)
<1> DEFINE b == Abs - h
<1>1. PICK f \in Fetch(b) :
        /\ bounce' = IF f.ok THEN Patched(f.bounce, h, n) ELSE f.bounce
        /\ ~f.ok => call' = NoCall /\ lba' = f.lba /\ media' = media
        /\ f.ok => \/ media' = Stored(b, bounce') /\ lba' = f.lba /\ Moved(n, <<>>)
                   \/ media' \in {media, Stored(b, bounce')} /\ lba' = NoBlock /\ call' = NoCall
  BY DEF Partial, Fail
<1>2. /\ BlockAt(b) /\ b \in Nat /\ b + h = Abs /\ b + BlockSize <= MediaSize
      /\ Abs = call.start + call.done /\ CallOK(call) /\ Left = call.size - call.done
  BY BusyCall DEF BlockAt
<1> HIDE DEF b
<1>3. /\ f.ok \in BOOLEAN /\ f.bounce \in [InBlock -> Values]
      /\ f.ok => f.lba = b
      /\ ~f.ok => f.lba = NoBlock
      /\ f.ok /\ BounceHolds /\ ~other => f.bounce = Block(b)
  BY <1>2, FetchEffect
<1>4. media \in [Bytes -> Values]
  BY DEF DevType
<1>5. CASE ~f.ok
  BY <1>1, <1>3, <1>4, <1>5 DEF Advanced, ExactStep, BounceHolds
<1>6. CASE f.ok
  <2>1. call.done \in Nat /\ call.start \in Nat /\ call.size \in Nat
        /\ call.data \in [0..(call.size - 1) -> Values]
    BY <1>2, CallFields
  <2>2. /\ \A i \in InBlock : bounce'[i] = IF i \in h..(h + n - 1)
                                          THEN call.data[call.done + i - h] ELSE f.bounce[i]
        /\ bounce' = [i \in InBlock |-> bounce'[i]]
    BY <1>1, <1>6 DEF Patched
  <2>3. \A i \in h..(h + n - 1) : call.done + i - h \in 0..(call.size - 1)
    <3>1. call.done + n <= call.size
      BY SMTT(30), <1>2, <2>1
    <3> QED
      BY <2>1, <3>1
  <2>4. bounce' \in [0..(BlockSize - 1) -> Values]
    BY <1>3, <2>1, <2>2, <2>3 DEF InBlock
  <2>5. Stored(b, bounce') \in [Bytes -> Values]
    BY <1>2, <2>4, StoredEffect, DevNumbers
  <2>6. ASSUME BounceHolds, ~other, media' = Stored(b, bounce')
        PROVE  /\ \A i \in Bytes : media'[i] # media[i] =>
                    i - call.start \in call.done..(call.size - 1) /\ media'[i] = call.data[i - call.start]
               /\ \A i \in call.done..(call.done + n - 1) : media'[call.start + i] = call.data[i]
               /\ \A i \in InBlock : media'[b + i] = bounce'[i]
    <3>1. f.bounce = Block(b)
      BY <1>3, <1>6, <2>6
    <3>2. \A i \in h..(h + n - 1) : bounce'[i] = call.data[call.done + (i - h)]
      <4> SUFFICES ASSUME NEW i \in h..(h + n - 1) PROVE bounce'[i] = call.data[call.done + (i - h)]
        OBVIOUS
      <4>1. i \in InBlock /\ call.done + i - h = call.done + (i - h)
        BY <2>1, DevNumbers DEF InBlock
      <4> QED
        BY <2>2, <4>1
    <3>3. \A i \in 0..(BlockSize - 1) : ~(i \in h..(h + n - 1)) => bounce'[i] = media[b + i]
      BY <2>2, <3>1 DEF InBlock, Block
    <3>4. /\ \A i \in Bytes : media'[i] # media[i] =>
               i - call.start \in call.done..(call.size - 1) /\ media'[i] = call.data[i - call.start]
          /\ \A i \in call.done..(call.done + n - 1) : media'[call.start + i] = call.data[i]
          /\ \A i \in 0..(BlockSize - 1) : media'[b + i] = bounce'[i]
      <4>1. call.done + n <= call.size /\ b + h = call.start + call.done
        BY <1>2, <2>1
      <4>2. Outgoing(b, BlockSize, bounce', h, n, call.data, call.start, call.done, call.size)
        BY <1>2, <3>2, <3>3, <4>1 DEF Outgoing
      <4>3. StoredRight(Stored(b, bounce'), b, BlockSize, bounce', n,
                        call.data, call.start, call.done, call.size)
        BY <1>2, <2>1, <2>4, <4>2, StoreExact, BlockType
      <4> QED
        BY <2>6, <4>3 DEF StoredRight
    <3> QED
      BY <3>4 DEF InBlock
  <2>7. CASE media' = Stored(b, bounce') /\ lba' = f.lba /\ Moved(n, <<>>)
    <3>1. /\ CallOK(call') /\ call'.data = call.data
          /\ call'.op = call.op /\ call'.start = call.start /\ call'.size = call.size
          /\ call'.safe = call.safe /\ call'.cursor = call.cursor /\ call'.done = call.done + n
      BY <2>7, MovedEffect
    <3>2. Advanced
      BY SMTT(30), <1>2, <1>3, <1>6, <2>1, <2>4, <2>5, <2>7, <3>1 DEF Advanced, InBlock
    <3>3. ASSUME BounceHolds, ~other PROVE ExactStep
      <4>1. \A i \in InBlock : media'[b + i] = bounce'[i]
        BY <2>6, <2>7, <3>3
      <4>2. BounceHolds'
        BY <1>3, <1>6, <2>2, <2>7, <4>1 DEF BounceHolds, Block
      <4>3. /\ \A i \in Bytes : media'[i] # media[i] =>
                 i - call.start \in call.done..(call.size - 1) /\ media'[i] = call.data[i - call.start]
            /\ \A i \in call.done..(call'.done - 1) : media'[call.start + i] = call.data[i]
        <5>1. call'.done - 1 = call.done + n - 1
          BY <2>1, <3>1
        <5> QED
          BY <2>6, <2>7, <3>3, <5>1
      <4>4. call.op # "read"
        OBVIOUS
      <4> QED
        BY <3>1, <4>2, <4>3, <4>4 DEF ExactStep
    <3> QED
      BY <3>2, <3>3
  <2>8. CASE media' \in {media, Stored(b, bounce')} /\ lba' = NoBlock /\ call' = NoCall
    <3>1. Advanced
      BY <1>4, <2>4, <2>5, <2>8 DEF Advanced, InBlock
    <3>2. BounceHolds'
      BY <2>8 DEF BounceHolds
    <3>3. ASSUME BounceHolds, ~other PROVE ExactStep
      BY <2>6, <2>8, <3>2, <3>3 DEF ExactStep
    <3> QED
      BY <3>1, <3>3
  <2> QED
    BY <1>1, <1>6, <2>7, <2>8
<1> QED
  BY <1>3, <1>5, <1>6

\* aligned_io() transfers at least one block, whole blocks and no more than is left.
LEMMA ChunkNumbers ==
  ASSUME DevType, Busy, Left >= BlockSize
  PROVE  /\ ChunkSize \in Nat /\ ChunkSize > 0 /\ ChunkSize <= Left /\ Multiple(ChunkSize)
         /\ Multiple(BlockSize)
<1> DEFINE whole == Left - (Left % BlockSize)
           limit == MaxTransfer - (MaxTransfer % BlockSize)
<1>1. Left \in Nat /\ MaxTransfer \in Nat /\ BlockSize \in Nat /\ BlockSize > 0
  BY BusyCall, DevNumbers
<1>2. whole \in Nat /\ Multiple(whole) /\ whole <= Left /\ whole > 0
  BY <1>1, SplitNumber
<1>3. limit \in Nat /\ Multiple(limit) /\ limit <= MaxTransfer
  <2>1. /\ MaxTransfer % BlockSize \in 0..(BlockSize - 1)
        /\ limit \in Nat /\ Multiple(limit)
    BY <1>1, SplitNumber
  <2> QED
    BY <1>1, <2>1
<1>4. Multiple(BlockSize)
  <2>1. BlockSize = BlockSize * 1
    BY <1>1
  <2> QED
    BY <2>1 DEF Multiple
<1>5. ChunkSize = IF MaxTransfer = 0 \/ whole <= MaxTransfer THEN whole
                  ELSE IF limit = 0 THEN BlockSize ELSE limit
  BY DEF ChunkSize
<1> HIDE DEF whole, limit
<1> QED
  BY <1>1, <1>2, <1>3, <1>4, <1>5

\* Whole blocks are read from the medium into the caller's buffer.
LEMMA WholeRead ==
  ASSUME DevType, Busy, call.op = "read", NEW n \in Nat, n > 0, n <= Left, NEW got,
         Moved(n, got), \A i \in 0..(n - 1) : got[i] = media[Abs + i]
  PROVE  /\ CallOK(call')
         /\ call'.op = call.op /\ call'.start = call.start /\ call'.size = call.size
         /\ call'.safe = call.safe /\ call'.cursor = call.cursor /\ call'.done = call.done + n
         /\ \A i \in 0..(call'.done - 1) :
              call'.data[i] = IF i < call.done THEN call.data[i] ELSE media[call.start + i]
<1>1. /\ call.start \in Nat /\ call.size \in Nat /\ call.done \in Nat
      /\ Abs = call.start + call.done /\ Left = call.size - call.done
      /\ call.start + call.size <= MediaSize
  BY BusyCall, CallFields
<1>2. Abs \in Nat /\ Abs + n <= MediaSize
  BY <1>1, DevNumbers
<1>3. \A i \in 0..(n - 1) : Abs + i \in Bytes
  BY <1>2, DevNumbers DEF Bytes
<1>4. \A i \in 0..(n - 1) : got[i] \in Values
  BY <1>3 DEF DevType
<1>5. /\ CallOK(call')
      /\ call'.op = call.op /\ call'.start = call.start /\ call'.size = call.size
      /\ call'.safe = call.safe /\ call'.cursor = call.cursor /\ call'.done = call.done + n
      /\ \A i \in 0..(call.size - 1) :
           call'.data[i] = IF i - call.done \in 0..(n - 1) THEN got[i - call.done]
                           ELSE call.data[i]
  BY <1>4, MovedEffect
<1>6. ASSUME NEW i \in 0..(call'.done - 1)
      PROVE  call'.data[i] = IF i < call.done THEN call.data[i] ELSE media[call.start + i]
  <2>1. i \in 0..(call.size - 1) /\ i \in Nat
    BY <1>1, <1>5
  <2>2. CASE i < call.done
    BY <1>1, <1>5, <2>1, <2>2
  <2>3. CASE i >= call.done
    <3> DEFINE k == i - call.done
    <3>1. k \in 0..(n - 1) /\ Abs + k = call.start + i
      BY <1>1, <1>5, <2>1, <2>3
    <3>2. call'.data[i] = got[k]
      BY <1>5, <2>1, <3>1
    <3> QED
      BY <1>1, <2>1, <2>3, <3>1, <3>2
  <2> QED
    BY <1>1, <2>1, <2>2, <2>3
<1> QED
  BY <1>5, <1>6

\* The next n bytes of the caller's buffer.
Out(n) == [i \in 0..(n - 1) |-> call.data[call.done + i]]

\* Whole blocks of the caller's buffer are written to the medium.
LEMMA WholeWrite ==
  ASSUME DevType, Busy, call.op = "write", NEW n \in Nat, n <= Left
  PROVE  StoredRight(Stored(Abs, Out(n)), Abs, n, Out(n), n,
                     call.data, call.start, call.done, call.size)
<1> DEFINE d == Out(n)
<1>1. /\ call.start \in Nat /\ call.size \in Nat /\ call.done \in Nat
      /\ Abs = call.start + call.done /\ Left = call.size - call.done
      /\ call.start + call.size <= MediaSize /\ call.data \in [0..(call.size - 1) -> Values]
  BY BusyCall, CallFields
<1>2. Abs \in Nat /\ Abs + n <= MediaSize /\ call.done + n <= call.size
  BY <1>1, DevNumbers
<1>3. \A i \in 0..(n - 1) : call.done + i \in 0..(call.size - 1) /\ call.done + (i - 0) = call.done + i
  BY SMTT(30), <1>1, <1>2
<1>4. d \in [0..(n - 1) -> Values]
  BY <1>1, <1>3 DEF Out
<1>5. Outgoing(Abs, n, d, 0, n, call.data, call.start, call.done, call.size)
  <2>1. \A i \in 0..(0 + n - 1) : d[i] = call.data[call.done + (i - 0)]
    BY <1>3 DEF Out
  <2>2. \A i \in 0..(n - 1) : i \in 0..(0 + n - 1)
    OBVIOUS
  <2>3. Abs + n <= MediaSize /\ 0 + n <= n /\ call.done + n <= call.size /\ Abs + 0 = call.start + call.done
    BY <1>1, <1>2
  <2> QED
    BY <2>1, <2>2, <2>3 DEF Outgoing
<1> QED
  BY <1>1, <1>2, <1>4, <1>5, StoreExact

\* Whole blocks that a read delivers come from the card in the slot.
HonestRead ==
  call.op = "read" /\ call' # NoCall =>
    /\ present
    /\ call'.done - call.done \in Nat /\ Multiple(call'.done - call.done)
    /\ \A i \in 0..(call'.done - 1) :
         call'.data[i] = IF i < call.done THEN call.data[i] ELSE media[call.start + i]

\* aligned_io() with a buffer the driver can use, reading.
LEMMA ChunkRead ==
  ASSUME DevType, Busy, call.op = "read", other' = other, NEW c \in Nat, c > 0, c <= Left,
         Multiple(c), Chunk(c)
  PROVE  Advanced /\ HonestRead /\ (BounceHolds => ExactStep)
<1> DEFINE got == [i \in 0..(c - 1) |-> media[Abs + i]]
<1>1. /\ bounce' = bounce /\ lba' = lba /\ media' = media
      /\ (present /\ Moved(c, got)) \/ call' = NoCall
  BY DEF Chunk, Works, Fail
<1>2. \A i \in 0..(c - 1) : got[i] = media[Abs + i]
  OBVIOUS
<1> HIDE DEF got
<1>3. /\ media \in [Bytes -> Values] /\ bounce \in [InBlock -> Values]
      /\ lba = NoBlock \/ BlockAt(lba)
  BY DEF DevType
<1>4. BounceHolds => BounceHolds'
  BY <1>1 DEF BounceHolds, Block
<1>5. CASE call' = NoCall
  BY <1>1, <1>3, <1>4, <1>5 DEF Advanced, HonestRead, ExactStep
<1>6. CASE present /\ Moved(c, got)
  <2>1. /\ CallOK(call')
        /\ call'.op = call.op /\ call'.start = call.start /\ call'.size = call.size
        /\ call'.safe = call.safe /\ call'.cursor = call.cursor /\ call'.done = call.done + c
        /\ \A i \in 0..(call'.done - 1) :
             call'.data[i] = IF i < call.done THEN call.data[i] ELSE media[call.start + i]
    BY <1>2, <1>6, WholeRead
  <2>2. call.done \in Nat
    BY BusyCall, CallFields
  <2>3. call'.done > call.done /\ call'.done - call.done = c
    BY <2>1, <2>2
  <2>4. Advanced
    BY <1>1, <1>3, <2>1, <2>3 DEF Advanced
  <2>5. HonestRead
    BY <1>6, <2>1, <2>3 DEF HonestRead
  <2>6. BounceHolds => ExactStep
    BY <1>4, <2>1 DEF ExactStep
  <2> QED
    BY <2>4, <2>5, <2>6
<1> QED
  BY <1>1, <1>5, <1>6

\* A write of whole blocks that is through, or that has stopped after some of them.
LEMMA WriteOut ==
  ASSUME DevType, Busy, call.op = "write", NEW n \in Nat, n <= Left,
         bounce' \in [InBlock -> Values], lba' = NoBlock, media' = Stored(Abs, Out(n)),
         call' = NoCall \/ (n > 0 /\ \E got : Moved(n, got))
  PROVE  Advanced /\ ExactStep
<1>1. StoredRight(media', Abs, n, Out(n), n, call.data, call.start, call.done, call.size)
  BY WholeWrite
<1>2. /\ media' \in [Bytes -> Values]
      /\ \A i \in Bytes : media'[i] # media[i] =>
           i - call.start \in call.done..(call.size - 1) /\ media'[i] = call.data[i - call.start]
      /\ \A i \in call.done..(call.done + n - 1) : media'[call.start + i] = call.data[i]
  BY <1>1 DEF StoredRight
<1>3. BounceHolds' /\ call.op # "read"
  BY DEF BounceHolds
<1>4. CASE call' = NoCall
  BY <1>2, <1>3, <1>4 DEF Advanced, ExactStep
<1>5. CASE n > 0 /\ \E got : Moved(n, got)
  <2>1. PICK got : Moved(n, got)
    BY <1>5
  <2>2. /\ CallOK(call') /\ call'.data = call.data
        /\ call'.op = call.op /\ call'.start = call.start /\ call'.size = call.size
        /\ call'.safe = call.safe /\ call'.cursor = call.cursor /\ call'.done = call.done + n
    BY <1>3, <1>5, <2>1, MovedEffect
  <2>3. call.done \in Nat
    BY BusyCall, CallFields
  <2>4. call'.done > call.done /\ call'.done - 1 = call.done + n - 1
    BY <1>5, <2>2, <2>3
  <2>5. Advanced
    BY <1>2, <1>3, <2>2, <2>4 DEF Advanced
  <2>6. ExactStep
    BY <1>2, <1>3, <2>2, <2>4 DEF ExactStep
  <2> QED
    BY <2>5, <2>6
<1> QED
  BY <1>4, <1>5

\* aligned_io() with a buffer the driver can use, writing.
LEMMA ChunkWrite ==
  ASSUME DevType, Busy, call.op = "write", other' = other, NEW c \in Nat, c > 0, c <= Left, Chunk(c)
  PROVE  Advanced /\ ExactStep
<1>1. /\ bounce' = bounce /\ lba' = NoBlock
      /\ \/ media' = Stored(Abs, Out(c)) /\ \E got : Moved(c, got)
         \/ /\ \E n \in 0..(c \div BlockSize) : media' = Stored(Abs, Out(n * BlockSize))
            /\ call' = NoCall
  BY DEF Chunk, Fail, Out
<1>2. bounce' \in [InBlock -> Values]
  BY <1>1 DEF DevType
<1>3. CASE media' = Stored(Abs, Out(c)) /\ \E got : Moved(c, got)
  BY <1>1, <1>2, <1>3, WriteOut
<1>4. ASSUME NEW n \in 0..(c \div BlockSize), media' = Stored(Abs, Out(n * BlockSize)), call' = NoCall
      PROVE  Advanced /\ ExactStep
  <2> DEFINE q == c \div BlockSize
             r == c % BlockSize
  <2>1. q \in Nat /\ r \in 0..(BlockSize - 1) /\ c = BlockSize * q + r
    BY BlockType
  <2>2. n \in Nat /\ n <= q
    BY <2>1
  <2> HIDE DEF q, r
  <2>3. BlockSize * n \in Nat /\ BlockSize * q \in Nat /\ BlockSize * n <= BlockSize * q
        /\ n * BlockSize = BlockSize * n
    BY <2>1, <2>2, BlockType
  <2>4. Left \in Nat
    BY BusyCall
  <2>5. n * BlockSize \in Nat /\ n * BlockSize <= Left
    BY <2>1, <2>3, <2>4, BlockType
  <2> QED
    BY <1>1, <1>2, <1>4, <2>5, WriteOut
<1> QED
  BY <1>1, <1>3, <1>4

\* aligned_io() with a buffer the driver cannot use, reading: the bytes are
\* right, whatever is in the bounce buffer afterwards.
LEMMA BouncedRead ==
  ASSUME DevType, Busy, call.op = "read", Left >= BlockSize, HeadBytes = 0, BouncedChunk
  PROVE  Advanced /\ HonestRead
<1>1. /\ bounce' \in {Block(Abs), bounce} /\ lba' = lba /\ media' = media
      /\ \/ present /\ bounce' = Block(Abs) /\ Moved(BlockSize, bounce')
         \/ call' = NoCall
  BY DEF BouncedChunk, Works, Fail
<1>2. BlockAt(Abs) /\ Abs \in Nat /\ Left \in Nat /\ BlockSize \in Nat /\ BlockSize > 0
  <2>1. Abs \in Nat /\ Left \in Nat /\ BlockSize \in Nat /\ BlockSize > 0
    BY BusyCall, BlockType
  <2>2. Abs - HeadBytes = Abs
    BY <2>1
  <2>3. BlockAt(Abs - HeadBytes)
    BY <2>1, BusyCall
  <2> QED
    BY <2>1, <2>2, <2>3
<1>3. /\ media \in [Bytes -> Values] /\ bounce' \in [InBlock -> Values]
      /\ lba = NoBlock \/ BlockAt(lba)
  BY <1>1, <1>2, BlockValues DEF DevType
<1>4. CASE call' = NoCall
  BY <1>1, <1>3, <1>4 DEF Advanced, HonestRead
<1>5. CASE present /\ bounce' = Block(Abs) /\ Moved(BlockSize, bounce')
  <2>1. \A i \in 0..(BlockSize - 1) : bounce'[i] = media[Abs + i]
    BY <1>5 DEF Block, InBlock
  <2>2. /\ CallOK(call')
        /\ call'.op = call.op /\ call'.start = call.start /\ call'.size = call.size
        /\ call'.safe = call.safe /\ call'.cursor = call.cursor
        /\ call'.done = call.done + BlockSize
        /\ \A i \in 0..(call'.done - 1) :
             call'.data[i] = IF i < call.done THEN call.data[i] ELSE media[call.start + i]
    BY <1>2, <1>5, <2>1, WholeRead
  <2>3. call.done \in Nat
    BY BusyCall, CallFields
  <2>4. call'.done > call.done /\ call'.done - call.done = BlockSize
    BY <1>2, <2>2, <2>3
  <2>5. Advanced
    BY <1>1, <1>3, <2>2, <2>4 DEF Advanced
  <2>6. HonestRead
    BY <1>2, <1>5, <2>2, <2>4, ChunkNumbers DEF HonestRead
  <2> QED
    BY <2>5, <2>6
<1> QED
  BY <1>1, <1>4, <1>5

\* The same, writing.
LEMMA BouncedWrite ==
  ASSUME DevType, Busy, call.op = "write", Left >= BlockSize, BouncedChunk
  PROVE  Advanced /\ ExactStep
<1>1. /\ bounce' = Out(BlockSize) /\ lba' = NoBlock
      /\ \/ media' = Stored(Abs, Out(BlockSize)) /\ \E got : Moved(BlockSize, got)
         \/ media' \in {media, Stored(Abs, Out(BlockSize))} /\ call' = NoCall
  BY DEF BouncedChunk, Fail, Out, InBlock
<1>2. /\ call.done \in Nat /\ call.size \in Nat /\ call.data \in [0..(call.size - 1) -> Values]
      /\ Left = call.size - call.done /\ BlockSize \in Nat /\ BlockSize > 0
  BY BusyCall, CallFields, BlockType
<1>3. \A i \in 0..(BlockSize - 1) : call.done + i \in 0..(call.size - 1)
  BY <1>2
<1>4. bounce' \in [InBlock -> Values]
  BY <1>1, <1>2, <1>3 DEF InBlock, Out
<1>5. CASE media' = Stored(Abs, Out(BlockSize))
  BY <1>1, <1>2, <1>4, <1>5, WriteOut
<1>6. CASE media' = media /\ call' = NoCall
  <2>1. BounceHolds' /\ media' \in [Bytes -> Values] /\ call.op # "read"
    BY <1>1, <1>6 DEF BounceHolds, DevType
  <2> QED
    BY <1>1, <1>4, <1>6, <2>1 DEF Advanced, ExactStep
<1> QED
  BY <1>1, <1>5, <1>6

\* One transfer of whole blocks.
LEMMA MiddleEffect ==
  ASSUME DevType, MiddleStep
  PROVE  /\ Advanced /\ HonestRead
         /\ (call.op = "read" => call.safe) /\ BounceHolds => ExactStep
<1>1. /\ Busy /\ Left >= BlockSize /\ HeadBytes = 0 /\ other' = other
      /\ IF call.safe THEN Chunk(ChunkSize) ELSE BouncedChunk
  BY DEF MiddleStep
<1>2. call.op \in {"read", "write"}
  BY <1>1, BusyCall, CallFields
<1>3. ChunkSize \in Nat /\ ChunkSize > 0 /\ ChunkSize <= Left /\ Multiple(ChunkSize)
  BY <1>1, ChunkNumbers
<1>4. CASE call.op = "read"
  <2>1. CASE call.safe
    BY <1>1, <1>3, <1>4, <2>1, ChunkRead
  <2>2. CASE ~call.safe
    BY <1>1, <1>4, <2>2, BouncedRead
  <2> QED
    BY <2>1, <2>2
<1>5. CASE call.op = "write"
  <2>1. HonestRead
    BY <1>5 DEF HonestRead
  <2>2. CASE call.safe
    BY <1>1, <1>3, <1>5, <2>1, <2>2, ChunkWrite
  <2>3. CASE ~call.safe
    BY <1>1, <1>5, <2>1, <2>3, BouncedWrite
  <2> QED
    BY <2>2, <2>3
<1> QED
  BY <1>2, <1>4, <1>5

\* A transfer of the head or the tail of a call through the bounce buffer.
LEMMA EdgeEffect ==
  ASSUME DevType, HeadStep \/ TailStep
  PROVE  /\ Advanced /\ (BounceHolds /\ ~other => ExactStep)
         /\ HeadBytes # 0 \/ Left < BlockSize
<1> DEFINE h == IF HeadBytes # 0 THEN HeadBytes ELSE 0
           n == IF HeadBytes # 0 /\ BlockSize - HeadBytes <= Left THEN BlockSize - HeadBytes ELSE Left
<1>1. Busy /\ Left > 0 /\ other' = other /\ (HeadBytes # 0 \/ Left < BlockSize)
  BY DEF HeadStep, TailStep
<1>2. /\ Left \in Nat /\ Abs \in Nat /\ HeadBytes \in 0..(BlockSize - 1) /\ HeadBytes <= Abs
      /\ BlockAt(Abs - HeadBytes) /\ BlockSize \in Nat
  BY <1>1, BusyCall, BlockType
<1>3. Partial(h, n)
  <2>1. CASE HeadStep
    <3>1. HeadBytes # 0 /\ Partial(HeadBytes, IF BlockSize - HeadBytes > Left THEN Left ELSE BlockSize - HeadBytes)
      BY <2>1 DEF HeadStep
    <3>2. (IF BlockSize - HeadBytes > Left THEN Left ELSE BlockSize - HeadBytes) = n
      BY <1>2, <3>1
    <3> QED
      BY <3>1, <3>2
  <2>2. CASE TailStep
    <3>1. HeadBytes = 0 /\ Partial(0, Left)
      BY <2>2 DEF TailStep
    <3> QED
      BY <3>1
  <2> QED
    BY <2>1, <2>2
<1>4. h = HeadBytes /\ h \in Nat /\ n \in Nat /\ n > 0 /\ n <= Left /\ h + n <= BlockSize
  BY <1>1, <1>2
<1> HIDE DEF h, n
<1>5. BlockAt(Abs - h) /\ h <= Abs
  BY <1>2, <1>4
<1>6. call.op \in {"read", "write"}
  BY <1>1, BusyCall, CallFields
<1>7. CASE call.op = "read"
  BY <1>1, <1>3, <1>4, <1>5, <1>7, PartialRead
<1>8. CASE call.op = "write"
  BY <1>1, <1>3, <1>4, <1>5, <1>8, PartialWrite
<1> QED
  BY <1>1, <1>6, <1>7, <1>8

-----------------------------------------------------------------------------
(* The invariants hold *)

\* A call begins.
LEMMA BeginEffect ==
  ASSUME NEW op \in {"read", "write"}, NEW offset \in Nat, NEW n \in 1..Size, NEW v \in Nat,
         NEW cursor \in BOOLEAN, InPartition(offset, n), Begin(op, offset, n, Pattern(v, n), cursor)
  PROVE  /\ CallOK(call') /\ call'.op = op /\ call'.start = FirstByte + offset
         /\ call'.size = n /\ call'.done = 0 /\ (call'.cursor <=> cursor)
         /\ op \notin Masked => call'.safe
<1>1. PICK safe \in IF op \in Masked THEN BOOLEAN ELSE {TRUE} :
        call' = [op |-> op, start |-> FirstByte + offset, size |-> n, done |-> 0,
                 data |-> Pattern(v, n), safe |-> safe, cursor |-> cursor]
  BY DEF Begin
<1>2. safe \in BOOLEAN /\ (op \notin Masked => safe = TRUE)
  BY <1>1
<1>3. /\ call'.op = op /\ call'.start = FirstByte + offset /\ call'.size = n /\ call'.done = 0
      /\ call'.data = Pattern(v, n) /\ (call'.safe <=> safe) /\ (call'.cursor <=> cursor)
  BY <1>1
<1>4. Pattern(v, n) \in [0..(n - 1) -> Values]
  <2>1. \A i \in 0..(n - 1) : (v + i) % (MaxValue + 1) \in Values
    BY DevNumbers DEF Values
  <2> QED
    BY <2>1 DEF Pattern
<1>5. offset < Size /\ offset + n <= Size
  BY DEF InPartition
<1>6. /\ FirstByte + offset \in Bytes /\ FirstByte <= FirstByte + offset /\ 0 \in 0..Size
      /\ FirstByte + offset + n <= FirstByte + Size /\ n \in Nat /\ 0 <= n
  BY <1>5, DevNumbers DEF Bytes
<1>7. Pattern(v, n) \in UNION {[0..(k - 1) -> Values] : k \in 1..Size}
  BY <1>4
<1>8. call' \in Call
  BY <1>1, <1>2, <1>6, <1>7 DEF Call
<1> QED
  BY <1>2, <1>3, <1>4, <1>6, <1>8 DEF CallOK

\* The types after a transfer.
LEMMA AdvancedTypes ==
  ASSUME DevType, Busy, Advanced, UNCHANGED <<present, other, pos>>
  PROVE  DevType'
<1>1. call.cursor \in BOOLEAN /\ (call.cursor => call.start = FirstByte + pos)
  BY BusyCall, CallFields
<1>2. CASE call' = NoCall
  BY <1>2 DEF DevType, Advanced, CallOK, BlockAt, Multiple
<1>3. CASE CallOK(call') /\ call'.start = call.start /\ call'.cursor = call.cursor
  BY <1>1, <1>3 DEF DevType, Advanced, CallOK, BlockAt, Multiple
<1> QED
  BY <1>2, <1>3 DEF Advanced

\* The steps that begin a call.
Begins ==
  \/ \E offset \in 0..Size, n \in 1..Size :
       Pread(offset, n) \/ \E v \in Values : Pwrite(offset, n, v)
  \/ \E n \in 1..Size : Read(n) \/ \E v \in Values : WriteAt(n, v)

\* A call that has begun is in the partition, and has moved nothing.
Begun ==
  /\ ~Busy /\ UNCHANGED <<media, present, other, bounce, lba, pos>>
  /\ CallOK(call') /\ call'.done = 0
  /\ call'.cursor => call'.start = FirstByte + pos
  /\ other => call'.op = "read" /\ call'.start = FirstByte /\ call'.size = BootSize
  /\ call'.op = "read" /\ "read" \notin Masked => call'.safe

\* The calls that begin at a given byte.
LEMMA BegunAt ==
  ASSUME DevType, Begins
  PROVE  Begun
<1>0. Size \in Nat /\ FirstByte \in Nat /\ pos \in Nat /\ 0 \in Nat
  BY DevNumbers DEF DevType
<1>1. ASSUME NEW offset \in 0..Size, NEW n \in 1..Size, Pread(offset, n) PROVE Begun
  <2>1. /\ ~Busy /\ InPartition(offset, n) /\ (other => offset = 0 /\ n = BootSize)
        /\ Begin("read", offset, n, Pattern(0, n), FALSE)
        /\ UNCHANGED <<media, present, other, bounce, lba, pos>>
    BY <1>1 DEF Pread
  <2>2. offset \in Nat /\ "read" \in {"read", "write"} /\ FALSE \in BOOLEAN
    BY <1>0
  <2>3. /\ CallOK(call') /\ call'.op = "read" /\ call'.start = FirstByte + offset
        /\ call'.size = n /\ call'.done = 0 /\ (call'.cursor <=> FALSE)
        /\ "read" \notin Masked => call'.safe
    BY <1>0, <2>1, <2>2, BeginEffect, Zenon
  <2> QED
    BY <1>0, <2>1, <2>3 DEF Begun
<1>2. ASSUME NEW offset \in 0..Size, NEW n \in 1..Size, NEW v \in Values, Pwrite(offset, n, v)
      PROVE  Begun
  <2>1. /\ ~Busy /\ InPartition(offset, n) /\ ~other
        /\ Begin("write", offset, n, Pattern(v, n), FALSE)
        /\ UNCHANGED <<media, present, other, bounce, lba, pos>>
    BY <1>2 DEF Pwrite
  <2>2. offset \in Nat /\ "write" \in {"read", "write"} /\ FALSE \in BOOLEAN /\ v \in Nat
    BY <1>0, DevNumbers DEF Values
  <2>3. /\ CallOK(call') /\ call'.op = "write" /\ call'.start = FirstByte + offset
        /\ call'.size = n /\ call'.done = 0 /\ (call'.cursor <=> FALSE)
    BY <2>1, <2>2, BeginEffect, Zenon
  <2> QED
    BY <1>0, <2>1, <2>3 DEF Begun
<1>3. ASSUME NEW n \in 1..Size, Read(n) PROVE Begun
  <2>1. /\ ~Busy /\ InPartition(pos, n) /\ ~other
        /\ Begin("read", pos, n, Pattern(0, n), TRUE)
        /\ UNCHANGED <<media, present, other, bounce, lba, pos>>
    BY <1>3 DEF Read
  <2>2. "read" \in {"read", "write"} /\ TRUE \in BOOLEAN
    OBVIOUS
  <2>3. /\ CallOK(call') /\ call'.op = "read" /\ call'.start = FirstByte + pos
        /\ call'.size = n /\ call'.done = 0
        /\ "read" \notin Masked => call'.safe
    BY <1>0, <2>1, <2>2, BeginEffect, Zenon
  <2> QED
    BY <1>0, <2>1, <2>3 DEF Begun
<1>4. ASSUME NEW n \in 1..Size, NEW v \in Values, WriteAt(n, v) PROVE Begun
  <2>1. /\ ~Busy /\ InPartition(pos, n) /\ ~other
        /\ Begin("write", pos, n, Pattern(v, n), TRUE)
        /\ UNCHANGED <<media, present, other, bounce, lba, pos>>
    BY <1>4 DEF WriteAt
  <2>2. "write" \in {"read", "write"} /\ TRUE \in BOOLEAN /\ v \in Nat
    BY DevNumbers DEF Values
  <2>3. /\ CallOK(call') /\ call'.op = "write" /\ call'.start = FirstByte + pos
        /\ call'.size = n /\ call'.done = 0
    BY <1>0, <2>1, <2>2, BeginEffect, Zenon
  <2> QED
    BY <1>0, <2>1, <2>3 DEF Begun
<1> QED
  BY <1>1, <1>2, <1>3, <1>4 DEF Begins

\* The types are kept by every step.
LEMMA DevTypeStep ==
  ASSUME DevType, [Next]_vars
  PROVE  DevType'
<1>0. Size \in Nat /\ FirstByte \in Nat /\ pos \in 0..Size /\ 0 \in Values
  BY DevNumbers DEF DevType
<1>1. CASE HeadStep \/ TailStep
  BY <1>1, EdgeEffect, AdvancedTypes DEF HeadStep, TailStep
<1>2. CASE MiddleStep
  BY <1>2, MiddleEffect, AdvancedTypes DEF MiddleStep
<1>3. CASE Return
  <2>1. /\ Busy /\ call' = NoCall /\ UNCHANGED <<media, present, other, bounce, lba>>
        /\ pos' = IF call.cursor THEN pos + call.size ELSE pos
    BY <1>3 DEF Return
  <2>2. /\ call.cursor \in BOOLEAN /\ (call.cursor => call.start = FirstByte + pos)
        /\ call.size \in Nat /\ call.start + call.size <= FirstByte + Size
    BY <2>1, BusyCall, CallFields DEF CallOK
  <2>3. pos' \in 0..Size
    <3>1. CASE call.cursor
      BY <1>0, <2>1, <2>2, <3>1
    <3>2. CASE ~call.cursor
      BY <1>0, <2>1, <3>2
    <3> QED
      BY <3>1, <3>2
  <2> QED
    BY <2>1, <2>3 DEF DevType, BlockAt, Multiple
<1>4. CASE Begins
  BY <1>4, BegunAt DEF Begun, DevType, BlockAt, Multiple, CallOK
<1>5. ASSUME NEW base \in {0, pos, Size}, NEW d \in (-Size)..Size, base + d <= Size, Seek(base, d)
      PROVE  DevType'
  <2>1. /\ ~Busy /\ UNCHANGED <<media, present, other, bounce, lba, call>>
        /\ pos' = IF base + d < 0 THEN 0 ELSE base + d
    BY <1>5 DEF Seek
  <2>2. base \in Int /\ d \in Int
    BY <1>0
  <2>3. pos' \in 0..Size
    BY <1>0, <1>5, <2>1, <2>2
  <2>4. call = NoCall
    BY <2>1, CallFields DEF DevType, Busy
  <2> QED
    BY <2>1, <2>3, <2>4 DEF DevType, BlockAt, Multiple
<1>6. CASE Reopen
  <2>1. /\ ~Busy /\ bounce' = [i \in InBlock |-> 0] /\ lba' = NoBlock /\ pos' = 0 /\ other' = FALSE
        /\ UNCHANGED <<media, present, call>>
    BY <1>6 DEF Reopen
  <2>2. call = NoCall
    BY <2>1, CallFields DEF DevType, Busy
  <2>3. bounce' \in [InBlock -> Values]
    BY <1>0, <2>1
  <2>4. pos' \in 0..Size
    BY <1>0, <2>1
  <2>5. other' \in BOOLEAN
    BY <2>1
  <2>6. media' \in [Bytes -> Values] /\ present' \in BOOLEAN
    BY <2>1 DEF DevType
  <2>7. lba' = NoBlock /\ call' = NoCall
    BY <2>1, <2>2
  <2> QED
    BY <2>3, <2>4, <2>5, <2>6, <2>7 DEF DevType
<1>7. CASE Pull
  BY <1>7 DEF Pull, DevType, BlockAt, Multiple, CallOK
<1>8. CASE Insert
  <2>1. /\ ~Busy /\ present' = TRUE /\ UNCHANGED <<bounce, lba, pos, call>>
        /\ (media' = media /\ other' = other) \/ (media' \in Cards /\ other' = TRUE)
    BY <1>8 DEF Insert
  <2>2. media' \in [Bytes -> Values] /\ other' \in BOOLEAN
    BY <2>1, DevIOAssumption DEF DevType
  <2> QED
    BY <2>1, <2>2 DEF DevType, BlockAt, Multiple, CallOK
<1>9. CASE UNCHANGED vars
  BY <1>9 DEF vars, DevType, BlockAt, Multiple, CallOK
<1> QED
  BY <1>1, <1>2, <1>3, <1>4, <1>5, <1>6, <1>7, <1>8, <1>9 DEF Next, Begins

\* The invariant after a transfer of a call.
LEMMA ExactAfter ==
  ASSUME DevInv, DevType', Busy, Advanced, BounceHolds /\ ~other => ExactStep,
         UNCHANGED <<present, other, pos>>
  PROVE  DevInv'
<1>1. /\ DevType /\ BootOnly /\ BounceHolds /\ ReadExact /\ WriteExact
      /\ (call.op = "read" => call.safe)
  BY DEF DevInv, TransfersExact
<1>2. /\ call.start \in Nat /\ call.size \in Nat /\ call.done \in Nat
      /\ call.op \in {"read", "write"}
      /\ call.start + call.size <= MediaSize /\ call.done <= call.size
  BY <1>1, BusyCall, CallFields
<1>3. Busy' => /\ call' # NoCall /\ CallOK(call') /\ call'.op = call.op /\ call'.start = call.start
               /\ call'.size = call.size /\ call'.safe = call.safe
               /\ call'.done \in Nat /\ call'.done <= call.size
  <2>1. NoCall.op = "none"
    BY DEF NoCall
  <2> QED
    BY <2>1, CallFields DEF Busy, Advanced
<1>4. BootOnly' /\ (Busy /\ call.op = "read" => call.safe)'
  BY <1>1, <1>3 DEF BootOnly, Busy
<1>5. CASE other
  <2>1. call.op = "read" /\ other'
    BY <1>1, <1>5 DEF BootOnly
  <2> QED
    BY <1>3, <1>4, <2>1 DEF DevInv, TransfersExact, BounceHolds, ReadExact, WriteExact
<1>6. CASE ~other
  <2>1. ExactStep /\ ~other'
    BY <1>1, <1>6
  <2>2. ReadExact'
    <3> SUFFICES ASSUME Busy', call'.op = "read", NEW i \in 0..(call'.done - 1)
                 PROVE  call'.data[i] = media'[call'.start + i]
      BY DEF ReadExact
    <3>1. call' # NoCall /\ call.op = "read" /\ call'.start = call.start /\ media' = media
      BY <1>3 DEF Advanced
    <3>2. call'.data[i] = IF i < call.done THEN call.data[i] ELSE media[call.start + i]
      BY <2>1, <3>1 DEF ExactStep
    <3>3. i < call.done => i \in 0..(call.done - 1)
      BY <1>2, <1>3
    <3>4. i < call.done => call.data[i] = media[call.start + i]
      BY <1>1, <1>6, <3>1, <3>3 DEF ReadExact
    <3> QED
      BY <3>1, <3>2, <3>4
  <2>3. WriteExact'
    <3> SUFFICES ASSUME Busy', call'.op = "write", NEW i \in 0..(call'.done - 1)
                 PROVE  media'[call'.start + i] = call'.data[i]
      BY DEF WriteExact
    <3>1. call' # NoCall /\ call.op = "write" /\ call'.start = call.start
      BY <1>3
    <3>2. /\ call'.data = call.data
          /\ \A k \in Bytes : media'[k] # media[k] => media'[k] = call.data[k - call.start]
          /\ \A k \in call.done..(call'.done - 1) : media'[call.start + k] = call.data[k]
      BY <2>1, <3>1 DEF ExactStep
    <3>3. i \in Nat /\ i < call.size
      BY <1>2, <1>3
    <3>4. call.start + i \in Bytes /\ (call.start + i) - call.start = i
      BY <1>2, <3>3, DevNumbers DEF Bytes
    <3>5. CASE i < call.done
      <4>1. i \in 0..(call.done - 1)
        BY <1>2, <3>3, <3>5
      <4>2. media[call.start + i] = call.data[i]
        BY <1>1, <3>1, <4>1 DEF WriteExact
      <4>3. media'[call.start + i] # media[call.start + i] => media'[call.start + i] = call.data[i]
        BY <3>2, <3>4
      <4> QED
        BY <3>1, <3>2, <4>2, <4>3
    <3>6. CASE i >= call.done
      <4>1. i \in call.done..(call'.done - 1)
        BY <1>2, <1>3, <3>3, <3>6
      <4> QED
        BY <3>1, <3>2, <4>1
    <3> QED
      BY <1>2, <3>3, <3>5, <3>6
  <2> QED
    BY <1>4, <2>1, <2>2, <2>3 DEF DevInv, TransfersExact, ExactStep
<1> QED
  BY <1>5, <1>6

\* An idle device only has its bounce buffer to be right about.
LEMMA IdleExact ==
  ASSUME DevType', ~Busy', BounceHolds'
  PROVE  DevInv'
BY DEF DevInv, TransfersExact, BootOnly, ReadExact, WriteExact

\* Transfers are exact as long as reads are not bounced.
LEMMA DevStep ==
  ASSUME DevInv, [Next]_vars, "read" \notin Masked
  PROVE  DevInv'
<1>0. /\ DevType /\ DevType' /\ BootOnly /\ BounceHolds /\ ReadExact /\ WriteExact
      /\ (Busy /\ call.op = "read" => call.safe)
  BY DevTypeStep DEF DevInv, TransfersExact
<1>1. CASE HeadStep \/ TailStep
  BY <1>0, <1>1, EdgeEffect, ExactAfter DEF HeadStep, TailStep
<1>2. CASE MiddleStep
  BY <1>0, <1>2, MiddleEffect, ExactAfter DEF MiddleStep
<1>3. CASE Return
  <2>1. ~Busy' /\ UNCHANGED <<media, other, bounce, lba>>
    BY <1>3 DEF Return, Busy, NoCall
  <2>2. BounceHolds'
    BY <1>0, <2>1 DEF BounceHolds, Block
  <2> QED
    BY <1>0, <2>1, <2>2, IdleExact
<1>4. CASE Begins
  <2>1. Begun
    BY <1>0, <1>4, BegunAt
  <2>2. UNCHANGED <<media, other, bounce, lba>> /\ call'.done = 0
        /\ (other => call'.op = "read" /\ call'.start = FirstByte /\ call'.size = BootSize)
        /\ (call'.op = "read" => call'.safe)
    BY <2>1 DEF Begun
  <2>3. BounceHolds'
    BY <1>0, <2>2 DEF BounceHolds, Block
  <2>4. ReadExact' /\ WriteExact'
    BY <2>2 DEF ReadExact, WriteExact
  <2>5. BootOnly'
    BY <2>2 DEF BootOnly
  <2> QED
    BY <1>0, <2>2, <2>3, <2>4, <2>5 DEF DevInv, TransfersExact
<1>5. CASE \E base \in {0, pos, Size}, d \in (-Size)..Size : base + d <= Size /\ Seek(base, d)
  <2>1. ~Busy /\ UNCHANGED <<media, other, bounce, lba, call>>
    BY <1>5 DEF Seek
  <2>2. BounceHolds' /\ ~Busy'
    BY <1>0, <2>1 DEF BounceHolds, Block, Busy
  <2> QED
    BY <1>0, <2>2, IdleExact
<1>6. CASE Reopen
  <2>1. BounceHolds' /\ ~Busy'
    BY <1>6 DEF Reopen, BounceHolds, Busy
  <2> QED
    BY <1>0, <2>1, IdleExact
<1>7. CASE Pull
  <2>1. UNCHANGED <<media, other, bounce, lba, call>>
    BY <1>7 DEF Pull
  <2> QED
    BY <1>0, <2>1 DEF DevInv, TransfersExact, BounceHolds, Block, ReadExact, WriteExact, BootOnly, Busy
<1>8. CASE Insert
  <2>1. ~Busy /\ UNCHANGED <<bounce, lba, call>> /\ ((media' = media /\ other' = other) \/ other')
    BY <1>8 DEF Insert
  <2>2. BounceHolds' /\ ~Busy'
    BY <1>0, <2>1 DEF BounceHolds, Block, Busy
  <2> QED
    BY <1>0, <2>2, IdleExact
<1>9. CASE UNCHANGED vars
  <2>1. UNCHANGED <<media, other, bounce, lba, call>>
    BY <1>9 DEF vars
  <2> QED
    BY <1>0, <2>1 DEF DevInv, TransfersExact, BounceHolds, Block, ReadExact, WriteExact, BootOnly, Busy
<1> QED
  BY <1>1, <1>2, <1>3, <1>4, <1>5, <1>6, <1>7, <1>8, <1>9 DEF Next, Begins

\* The device before its first call.
LEMMA DevInit ==
  ASSUME Init
  PROVE  DevInv
<1>1. /\ media \in Cards /\ present = TRUE /\ other = FALSE /\ bounce = [i \in InBlock |-> 0]
      /\ lba = NoBlock /\ pos = 0 /\ call = NoCall
  BY DEF Init
<1>2. media \in [Bytes -> Values]
  BY <1>1, DevIOAssumption
<1>3. bounce \in [InBlock -> Values]
  BY <1>1, DevNumbers
<1>4. pos \in 0..Size
  BY <1>1, DevNumbers
<1>5. ~Busy /\ BounceHolds
  BY <1>1 DEF Busy, NoCall, BounceHolds
<1>6. present \in BOOLEAN /\ other \in BOOLEAN
  BY <1>1
<1>7. DevType
  BY <1>1, <1>2, <1>3, <1>4, <1>6 DEF DevType
<1> QED
  BY <1>5, <1>7 DEF DevInv, TransfersExact, BootOnly, ReadExact, WriteExact

\* The proof's types are those of the model.
LEMMA DevTypeMeans ==
  ASSUME DevType
  PROVE  TypeOK
<1>1. lba \in {NoBlock} \cup {b \in Bytes : b % BlockSize = 0}
  <2>1. CASE BlockAt(lba)
    <3>1. lba \in Nat /\ Multiple(lba) /\ lba + BlockSize <= MediaSize
      BY <2>1 DEF BlockAt
    <3>2. lba \in Bytes
      BY <3>1, DevNumbers DEF Bytes
    <3> QED
      BY <3>1, <3>2, MultipleMod
  <2> QED
    BY <2>1 DEF DevType
<1>2. call = NoCall \/ (call \in Call /\ DOMAIN call.data = 0..(call.size - 1))
  BY DEF DevType, CallOK
<1> QED
  BY <1>1, <1>2 DEF DevType, TypeOK

-----------------------------------------------------------------------------
(* Theorems *)

\* The device structure, the card and the call in progress keep their types:
\* every index the transfers of partition_io() use is on the medium and in the
\* buffers, and the cursor stays in the partition.
THEOREM TypeCorrect == Spec => []TypeOK
<1>1. Init => DevType
  BY DevInit DEF DevInv
<1>2. DevType /\ [Next]_vars => DevType'
  BY DevTypeStep
<1>3. DevType => TypeOK
  BY DevTypeMeans
<1> QED
  BY <1>1, <1>2, <1>3, PTL DEF Spec

\* The invariant of the proofs about the bytes.
LEMMA DevInvariant ==
  ASSUME "read" \notin Masked
  PROVE  Spec => []DevInv
<1>1. Init => DevInv
  BY DevInit
<1>2. DevInv /\ [Next]_vars => DevInv'
  BY DevStep
<1> QED
  BY <1>1, <1>2, PTL DEF Spec

\* With read buffers the driver can use, the bytes that partition_io() moves
\* are exact and bounce_lba never names a block the buffer does not hold, for
\* every block size, range, transfer limit, failure and card change.
THEOREM TransfersExactHolds ==
  ASSUME "read" \notin Masked
  PROVE  Spec => []TransfersExact
<1>1. DevInv => TransfersExact
  BY DEF DevInv
<1> QED
  BY <1>1, DevInvariant, PTL

\* A step that is not a transfer changes no byte of a card that is in the slot.
LEMMA OtherSteps ==
  ASSUME Next
  PROVE  HeadStep \/ TailStep \/ MiddleStep \/ media' = media \/ ~present
BY DEF Next, Return, Pread, Pwrite, Read, WriteAt, Seek, Reopen, Pull, Insert

\* With read buffers the driver can use, a call changes only the bytes it was
\* asked to write, whatever fails, and none outside the partition.
THEOREM WriteConfinedHolds ==
  ASSUME "read" \notin Masked
  PROVE  Spec => WriteConfined
<1> DEFINE Confined ==
      \A i \in Bytes : media'[i] # media[i] =>
        \/ ~present
        \/ /\ Busy /\ call.op = "write"
           /\ i - call.start \in 0..(call.size - 1)
           /\ i - FirstByte \in 0..(Size - 1)
           /\ media'[i] = call.data[i - call.start]
<1>1. ASSUME DevInv, [Next]_vars PROVE [Confined]_vars
  <2>1. CASE HeadStep \/ TailStep \/ MiddleStep
    <3>1. /\ DevType /\ BootOnly /\ BounceHolds /\ Busy
          /\ (call.op = "read" => call.safe)
      BY <1>1, <2>1 DEF DevInv, TransfersExact, HeadStep, TailStep, MiddleStep
    <3>2. Advanced /\ (~other => ExactStep)
      BY <2>1, <3>1, EdgeEffect, MiddleEffect
    <3>3. /\ call.start \in Nat /\ call.size \in Nat /\ call.done \in Nat
          /\ call.op \in {"read", "write"}
          /\ FirstByte <= call.start /\ call.start + call.size <= FirstByte + Size
      BY <3>1, BusyCall, CallFields DEF CallOK
    <3>4. CASE call.op = "read"
      BY <3>2, <3>4 DEF Advanced
    <3>5. CASE call.op = "write"
      <4>1. ~other
        BY <3>1, <3>5 DEF BootOnly
      <4> SUFFICES ASSUME NEW i \in Bytes, media'[i] # media[i]
                   PROVE  /\ i - call.start \in 0..(call.size - 1)
                          /\ i - FirstByte \in 0..(Size - 1)
                          /\ media'[i] = call.data[i - call.start]
        BY <3>1, <3>5
      <4>2. i - call.start \in call.done..(call.size - 1) /\ media'[i] = call.data[i - call.start]
        BY <3>2, <3>5, <4>1 DEF ExactStep
      <4>3. i \in Nat /\ FirstByte \in Nat /\ Size \in Nat
        BY DevNumbers DEF Bytes
      <4> QED
        BY <3>3, <4>2, <4>3
    <3> QED
      BY <3>3, <3>4, <3>5
  <2>2. CASE media' = media \/ ~present
    BY <2>2
  <2>3. CASE UNCHANGED vars
    BY <2>3
  <2> QED
    BY <1>1, <2>1, <2>2, <2>3, OtherSteps
<1>2. Spec => []DevInv /\ [][Next]_vars
  BY DevInvariant, PTL DEF Spec
<1> QED
  BY <1>1, <1>2, PTL DEF WriteConfined

\* A read of the boot sector has moved whole blocks.
BootAligned ==
  Busy /\ call.op = "read" /\ call.start = FirstByte /\ call.size = BootSize => Multiple(call.done)

\* The boot sector is read in whole blocks where partition and boot sector are
\* whole blocks.
LEMMA BootSteps ==
  ASSUME DevType, Busy, call.op = "read", call.start = FirstByte, call.size = BootSize, BootAligned,
         FirstByte % BlockSize = 0, BootSize % BlockSize = 0
  PROVE  ~HeadStep /\ ~TailStep
<1>1. /\ BlockSize \in Nat /\ FirstByte \in Nat /\ BootSize \in Nat /\ call.done \in Nat
      /\ call.done <= BootSize /\ Abs = FirstByte + call.done /\ Left = BootSize - call.done
  BY BusyCall, CallFields, DevIOAssumption
<1>2. Multiple(FirstByte) /\ Multiple(BootSize) /\ Multiple(call.done)
  BY <1>1, SplitNumber DEF BootAligned
<1>3. HeadBytes = 0
  <2>1. Multiple(FirstByte + call.done)
    BY <1>1, <1>2, MultipleSum, Zenon
  <2>2. Abs % BlockSize = 0
    <3>1. FirstByte + call.done \in Nat
      BY <1>1
    <3> QED
      BY <1>1, <2>1, <3>1, MultipleMod
  <2> QED
    BY <2>2 DEF HeadBytes
<1>4. call.done < BootSize => call.done + BlockSize <= BootSize
  BY <1>1, <1>2, BlockFits
<1>5. Left > 0 => Left >= BlockSize
  BY <1>1, <1>4
<1> QED
  BY <1>1, <1>3, <1>5 DEF HeadStep, TailStep

\* On a device whose partition and boot sector are whole blocks, a read of the
\* boot sector answers for the card in the slot, never from the bounce buffer:
\* what same_volume() relies on.
THEOREM BootReadHonestHolds ==
  ASSUME FirstByte % BlockSize = 0, BootSize % BlockSize = 0
  PROVE  Spec => BootReadHonest
<1> DEFINE Boot == DevType /\ BootAligned
           Honest ==
             Busy /\ call.op = "read" /\ call.start = FirstByte /\ call.size = BootSize
               /\ call'.op = "read" /\ call'.done > call.done =>
                 /\ present
                 /\ \A i \in call.done..(call'.done - 1) :
                      call'.data[i] = media[call.start + i]
<1>1. Init => Boot
  <2> SUFFICES ASSUME Init PROVE Boot
    OBVIOUS
  <2>1. DevType
    BY DevInit DEF DevInv
  <2>2. ~Busy
    BY DEF Init, Busy, NoCall
  <2> QED
    BY <2>1, <2>2 DEF BootAligned
<1>2. ASSUME Boot, [Next]_vars PROVE Boot' /\ [Honest]_vars
  <2>1. DevType /\ DevType' /\ BootAligned
    BY <1>2, DevTypeStep
  <2>2. CASE call' = call
    <3>1. BootAligned'
      BY <2>1, <2>2 DEF BootAligned, Busy
    <3>2. Busy => ~(call'.done > call.done)
      BY <2>1, <2>2, BusyCall, CallFields
    <3> QED
      BY <2>1, <3>1, <3>2
  <2>3. CASE call' = NoCall
    BY <2>1, <2>3 DEF BootAligned, Busy, NoCall
  <2>4. CASE Begins
    <3>1. ~Busy /\ call'.done = 0
      BY <2>1, <2>4, BegunAt DEF Begun
    <3>2. 0 = BlockSize * 0 /\ 0 \in Nat
      BY BlockType
    <3> QED
      BY <2>1, <3>1, <3>2 DEF BootAligned, Multiple
  <2>5. CASE (HeadStep \/ TailStep) /\ call' # NoCall
    <3>1. Busy /\ Advanced
      BY <2>1, <2>5, EdgeEffect DEF HeadStep, TailStep
    <3>2. call'.op = call.op /\ call'.start = call.start /\ call'.size = call.size
      BY <2>5, <3>1 DEF Advanced
    <3>3. ~(call.op = "read" /\ call.start = FirstByte /\ call.size = BootSize)
      BY <2>1, <2>5, <3>1, BootSteps
    <3> QED
      BY <2>1, <3>2, <3>3 DEF BootAligned
  <2>6. CASE MiddleStep /\ call' # NoCall
    <3>1. Busy /\ Advanced /\ HonestRead
      BY <2>1, <2>6, MiddleEffect DEF MiddleStep
    <3>2. /\ call'.op = call.op /\ call'.start = call.start /\ call'.size = call.size
          /\ CallOK(call') /\ call.done \in Nat /\ call'.done \in Nat
      BY <2>1, <2>6, <3>1, BusyCall, CallFields DEF Advanced
    <3>3. ASSUME call.op = "read" PROVE
            /\ present
            /\ call'.done - call.done \in Nat /\ Multiple(call'.done - call.done)
            /\ \A i \in 0..(call'.done - 1) :
                 call'.data[i] = IF i < call.done THEN call.data[i] ELSE media[call.start + i]
      BY <2>6, <3>1, <3>3 DEF HonestRead
    <3>4. BootAligned'
      <4> SUFFICES ASSUME call'.op = "read", call'.start = FirstByte, call'.size = BootSize
                   PROVE  Multiple(call'.done)
        BY DEF BootAligned, Multiple
      <4>1. Multiple(call.done) /\ Multiple(call'.done - call.done) /\ call'.done - call.done \in Nat
        BY <2>1, <3>1, <3>2, <3>3 DEF BootAligned
      <4>2. Multiple(call.done + (call'.done - call.done))
        BY <3>2, <4>1, MultipleSum
      <4>3. call.done + (call'.done - call.done) = call'.done
        BY <3>2
      <4> QED
        BY <4>2, <4>3
    <3>5. Honest
      <4> SUFFICES ASSUME call.op = "read", NEW i \in call.done..(call'.done - 1)
                   PROVE  present /\ call'.data[i] = media[call.start + i]
        BY <3>2, <3>3
      <4>1. i \in 0..(call'.done - 1) /\ ~(i < call.done)
        BY <3>2
      <4> QED
        BY <3>3, <4>1
    <3> QED
      BY <2>1, <3>4, <3>5
  <2> QED
    BY <1>2, <2>2, <2>3, <2>4, <2>5, <2>6 DEF Next, Begins, Return, Seek, Reopen, Pull, Insert, vars
<1> QED
  BY <1>1, <1>2, PTL DEF Spec, BootReadHonest

-----------------------------------------------------------------------------
(* Numbers *)

\* The powers of two that sectors and clusters have.
LEMMA Powers ==
  /\ \A n \in 0..21 : 2 ^ n \in Nat /\ 2 ^ n >= 1
  /\ \A b \in 9..12 : 2 ^ (b - 9) \in {1, 2, 4, 8} /\ 2 ^ b = 512 * 2 ^ (b - 9)
<1> DEFINE P(n) == 2 ^ n \in Nat /\ 2 ^ n >= 1
           Q(b) == 2 ^ (b - 9) \in {1, 2, 4, 8} /\ 2 ^ b = 512 * 2 ^ (b - 9)
<1>1. /\ P(0) /\ P(1) /\ P(2) /\ P(3) /\ P(4) /\ P(5) /\ P(6) /\ P(7) /\ P(8) /\ P(9)
      /\ P(10) /\ P(11) /\ P(12) /\ P(13) /\ P(14) /\ P(15) /\ P(16)
      /\ P(17) /\ P(18) /\ P(19) /\ P(20) /\ P(21)
  BY SMT
<1>2. Q(9) /\ Q(10) /\ Q(11) /\ Q(12)
  BY SMT
<1> HIDE DEF P, Q
<1>3. \A n \in 0..21 : P(n)
  <2>1. \A n \in 0..21 :
          \/ n = 0 \/ n = 1 \/ n = 2 \/ n = 3 \/ n = 4 \/ n = 5 \/ n = 6 \/ n = 7 \/ n = 8
          \/ n = 9 \/ n = 10 \/ n = 11 \/ n = 12 \/ n = 13 \/ n = 14 \/ n = 15 \/ n = 16
          \/ n = 17 \/ n = 18 \/ n = 19 \/ n = 20 \/ n = 21
    BY SMT
  <2> QED
    BY <1>1, <2>1
<1>4. \A b \in 9..12 : Q(b)
  <2>1. \A b \in 9..12 : b = 9 \/ b = 10 \/ b = 11 \/ b = 12
    BY SMT
  <2> QED
    BY <1>2, <2>1
<1> QED
  BY <1>3, <1>4 DEF P, Q

\* A set of numbers that is not empty has a least element.
LEMMA LeastIndex ==
  ASSUME NEW S \in SUBSET Nat, S # {}
  PROVE  \E m \in S : \A k \in S : m <= k
<1> DEFINE Less == {p \in Nat \X Nat : p[1] < p[2]}
<1>1. OpToRel(<, Nat) = Less
  BY Zenon DEF OpToRel
<1>2. IsWellFoundedOn(Less, Nat)
  BY <1>1, NatLessThanWellFounded
<1>3. \E m \in S : \A k \in S : <<k, m>> \notin Less
  BY <1>2, WFMin
<1>4. \A k, m \in Nat : <<k, m>> \notin Less => m <= k
  OBVIOUS
<1> HIDE DEF Less
<1> QED
  BY <1>3, <1>4

-----------------------------------------------------------------------------
(* Devices *)

\* A super block has these fields, and a geometry with the FAT behind the
\* boot region.
IsSuper(sb) ==
  /\ sb = [serial |-> sb.serial, sector_bits |-> sb.sector_bits,
           spc_bits |-> sb.spc_bits, version |-> sb.version, fat_count |-> sb.fat_count,
           volume_state |-> sb.volume_state, allocated_percent |-> sb.allocated_percent,
           fat_sector_start |-> sb.fat_sector_start,
           cluster_sector_start |-> sb.cluster_sector_start,
           cluster_count |-> sb.cluster_count, rootdir_cluster |-> sb.rootdir_cluster]
  /\ sb.sector_bits \in 9..12 /\ sb.spc_bits \in 0..21
  /\ sb.fat_sector_start = 128
  /\ sb.cluster_sector_start \in Nat /\ sb.cluster_sector_start >= 128
  /\ sb.cluster_count \in Nat /\ sb.rootdir_cluster \in Int

\* The same but for what a mount changes.
SameSuper(sb, tb) ==
  /\ tb.sector_bits = sb.sector_bits /\ tb.spc_bits = sb.spc_bits
  /\ tb.version = sb.version /\ tb.fat_count = sb.fat_count
  /\ tb.fat_sector_start = sb.fat_sector_start
  /\ tb.cluster_sector_start = sb.cluster_sector_start
  /\ tb.cluster_count = sb.cluster_count /\ tb.rootdir_cluster = sb.rootdir_cluster

\* What is on a device.
UnitTyped(x) ==
  /\ x.k = "fat" => \A i \in DOMAIN x.c : x.c[i] \in Int
  /\ x.k = "dir" => \A i \in DOMAIN x.c :
       /\ x.c[i].start_cluster \in Int
       /\ x.c[i].type = "file" => x.c[i].start_cluster >= 2

CellsTyped(d) == \A u \in DOMAIN d : UnitTyped(d[u])

Device(d) ==
  /\ \E size \in Nat : size > 0 /\ DOMAIN d = 0..(size - 1)
  /\ d = [u \in DOMAIN d |-> d[u]]
  /\ CellsTyped(d)
  /\ d[0].k = "sb" => IsSuper(Super(d))

\* Two devices with the same volume: what is behind the boot region is the
\* same.
SameVolume(d, e) ==
  /\ DOMAIN e = DOMAIN d /\ d[0].k = "sb" /\ e[0].k = "sb"
  /\ SameSuper(Super(d), Super(e))
  /\ \A u \in DOMAIN d : u >= 12 * SectorUnits(Super(d)) => e[u] = d[u]

\* The sizes that a super block has.
LEMMA SuperSizes ==
  ASSUME NEW sb, IsSuper(sb)
  PROVE  /\ SectorUnits(sb) \in Nat /\ SectorUnits(sb) >= 1
         /\ 2 ^ sb.spc_bits \in Nat /\ 2 ^ sb.spc_bits >= 1
         /\ ClusterUnits(sb) \in Nat /\ ClusterUnits(sb) >= 1
<1>1. SectorUnits(sb) \in {1, 2, 4, 8} /\ 2 ^ sb.spc_bits \in Nat /\ 2 ^ sb.spc_bits >= 1
  <2> DEFINE b == sb.sector_bits
             n == sb.spc_bits
  <2>1. b \in 9..12 /\ n \in 0..21
    BY DEF IsSuper
  <2> HIDE DEF b, n
  <2>2. 2 ^ (b - 9) \in {1, 2, 4, 8}
    BY ONLY <2>1, Powers, Zenon
  <2>3. 2 ^ n \in Nat /\ 2 ^ n >= 1
    BY ONLY <2>1, Powers, Zenon
  <2> QED
    BY <2>2, <2>3 DEF SectorUnits, b, n
<1>2. \A x \in {1, 2, 4, 8} : \A y \in Nat : y >= 1 => x * y \in Nat /\ x * y >= 1
  OBVIOUS
<1> QED
  BY <1>1, <1>2 DEF ClusterUnits

\* Clusters are behind the boot region, and so is the FAT.
LEMMA BehindBoot ==
  ASSUME NEW sb, IsSuper(sb), NEW c \in Int, c >= 2
  PROVE  /\ ClusterUnit(sb, c) \in Nat /\ ClusterUnit(sb, c) >= 12 * SectorUnits(sb)
         /\ sb.fat_sector_start * SectorUnits(sb) \in Nat
         /\ sb.fat_sector_start * SectorUnits(sb) + c \div FatCells >= 12 * SectorUnits(sb)
<1> DEFINE s == SectorUnits(sb)
           k == 2 ^ sb.spc_bits
           a == sb.cluster_sector_start
           n == c - 2
<1>1. s \in {1, 2, 4, 8}
  BY Powers DEF IsSuper, SectorUnits
<1>2. k \in Nat /\ a \in Nat /\ a >= 128 /\ sb.fat_sector_start = 128 /\ n \in Nat
  BY SuperSizes DEF IsSuper
<1>3. ClusterUnit(sb, c) = (a + n * k) * s
  BY DEF ClusterUnit, FirstDataCluster
<1> HIDE DEF s, k, a, n
<1>4. n * k \in Nat
  BY <1>2
<1>5. PICK m \in Nat : m = a + n * k /\ m >= 128
  BY <1>2, <1>4
<1>6. m * s \in Nat /\ m * s >= 12 * s /\ 128 * s \in Nat /\ 128 * s >= 12 * s
  BY <1>1, <1>5
<1>7. c \div FatCells \in Nat
  BY DEF FatCells
<1> QED
  BY <1>1, <1>2, <1>3, <1>5, <1>6, <1>7 DEF s

-----------------------------------------------------------------------------
(* The chain of the root directory *)

Walk(d, sb, f, i) ==
  IF i = 0 THEN sb.rootdir_cluster
  ELSE IF ClusterInvalid(sb, f[i - 1]) THEN End
  ELSE NextCluster(d, sb, f[i - 1])

IsWalk(d, sb, f, n) == f = [i \in 0..n |-> Walk(d, sb, f, i)]

TheWalk(d, sb) == CHOOSE f : IsWalk(d, sb, f, sb.cluster_count)

Ends(sb, f, n) == (\A i \in 0..(n - 1) : ~ClusterInvalid(sb, f[i])) /\ f[n] = End

\* RootChain in these terms.
LEMMA RootChainIs ==
  ASSUME NEW d, NEW sb
  PROVE  RootChain(d, sb)
           = LET f == TheWalk(d, sb) IN
             UNION {{f[i] : i \in 0..(n - 1)} : n \in {n \in 1..sb.cluster_count : Ends(sb, f, n)}}
  BY DEF RootChain, TheWalk, IsWalk, Walk, Ends

\* There is a walk of every length.
LEMMA WalkExists ==
  ASSUME NEW d, NEW sb, NEW n \in Nat
  PROVE  \E f : IsWalk(d, sb, f, n)
<1> DEFINE S == {m \in Nat : ~\E f : IsWalk(d, sb, f, m)}
<1> SUFFICES ASSUME S # {} PROVE FALSE
  OBVIOUS
<1>1. PICK m \in S : \A k \in S : m <= k
  <2>1. S \in SUBSET Nat
    OBVIOUS
  <2> HIDE DEF S
  <2> QED
    BY <2>1, LeastIndex
<1>2. m \in Nat /\ ~\E f : IsWalk(d, sb, f, m)
  OBVIOUS
<1>3. CASE m = 0
  <2> DEFINE f == [i \in 0..0 |-> sb.rootdir_cluster]
  <2>1. \A i \in 0..0 : Walk(d, sb, f, i) = sb.rootdir_cluster
    BY DEF Walk
  <2>2. IsWalk(d, sb, f, 0)
    BY <2>1 DEF IsWalk
  <2> QED
    BY <1>2, <1>3, <2>2
<1>4. CASE m # 0
  <2>1. m - 1 \in Nat /\ m - 1 \notin S
    <3> HIDE DEF S
    <3> QED
      BY <1>1, <1>2, <1>4
  <2>2. PICK f : IsWalk(d, sb, f, m - 1)
    BY <2>1
  <2>3. \A i \in 0..(m - 1) : f[i] = Walk(d, sb, f, i)
    BY <2>2 DEF IsWalk
  <2> DEFINE g == [i \in 0..m |-> Walk(d, sb, f, i)]
  <2>4. \A i \in 0..(m - 1) : g[i] = f[i]
    BY <1>2, <2>3
  <2>5. \A i \in 0..m : g[i] = Walk(d, sb, g, i)
    <3> SUFFICES ASSUME NEW i \in 0..m PROVE g[i] = Walk(d, sb, g, i)
      OBVIOUS
    <3>1. g[i] = Walk(d, sb, f, i)
      OBVIOUS
    <3>2. i # 0 => i - 1 \in 0..(m - 1)
      BY <1>2
    <3> HIDE DEF g
    <3> QED
      BY <2>4, <3>1, <3>2 DEF Walk
  <2>6. g = [i \in 0..m |-> g[i]]
    OBVIOUS
  <2> HIDE DEF g
  <2>7. IsWalk(d, sb, g, m)
    BY <2>5, <2>6 DEF IsWalk
  <2> QED
    BY <1>2, <2>7
<1> QED
  BY <1>3, <1>4

\* NextCluster is a number.
LEMMA NextTyped ==
  ASSUME NEW d, CellsTyped(d), NEW sb, NEW c
  PROVE  NextCluster(d, sb, c) \in Int
  BY DEF NextCluster, CellAt, CellsTyped, UnitTyped

\* The clusters of a walk are numbers.
LEMMA WalkTyped ==
  ASSUME NEW d, CellsTyped(d), NEW sb, sb.rootdir_cluster \in Int, NEW n \in Nat,
         NEW f, IsWalk(d, sb, f, n)
  PROVE  \A i \in 0..n : f[i] \in Int /\ f[i] = Walk(d, sb, f, i)
<1>1. \A i \in 0..n : f[i] = Walk(d, sb, f, i)
  BY DEF IsWalk
<1>2. \A c : NextCluster(d, sb, c) \in Int
  BY NextTyped
<1>3. End \in Int
  BY DEF End
<1> QED
  BY <1>1, <1>2, <1>3 DEF Walk

\* Two devices that agree on what follows a cluster have the same walk.
LEMMA WalkUnique ==
  ASSUME NEW d, NEW e, CellsTyped(d), NEW sb, NEW tb, sb.rootdir_cluster \in Int,
         tb.rootdir_cluster = sb.rootdir_cluster, tb.cluster_count = sb.cluster_count,
         \A c \in Int : ~ClusterInvalid(sb, c) => NextCluster(e, tb, c) = NextCluster(d, sb, c),
         NEW n \in Nat, NEW f, IsWalk(d, sb, f, n), NEW g, IsWalk(e, tb, g, n)
  PROVE  g = f
<1>1. \A i \in 0..n : f[i] \in Int /\ f[i] = Walk(d, sb, f, i)
  BY WalkTyped
<1>2. \A i \in 0..n : g[i] = Walk(e, tb, g, i)
  BY DEF IsWalk
<1>3. ASSUME NEW c PROVE ClusterInvalid(tb, c) <=> ClusterInvalid(sb, c)
  BY DEF ClusterInvalid
<1> DEFINE S == {i \in 0..n : g[i] # f[i]}
<1>4. S = {}
  <2> SUFFICES ASSUME S # {} PROVE FALSE
    OBVIOUS
  <2>1. PICK m \in S : \A k \in S : m <= k
    <3>1. S \in SUBSET Nat
      OBVIOUS
    <3> HIDE DEF S
    <3> QED
      BY <3>1, LeastIndex
  <2>2. m \in 0..n /\ g[m] # f[m]
    OBVIOUS
  <2>3. CASE m = 0
    BY <1>1, <1>2, <2>2, <2>3 DEF Walk
  <2>4. CASE m # 0
    <3>1. m - 1 \in 0..n /\ m - 1 < m /\ m - 1 \notin S
      <4> HIDE DEF S
      <4> QED
        BY <2>1, <2>2, <2>4
    <3>2. g[m - 1] = f[m - 1] /\ f[m - 1] \in Int
      BY <1>1, <3>1
    <3>3. f[m] = Walk(d, sb, f, m) /\ g[m] = Walk(e, tb, g, m)
      BY <1>1, <1>2, <2>2
    <3>4. Walk(d, sb, f, m) = Walk(e, tb, g, m)
      BY <1>3, <2>4, <3>2 DEF Walk
    <3> QED
      BY <2>2, <3>3, <3>4
  <2> QED
    BY <2>3, <2>4
<1>5. f = [i \in 0..n |-> f[i]] /\ g = [i \in 0..n |-> g[i]]
  BY DEF IsWalk
<1> HIDE DEF S
<1>6. \A i \in 0..n : g[i] = f[i]
  BY <1>4 DEF S
<1> QED
  BY <1>5, <1>6

\* A cluster of a chain that ends is not invalid.
LEMMA ChainValid ==
  ASSUME NEW d, Device(d), NEW sb, IsSuper(sb), NEW c \in RootChain(d, sb)
  PROVE  c \in Int /\ ~ClusterInvalid(sb, c) /\ c >= 2
<1> DEFINE f == TheWalk(d, sb)
           n == sb.cluster_count
<1>1. n \in Nat /\ sb.rootdir_cluster \in Int
  BY DEF IsSuper
<1>2. IsWalk(d, sb, f, n)
  <2>1. \E g : IsWalk(d, sb, g, n)
    BY <1>1, WalkExists
  <2> QED
    BY <2>1 DEF TheWalk
<1> HIDE DEF f
<1>3. PICK m \in 1..n : Ends(sb, f, m) /\ \E i \in 0..(m - 1) : c = f[i]
  BY RootChainIs DEF f
<1>4. PICK i \in 0..(m - 1) : c = f[i]
  BY <1>3
<1>5. i \in 0..n
  BY <1>1
<1>6. f[i] \in Int
  BY <1>1, <1>2, <1>5, WalkTyped DEF Device
<1>7. ~ClusterInvalid(sb, f[i])
  BY <1>3 DEF Ends
<1> QED
  BY <1>4, <1>6, <1>7 DEF ClusterInvalid, FirstDataCluster

\* Devices with the same volume have the same FAT,
LEMMA NextSame ==
  ASSUME NEW d, NEW e, Device(d), SameVolume(d, e), NEW c \in Int, c >= 2
  PROVE  NextCluster(e, Super(e), c) = NextCluster(d, Super(d), c)
<1> DEFINE sb == Super(d)
           u == sb.fat_sector_start * SectorUnits(sb)
           x == u + c \div FatCells
<1>1. IsSuper(sb)
  BY DEF Device, SameVolume
<1>2. x >= 12 * SectorUnits(sb)
  BY <1>1, BehindBoot
<1>3. Super(e).fat_sector_start * SectorUnits(Super(e)) = u
  BY DEF SameVolume, SameSuper, SectorUnits
<1>4. x \in DOMAIN d => e[x] = d[x]
  BY <1>2 DEF SameVolume
<1>5. DOMAIN e = DOMAIN d
  BY DEF SameVolume
<1> HIDE DEF sb, u
<1> QED
  BY <1>3, <1>4, <1>5 DEF NextCluster, CellAt, sb, u

\* the same chain of the root directory,
LEMMA RootChainSame ==
  ASSUME NEW d, NEW e, Device(d), SameVolume(d, e)
  PROVE  RootChain(e, Super(e)) = RootChain(d, Super(d))
<1> DEFINE sb == Super(d)
           tb == Super(e)
           n == sb.cluster_count
           f == TheWalk(d, sb)
           g == TheWalk(e, tb)
<1>1. IsSuper(sb) /\ CellsTyped(d)
  BY DEF Device, SameVolume
<1>2. n \in Nat /\ sb.rootdir_cluster \in Int
  BY <1>1 DEF IsSuper
<1>3. tb.rootdir_cluster = sb.rootdir_cluster /\ tb.cluster_count = n
  BY DEF SameVolume, SameSuper
<1>4. \A c \in Int : ~ClusterInvalid(sb, c) => NextCluster(e, tb, c) = NextCluster(d, sb, c)
  BY NextSame DEF ClusterInvalid, FirstDataCluster
<1> HIDE DEF sb, tb
<1>5. IsWalk(d, sb, f, n)
  <2>1. \E x : IsWalk(d, sb, x, n)
    BY <1>2, WalkExists
  <2> QED
    BY <2>1 DEF TheWalk
<1>6. IsWalk(e, tb, g, n)
  <2>1. \E x : IsWalk(e, tb, x, n)
    BY <1>2, WalkExists
  <2> QED
    BY <1>3, <2>1 DEF TheWalk
<1> HIDE DEF f, g
<1>7. g = f
  BY <1>1, <1>2, <1>3, <1>4, <1>5, <1>6, WalkUnique
<1>8. \A m : Ends(tb, f, m) <=> Ends(sb, f, m)
  BY <1>3 DEF Ends, ClusterInvalid
<1>9. {m \in 1..tb.cluster_count : Ends(tb, g, m)} = {m \in 1..sb.cluster_count : Ends(sb, f, m)}
  BY <1>3, <1>7, <1>8
<1>10. RootChain(d, sb)
         = UNION {{f[i] : i \in 0..(m - 1)} : m \in {m \in 1..sb.cluster_count : Ends(sb, f, m)}}
  BY RootChainIs DEF f
<1>11. RootChain(e, tb)
         = UNION {{g[i] : i \in 0..(m - 1)} : m \in {m \in 1..tb.cluster_count : Ends(tb, g, m)}}
  BY RootChainIs DEF g
<1> QED
  BY <1>7, <1>9, <1>10, <1>11 DEF sb, tb

\* and the same entries in it.
LEMMA EntriesSame ==
  ASSUME NEW d, NEW e, Device(d), SameVolume(d, e)
  PROVE  EntriesIn(e, Super(e), RootChain(e, Super(e)))
           = EntriesIn(d, Super(d), RootChain(d, Super(d)))
<1> DEFINE sb == Super(d)
           tb == Super(e)
           R == RootChain(d, sb)
           H == UNION {ClusterRange(sb, c) : c \in R}
<1>1. IsSuper(sb)
  BY DEF Device, SameVolume
<1>2. RootChain(e, tb) = R
  BY RootChainSame
<1>3. \A c : ClusterRange(tb, c) = ClusterRange(sb, c)
  BY DEF SameVolume, SameSuper, ClusterRange, ClusterUnit, ClusterUnits, SectorUnits
<1>4. \A c \in R : c \in Int /\ c >= 2
  BY <1>1, ChainValid
<1> HIDE DEF sb, tb, R
<1>5. ASSUME NEW u \in DOMAIN d \cap H PROVE e[u] = d[u]
  <2>1. PICK c \in R : u \in ClusterRange(sb, c)
    OBVIOUS
  <2>2. ClusterUnit(sb, c) \in Nat /\ ClusterUnit(sb, c) >= 12 * SectorUnits(sb)
    BY <1>1, <1>4, <2>1, BehindBoot
  <2>3. SectorUnits(sb) \in Nat
    BY <1>1, SuperSizes
  <2>4. u \in Int /\ u >= ClusterUnit(sb, c)
    <3>1. ClusterUnits(sb) \in Nat
      BY <1>1, SuperSizes
    <3> QED
      BY <2>1, <2>2, <3>1 DEF ClusterRange
  <2>5. u >= 12 * SectorUnits(sb)
    BY <2>2, <2>3, <2>4
  <2> QED
    BY <2>5 DEF SameVolume, sb
<1>6. UNION {ClusterRange(tb, c) : c \in R} = H
  BY <1>3
<1> HIDE DEF H
<1>7. DOMAIN e = DOMAIN d
  BY DEF SameVolume
<1>8. {u \in DOMAIN e \cap H : e[u].k = "dir"} = {u \in DOMAIN d \cap H : d[u].k = "dir"}
  BY <1>5, <1>7
<1> DEFINE D == {u \in DOMAIN d \cap H : d[u].k = "dir"}
<1>9. \A u \in D : {e[u].c[i] : i \in DOMAIN e[u].c} = {d[u].c[i] : i \in DOMAIN d[u].c}
  BY <1>5
<1> HIDE DEF D
<1>10. EntriesIn(d, sb, R) = UNION {{d[u].c[i] : i \in DOMAIN d[u].c} : u \in D}
  BY DEF EntriesIn, D, H
<1>11. EntriesIn(e, tb, R) = UNION {{e[u].c[i] : i \in DOMAIN e[u].c} : u \in D}
  BY <1>6, <1>8 DEF EntriesIn, D
<1>12. EntriesIn(e, tb, R) = EntriesIn(d, sb, R)
  <2> DEFINE A(u) == {d[u].c[i] : i \in DOMAIN d[u].c}
             B(u) == {e[u].c[i] : i \in DOMAIN e[u].c}
  <2>1. EntriesIn(d, sb, R) = UNION {A(u) : u \in D}
    BY <1>10
  <2>2. EntriesIn(e, tb, R) = UNION {B(u) : u \in D}
    BY <1>11
  <2>3. \A u \in D : B(u) = A(u)
    BY <1>9
  <2> HIDE DEF A, B
  <2>4. UNION {B(u) : u \in D} = UNION {A(u) : u \in D}
    BY <2>3
  <2> QED
    BY <2>1, <2>2, <2>4
<1> QED
  BY <1>2, <1>12 DEF sb, tb, R

\* The entries of a directory have a cluster number.
LEMMA EntryTyped ==
  ASSUME NEW d, CellsTyped(d), NEW sb, NEW R, NEW x \in EntriesIn(d, sb, R)
  PROVE  x.start_cluster \in Int /\ (x.type = "file" => x.start_cluster >= 2)
<1>1. PICK u \in DOMAIN d : d[u].k = "dir" /\ \E i \in DOMAIN d[u].c : x = d[u].c[i]
  BY DEF EntriesIn
<1> QED
  BY <1>1 DEF CellsTyped, UnitTyped

\* A mount with repair takes devices with the same volume alike.
LEMMA MountsSame ==
  ASSUME NEW d, NEW e, Device(d), SameVolume(d, e), Mounts(d, TRUE)
  PROVE  Mounts(e, TRUE)
<1> DEFINE sb == Super(d)
           tb == Super(e)
           R == RootChain(d, sb)
           X == EntriesIn(d, sb, R)
<1>1. RootChain(e, tb) = R
  BY RootChainSame
<1>2. EntriesIn(e, tb, R) = X
  BY <1>1, EntriesSame
<1>3. SameSuper(sb, tb) /\ DOMAIN e = DOMAIN d /\ e[0].k = "sb"
  BY DEF SameVolume
<1>4. /\ SuperAccepted(d) /\ sb.version = <<1, 0>> /\ sb.fat_count = 1
      /\ sb.cluster_count * ClusterUnits(sb) <= Cardinality(DOMAIN d)
      /\ R # {} /\ Of(X, "upcase") # {} /\ Of(X, "bitmap") # {}
      /\ \A x \in Of(X, "upcase") : UpcaseAccepted(sb, x)
      /\ \A x \in Of(X, "bitmap") : BitmapAccepted(sb, x)
  BY DEF Mounts
<1>5. SectorUnits(tb) = SectorUnits(sb) /\ ClusterUnits(tb) = ClusterUnits(sb)
  BY <1>3 DEF SameSuper, SectorUnits, ClusterUnits
<1>6. SuperAccepted(e)
  BY <1>3, <1>4, <1>5 DEF SuperAccepted, SameSuper
<1> HIDE DEF sb, tb, R, X
<1>7. tb.version = <<1, 0>> /\ tb.fat_count = 1
      /\ tb.cluster_count * ClusterUnits(tb) <= Cardinality(DOMAIN e)
  BY <1>3, <1>4, <1>5 DEF SameSuper
<1>8. \A x \in Of(X, "upcase") : UpcaseAccepted(tb, x)
  <2>1. tb.cluster_count = sb.cluster_count
    BY <1>3 DEF SameSuper
  <2>2. \A c : ClusterInvalid(tb, c) <=> ClusterInvalid(sb, c)
    BY <2>1, Zenon DEF ClusterInvalid
  <2> QED
    BY <1>4, <2>2, Zenon DEF UpcaseAccepted
<1>9. \A x \in Of(X, "bitmap") : BitmapAccepted(tb, x)
  BY <1>3, <1>4 DEF SameSuper, BitmapAccepted, ClusterInvalid
<1> QED
  BY <1>1, <1>2, <1>4, <1>6, <1>7, <1>8, <1>9 DEF Mounts, tb

\* A cell behind the boot region is the same in devices with the same volume.
LEMMA CellSame ==
  ASSUME NEW d, NEW e, Device(d), SameVolume(d, e), NEW u \in Int,
         u >= 12 * SectorUnits(Super(d)), NEW i \in Nat, NEW k, NEW per \in Nat \ {0}, NEW none
  PROVE  CellAt(e, u, k, per, i, none) = CellAt(d, u, k, per, i, none)
<1> DEFINE x == u + i \div per
<1>1. IsSuper(Super(d))
  BY DEF Device, SameVolume
<1>2. 12 * SectorUnits(Super(d)) \in Nat
  BY <1>1, SuperSizes
<1>3. x >= 12 * SectorUnits(Super(d))
  <2>1. i \div per \in Nat
    OBVIOUS
  <2> QED
    BY <1>2, <2>1
<1>4. DOMAIN e = DOMAIN d /\ (x \in DOMAIN d => e[x] = d[x])
  BY <1>3 DEF SameVolume
<1> HIDE DEF x
<1> QED
  BY <1>4 DEF CellAt, x

\* and holds together in the one if it does in the other.
LEMMA HoldsSame ==
  ASSUME NEW d, NEW e, Device(d), SameVolume(d, e), Mounts(d, TRUE), HoldsTogether(d)
  PROVE  HoldsTogether(e)
<1> DEFINE sb == Super(d)
           tb == Super(e)
           R == RootChain(d, sb)
           X == EntriesIn(d, sb, R)
<1>1. RootChain(e, tb) = R /\ EntriesIn(e, tb, R) = X
  BY RootChainSame, EntriesSame
<1>2. SameSuper(sb, tb) /\ DOMAIN e = DOMAIN d
  BY DEF SameVolume
<1>3. IsSuper(sb) /\ CellsTyped(d)
  BY DEF Device, SameVolume
<1>4. SectorUnits(tb) = SectorUnits(sb) /\ ClusterUnits(tb) = ClusterUnits(sb)
  BY <1>2 DEF SameSuper, SectorUnits, ClusterUnits
<1>5. \A c : ClusterUnit(tb, c) = ClusterUnit(sb, c) /\ ClusterRange(tb, c) = ClusterRange(sb, c)
  BY <1>2, <1>4 DEF SameSuper, ClusterUnit, ClusterRange
<1>6. /\ \A x \in X : x.start_cluster \in Int /\ (x.type = "file" => x.start_cluster >= 2)
      /\ \A x \in Of(X, "bitmap") : x.start_cluster >= 2
      /\ \A x \in Of(X, "upcase") : x.start_cluster >= 2
  <2>1. \A x \in X : x.start_cluster \in Int /\ (x.type = "file" => x.start_cluster >= 2)
    BY <1>3, EntryTyped
  <2>2. /\ \A x \in Of(X, "upcase") : ~ClusterInvalid(sb, x.start_cluster)
        /\ \A x \in Of(X, "bitmap") : ~ClusterInvalid(sb, x.start_cluster)
    <3>1. /\ \A x \in Of(X, "upcase") : UpcaseAccepted(sb, x)
          /\ \A x \in Of(X, "bitmap") : BitmapAccepted(sb, x)
      BY DEF Mounts
    <3> HIDE DEF X, sb
    <3> QED
      BY <3>1, Zenon DEF UpcaseAccepted, BitmapAccepted
  <2> HIDE DEF X, sb
  <2> QED
    BY <2>1, <2>2 DEF Of, ClusterInvalid, FirstDataCluster
<1>7. Occupied(e) = Occupied(d)
  BY <1>1, <1>4 DEF Occupied
<1>8. ASSUME NEW x \in Of(X, "bitmap") PROVE Marked(e, tb, x) = Marked(d, sb, x)
  <2> DEFINE v == ClusterUnit(sb, x.start_cluster)
             A(b) == CellAt(e, v, "bits", BitCells, b, FALSE)
             B(b) == CellAt(d, v, "bits", BitCells, b, FALSE)
  <2>1. x.start_cluster \in Int /\ x.start_cluster >= 2
    BY <1>6 DEF Of
  <2>2. v \in Nat /\ v >= 12 * SectorUnits(sb)
    BY <1>3, <2>1, BehindBoot
  <2>3. \A b \in 0..(sb.cluster_count - 1) : A(b) = B(b)
    <3>1. \A b \in Nat : A(b) = B(b)
      <4>1. BitCells \in Nat \ {0} /\ v \in Int
        BY <2>2 DEF BitCells
      <4>2. v >= 12 * SectorUnits(Super(d))
        BY <2>2
      <4> HIDE DEF v
      <4> TAKE b \in Nat
      <4>3. \A none : CellAt(e, v, "bits", BitCells, b, none) = CellAt(d, v, "bits", BitCells, b, none)
        BY <4>1, <4>2, CellSame
      <4> QED
        BY <4>3
    <3>2. \A b \in 0..(sb.cluster_count - 1) : b \in Nat
      BY <1>3 DEF IsSuper
    <3> HIDE DEF A, B
    <3> QED
      BY <3>1, <3>2
  <2>4. tb.cluster_count = sb.cluster_count
    BY <1>2 DEF SameSuper
  <2>5. Marked(e, tb, x) = {b + FirstDataCluster : b \in {b \in 0..(sb.cluster_count - 1) : A(b)}}
    <3> HIDE DEF tb, sb
    <3>1. ClusterUnit(tb, x.start_cluster) = v
      BY <1>5
    <3> HIDE DEF v
    <3> QED
      BY <2>4, <3>1, Zenon DEF Marked
  <2>6. Marked(d, sb, x) = {b + FirstDataCluster : b \in {b \in 0..(sb.cluster_count - 1) : B(b)}}
    BY DEF Marked
  <2> HIDE DEF A, B
  <2>7. {b \in 0..(sb.cluster_count - 1) : A(b)} = {b \in 0..(sb.cluster_count - 1) : B(b)}
    BY <2>3
  <2> QED
    BY <2>5, <2>6, <2>7
<1>9. /\ \A x \in Of(X, "bitmap") : Marked(d, sb, x) = Occupied(d)
      /\ \A x \in Of(X, "upcase") : \A i \in DOMAIN UctUnits :
           LET u == ClusterUnit(sb, x.start_cluster) + i - 1 IN
           u \in DOMAIN d /\ d[u].k = "uct" /\ d[u].c[0] = i
      /\ \A x \in Of(X, "file") : \A u \in ClusterRange(sb, x.start_cluster) :
           u \in DOMAIN d /\ d[u].k = "data"
  BY DEF HoldsTogether
<1>10. ASSUME NEW x \in Of(X, "upcase"), NEW i \in DOMAIN UctUnits
       PROVE  LET u == ClusterUnit(tb, x.start_cluster) + i - 1 IN
              u \in DOMAIN e /\ e[u].k = "uct" /\ e[u].c[0] = i
  <2> DEFINE u == ClusterUnit(sb, x.start_cluster) + i - 1
  <2>1. x.start_cluster \in Int /\ x.start_cluster >= 2
    BY <1>6 DEF Of
  <2>2. /\ ClusterUnit(sb, x.start_cluster) \in Nat
        /\ ClusterUnit(sb, x.start_cluster) >= 12 * SectorUnits(sb)
        /\ SectorUnits(sb) \in Nat
    BY <1>3, <2>1, BehindBoot, SuperSizes
  <2>3. i \in Nat /\ i >= 1
    BY DEF UctUnits
  <2>4. u >= 12 * SectorUnits(sb)
    BY <2>2, <2>3
  <2>5. u \in DOMAIN d /\ d[u].k = "uct" /\ d[u].c[0] = i
    BY <1>9
  <2>6. e[u] = d[u]
    BY <2>4, <2>5 DEF SameVolume
  <2> QED
    BY <1>2, <1>5, <2>5, <2>6
<1>11. ASSUME NEW x \in Of(X, "file"), NEW u \in ClusterRange(tb, x.start_cluster)
       PROVE  u \in DOMAIN e /\ e[u].k = "data"
  <2>1. x.start_cluster \in Int /\ x.start_cluster >= 2
    BY <1>6 DEF Of
  <2>2. /\ ClusterUnit(sb, x.start_cluster) \in Nat
        /\ ClusterUnit(sb, x.start_cluster) >= 12 * SectorUnits(sb)
        /\ SectorUnits(sb) \in Nat /\ ClusterUnits(sb) \in Nat
    BY <1>3, <2>1, BehindBoot, SuperSizes
  <2>3. u \in ClusterRange(sb, x.start_cluster)
    BY <1>5
  <2>4. u >= 12 * SectorUnits(sb)
    <3> HIDE DEF sb
    <3> QED
      BY <2>2, <2>3 DEF ClusterRange
  <2>5. u \in DOMAIN d /\ d[u].k = "data"
    BY <1>9, <2>3
  <2>6. e[u] = d[u]
    BY <2>4, <2>5 DEF SameVolume
  <2> QED
    BY <1>2, <2>5, <2>6
<1>12. \A x \in Of(X, "bitmap") : Marked(e, tb, x) = Occupied(e)
  BY <1>7, <1>8, <1>9
<1> HIDE DEF X, R, sb
<1> QED
  BY <1>1, <1>10, <1>11, <1>12 DEF HoldsTogether

-----------------------------------------------------------------------------
(* Division *)

\* Multiplication by a number keeps the order,
LEMMA TimesOrder ==
  ASSUME NEW d \in Nat, d >= 1, NEW q \in Int, NEW r \in Int
  PROVE  /\ q <= r => q * d <= r * d
         /\ q < r => q * d + d <= r * d
         /\ q * d \in Int
         /\ (q + r) * d = q * d + r * d
<1>1. q * d \in Int /\ r * d \in Int /\ (q + r) * d = q * d + r * d
  OBVIOUS
<1>2. ASSUME NEW x \in Int, x >= 0 PROVE x * d >= 0
  BY <1>2
<1>3. (r - q) * d = r * d - q * d /\ (r - q - 1) * d = r * d - q * d - d
  OBVIOUS
<1>4. q <= r => (r - q) * d >= 0
  BY <1>2
<1>5. q < r => (r - q - 1) * d >= 0
  BY <1>2
<1> QED
  BY <1>1, <1>3, <1>4, <1>5

\* so that a quotient is known by its bounds.
LEMMA DivIs ==
  ASSUME NEW x \in Nat, NEW d \in Nat, d >= 1, NEW q \in Int, q * d <= x, x < q * d + d
  PROVE  x \div d = q
<1> DEFINE r == x \div d
           y == x % d
<1>1. r \in Int /\ y \in 0..(d - 1) /\ x = d * r + y
  OBVIOUS
<1>2. d * r = r * d
  BY <1>1
<1> HIDE DEF r, y
<1>3. r * d \in Int /\ q * d \in Int
  BY <1>1
<1>4. r * d <= x /\ x < r * d + d
  BY <1>1, <1>2, <1>3
<1>5. ~(q < r)
  BY <1>1, <1>3, <1>4, TimesOrder
<1>6. ~(r < q)
  BY <1>1, <1>3, <1>4, TimesOrder
<1> QED
  BY <1>1, <1>5, <1>6 DEF r

\* A quotient and the number it is of.
LEMMA DivBounds ==
  ASSUME NEW x \in Nat, NEW d \in Nat, d >= 1
  PROVE  /\ x \div d \in Nat /\ (x \div d) * d \in Nat
         /\ (x \div d) * d <= x /\ x < (x \div d) * d + d
<1> DEFINE r == x \div d
           y == x % d
<1>1. r \in Nat /\ y \in 0..(d - 1) /\ x = d * r + y
  OBVIOUS
<1>2. d * r = r * d
  BY <1>1
<1> HIDE DEF r, y
<1>3. r * d \in Nat
  BY <1>1
<1> QED
  BY <1>1, <1>2, <1>3 DEF r

\* The same for a quotient that is rounded up.
LEMMA CeilIs ==
  ASSUME NEW x \in Nat, NEW d \in Nat, d >= 1, NEW q \in Int, x <= q * d, q * d < x + d
  PROVE  DivRoundUp(x, d) = q
<1>1. x + d - 1 \in Nat /\ x + d - 1 >= 0 /\ q * d \in Int
  OBVIOUS
<1>2. q * d <= x + d - 1 /\ x + d - 1 < q * d + d
  BY <1>1
<1>3. (x + d - 1) \div d = q
  BY <1>1, <1>2, DivIs
<1> QED
  BY <1>1, <1>3 DEF DivRoundUp, CDiv

\* The same, rounded up.
LEMMA CeilBounds ==
  ASSUME NEW x \in Nat, NEW d \in Nat, d >= 1
  PROVE  /\ DivRoundUp(x, d) \in Nat /\ DivRoundUp(x, d) * d \in Nat
         /\ x <= DivRoundUp(x, d) * d /\ DivRoundUp(x, d) * d < x + d
         /\ x >= 1 => DivRoundUp(x, d) >= 1
<1> DEFINE r == (x + d - 1) \div d
<1>1. x + d - 1 \in Nat /\ x + d - 1 >= 0
  OBVIOUS
<1>2. DivRoundUp(x, d) = r
  BY <1>1 DEF DivRoundUp, CDiv
<1>3. r \in Nat /\ r * d \in Nat /\ r * d <= x + d - 1 /\ x + d - 1 < r * d + d
  BY <1>1, DivBounds
<1> HIDE DEF r
<1>4. r = 0 => r * d = 0
  OBVIOUS
<1> QED
  BY <1>2, <1>3, <1>4

\* Rounding up behind a multiple,
LEMMA CeilShift ==
  ASSUME NEW a \in Nat, NEW x \in Nat, NEW d \in Nat, d >= 1
  PROVE  DivRoundUp(a * d + x, d) = a + DivRoundUp(x, d)
<1> DEFINE q == DivRoundUp(x, d)
<1>1. q \in Nat /\ q * d \in Nat /\ x <= q * d /\ q * d < x + d
  BY CeilBounds
<1> HIDE DEF q
<1>2. a * d \in Nat /\ (a + q) * d = a * d + q * d
  BY <1>1
<1>3. a * d + x \in Nat /\ a * d + x <= (a + q) * d /\ (a + q) * d < (a * d + x) + d
  BY <1>1, <1>2
<1> QED
  BY <1>1, <1>3, CeilIs DEF q

\* and twice.
LEMMA CeilTwice ==
  ASSUME NEW x \in Nat, NEW n \in Nat, NEW s \in Nat, s >= 1, NEW k \in Nat, k >= 1
  PROVE  DivRoundUp(n + DivRoundUp(x, s), k) = DivRoundUp(n * s + x, s * k)
<1> DEFINE f == DivRoundUp(x, s)
           q == DivRoundUp(n + f, k)
<1>1. f \in Nat /\ f * s \in Nat /\ x <= f * s /\ f * s < x + s
  BY CeilBounds
<1>2. q \in Nat /\ q * k \in Nat /\ n + f <= q * k /\ q * k < n + f + k
  <2> HIDE DEF f
  <2>1. n + f \in Nat
    BY <1>1
  <2> QED
    BY <2>1, CeilBounds
<1> HIDE DEF f, q
<1>3. PICK z \in Nat : z = q * k
  BY <1>2
<1>4. s * k \in Nat /\ s * k >= 1
  <2>1. s * k \in Nat
    OBVIOUS
  <2>2. 1 * k <= s * k
    BY TimesOrder
  <2> QED
    BY <2>1, <2>2
<1>5. q * (s * k) = z * s /\ z * s \in Nat
  <2>1. q * (s * k) = (q * k) * s
    BY <1>2
  <2> QED
    BY <1>3, <2>1
<1>6. n * s \in Nat /\ n * s + x \in Nat
  OBVIOUS
<1>7. (n + f) * s <= z * s /\ (n + f) * s = n * s + f * s
  BY <1>1, <1>2, <1>3, TimesOrder
<1>8. z + 1 <= n + f + k /\ (z + 1) * s <= (n + f + k) * s
  BY <1>1, <1>2, <1>3, TimesOrder
<1>9. (z + 1) * s = z * s + s /\ (n + f + k) * s = n * s + f * s + s * k
  BY <1>1, <1>3
<1>10. n * s + x <= q * (s * k)
  BY <1>1, <1>5, <1>6, <1>7
<1>11. q * (s * k) < (n * s + x) + s * k
  BY <1>1, <1>4, <1>5, <1>6, <1>8, <1>9
<1>12. DivRoundUp(n * s + x, s * k) = q
  BY <1>2, <1>4, <1>6, <1>10, <1>11, CeilIs
<1> QED
  BY <1>12 DEF q, f

-----------------------------------------------------------------------------
(* Where the objects of a format are *)

Su(p) == 2 ^ (p.job.sector_bits - 9)    \* units of a sector
Sc(p) == 2 ^ p.spc_bits                 \* sectors of a cluster
Cu(p) == Su(p) * Sc(p)                  \* units of a cluster
Cm(p) == p.volume \div p.cs             \* clusters of the volume
Ca(p) == DivRoundUp(128 * p.ss + 4 * Cm(p), p.cs)  \* clusters before the heap
Cb(p) == DivRoundUp(CbmSize(p), p.cs)   \* clusters of the bitmap
Uc(p) == DivRoundUp(UctSize, p.cs)      \* clusters of the upcase table

IsParam(p) ==
  /\ p.job.sector_bits \in 9..12 /\ p.spc_bits \in 0..21
  /\ p.ss = 2 ^ p.job.sector_bits /\ p.cs = p.ss * 2 ^ p.spc_bits
  /\ \E size \in Nat : p.volume = size * UnitBytes

\* The sizes of sectors and clusters.
LEMMA ParamSizes ==
  ASSUME NEW p, IsParam(p)
  PROVE  /\ Su(p) \in {1, 2, 4, 8} /\ p.ss = 512 * Su(p) /\ p.ss \in Nat
         /\ Sc(p) \in Nat /\ Sc(p) >= 1 /\ Cu(p) \in Nat /\ Cu(p) >= 1 /\ Cu(p) >= Su(p)
         /\ p.cs = 512 * Cu(p) /\ p.cs \in Nat /\ p.cs >= 1 /\ p.cs >= 512
         /\ p.volume \in Nat
<1>1. Su(p) \in {1, 2, 4, 8} /\ p.ss = 512 * Su(p) /\ Sc(p) \in Nat /\ Sc(p) >= 1
  <2> DEFINE b == p.job.sector_bits
             n == p.spc_bits
  <2>1. b \in 9..12 /\ n \in 0..21 /\ p.ss = 2 ^ b
    BY DEF IsParam
  <2> HIDE DEF b, n
  <2>2. 2 ^ (b - 9) \in {1, 2, 4, 8} /\ 2 ^ b = 512 * 2 ^ (b - 9)
    BY ONLY <2>1, Powers, Zenon
  <2>3. 2 ^ n \in Nat /\ 2 ^ n >= 1
    BY ONLY <2>1, Powers, Zenon
  <2> QED
    BY <2>1, <2>2, <2>3 DEF Su, Sc, b, n
<1>2. p.cs = p.ss * Sc(p)
  BY DEF IsParam, Sc
<1>3. p.volume \in Nat
  BY DEF IsParam, UnitBytes
<1> DEFINE s == Su(p)
           k == Sc(p)
<1>4. s * k \in Nat /\ s * k >= 1 /\ s * k >= s /\ 512 * (s * k) >= 512
      /\ (512 * s) * k = 512 * (s * k)
  <2> HIDE DEF s, k
  <2> QED
    BY <1>1 DEF s, k
<1> QED
  BY <1>1, <1>2, <1>3, <1>4 DEF Cu

\* The FAT starts behind 128 sectors.
LEMMA FatPosIs ==
  ASSUME NEW p, IsParam(p)
  PROVE  FatPos(p) = 128 * p.ss
<1>1. Su(p) \in {1, 2, 4, 8} /\ p.ss = 512 * Su(p) /\ p.ss \in Nat
  BY ParamSizes
<1>2. FatPos(p) = DivRoundUp(24 * p.ss, 128 * p.ss) * (128 * p.ss)
  <2>1. 2 * (12 * p.ss) = 24 * p.ss
    BY <1>1
  <2> QED
    BY <2>1 DEF FatPos, RoundUp, VbrSize
<1>3. /\ 24 * p.ss \in Nat /\ 128 * p.ss \in Nat /\ 128 * p.ss >= 1
      /\ 24 * p.ss <= 1 * (128 * p.ss) /\ 1 * (128 * p.ss) < 24 * p.ss + 128 * p.ss
  BY <1>1
<1>4. DivRoundUp(24 * p.ss, 128 * p.ss) = 1
  BY <1>3, CeilIs
<1> QED
  BY <1>2, <1>3, <1>4

\* The heap starts with a cluster.
LEMMA CbmPosIs ==
  ASSUME NEW p, IsParam(p)
  PROVE  /\ Cm(p) \in Nat /\ Cm(p) * p.cs <= p.volume /\ p.volume < Cm(p) * p.cs + p.cs
         /\ Ca(p) \in Nat /\ Ca(p) >= 1 /\ CbmPos(p) = Ca(p) * p.cs /\ CbmPos(p) \in Nat
         /\ 128 * p.ss + 4 * Cm(p) <= Ca(p) * p.cs
<1>1. /\ Su(p) \in {1, 2, 4, 8} /\ p.ss = 512 * Su(p) /\ p.ss \in Nat
      /\ p.cs \in Nat /\ p.cs >= 1 /\ p.volume \in Nat
  BY ParamSizes
<1>2. Cm(p) \in Nat /\ Cm(p) * p.cs <= p.volume /\ p.volume < Cm(p) * p.cs + p.cs
  <2> DEFINE v == p.volume
             c == p.cs
  <2>1. v \in Nat /\ c \in Nat /\ c >= 1
    BY <1>1
  <2> HIDE DEF v, c
  <2>2. v \div c \in Nat /\ (v \div c) * c <= v /\ v < (v \div c) * c + c
    BY <2>1, DivBounds
  <2> QED
    BY <2>2 DEF Cm, v, c
<1> DEFINE x == 128 * p.ss + 4 * Cm(p)
<1>3. x \in Nat /\ x >= 1
  BY <1>1, <1>2
<1>4. FatPos(p) + FatSize(p) = x
  BY <1>1, <1>2, FatPosIs DEF FatSize, Cm
<1>5. CbmPos(p) = Ca(p) * p.cs
  BY <1>4 DEF CbmPos, RoundUp, Ca
<1> HIDE DEF x
<1>6. DivRoundUp(x, p.cs) = Ca(p)
  BY DEF Ca, x
<1>7. Ca(p) \in Nat /\ Ca(p) >= 1 /\ x <= Ca(p) * p.cs /\ Ca(p) * p.cs \in Nat
  <2> DEFINE cs == p.cs
  <2>1. cs \in Nat /\ cs >= 1
    BY <1>1
  <2> HIDE DEF cs
  <2>2. /\ DivRoundUp(x, cs) \in Nat /\ DivRoundUp(x, cs) >= 1
        /\ x <= DivRoundUp(x, cs) * cs /\ DivRoundUp(x, cs) * cs \in Nat
    BY <1>3, <2>1, CeilBounds
  <2> QED
    BY <1>6, <2>2 DEF cs
<1> QED
  BY <1>2, <1>5, <1>7 DEF x

\* A volume that check_size() accepts reaches behind the start of the heap.
LEMMA HeapInside ==
  ASSUME NEW p, IsParam(p), CheckSize(p)
  PROVE  CbmPos(p) <= p.volume
<1> DEFINE cs == p.cs
           v == p.volume
           h == CbmPos(p)
           m == CbmSize(p)
<1>1. cs \in Nat /\ cs >= 1 /\ v \in Nat /\ h \in Nat
  BY ParamSizes, CbmPosIs
<1> SUFFICES ASSUME v < h PROVE FALSE
  BY <1>1
<1> DEFINE g == h - v
           y == g \div cs
<1>2. g \in Nat /\ g >= 1 /\ y \in Nat
  <2>1. g \in Nat /\ g >= 1
    <3> HIDE DEF h, v
    <3> QED
      BY <1>1 DEF g
  <2> HIDE DEF g
  <2> QED
    BY <1>1, <2>1, DivBounds
<1>3. y <= g
  <2> HIDE DEF g
  <2>1. y * cs <= g /\ y * cs \in Nat
    BY <1>1, <1>2, DivBounds
  <2> HIDE DEF y, cs
  <2>2. y * 1 <= y * cs
    BY <1>1, <1>2
  <2> QED
    BY <1>2, <2>1, <2>2
<1>4. CDiv(v - h, cs) = -y
  <2> HIDE DEF h, v, cs
  <2>1. ~(v - h >= 0) /\ -(v - h) = g
    BY <1>1
  <2> QED
    BY <2>1 DEF CDiv
<1> HIDE DEF y, g
<1>5. m = DivRoundUp(-y, 8)
  BY <1>4 DEF CbmSize
<1>6. m \in Int /\ m >= -y
  <2>1. (-y) + 8 - 1 = 7 - y
    BY <1>2
  <2>2. m = IF 7 - y >= 0 THEN (7 - y) \div 8 ELSE -((-(7 - y)) \div 8)
    BY <1>5, <2>1 DEF DivRoundUp, CDiv
  <2> HIDE DEF m
  <2> QED
    BY <1>2, <2>2
<1>7. h + m \in Int /\ h + m >= v /\ h + m >= 0
  <2> HIDE DEF m, h, v
  <2> QED
    BY <1>1, <1>2, <1>3, <1>6 DEF g
<1>8. UctPos(p) \in Nat /\ UctPos(p) >= v
  <2> DEFINE z == h + m
  <2>1. UctPos(p) = DivRoundUp(z, cs) * cs
    BY DEF UctPos, RoundUp
  <2>2. z \in Nat
    BY <1>7
  <2> HIDE DEF z, cs, v
  <2>3. DivRoundUp(z, cs) * cs \in Nat /\ z <= DivRoundUp(z, cs) * cs
    BY <1>1, <2>2, CeilBounds
  <2>4. z >= v
    BY <1>7 DEF z
  <2> QED
    BY <1>1, <2>1, <2>2, <2>3, <2>4
<1>9. RootPos(p) \in Nat /\ RootPos(p) > v
  <2> DEFINE z == UctPos(p) + UctSize
  <2>1. RootPos(p) = DivRoundUp(z, cs) * cs
    BY DEF RootPos, RoundUp
  <2>2. z \in Nat /\ z > v
    BY <1>1, <1>8 DEF UctSize
  <2> HIDE DEF z, cs, v
  <2>3. DivRoundUp(z, cs) * cs \in Nat /\ z <= DivRoundUp(z, cs) * cs
    BY <1>1, <2>2, CeilBounds
  <2> QED
    BY <1>1, <2>1, <2>2, <2>3
<1> QED
  BY <1>1, <1>9 DEF CheckSize, RootSize

\* The clusters of the bitmap, the upcase table and the root directory fit.
LEMMA Objects ==
  ASSUME NEW p, IsParam(p), CheckSize(p)
  PROVE  /\ Cm(p) - Ca(p) \in Nat /\ CbmSize(p) = DivRoundUp(Cm(p) - Ca(p), 8)
         /\ CbmSize(p) \in Nat /\ Cb(p) \in Nat /\ Uc(p) \in Nat /\ Uc(p) >= 1
         /\ UctPos(p) = (Ca(p) + Cb(p)) * p.cs
         /\ RootPos(p) = (Ca(p) + Cb(p) + Uc(p)) * p.cs
         /\ Ca(p) + Cb(p) + Uc(p) + 1 <= Cm(p)
<1> DEFINE cs == p.cs
           v == p.volume
           m == CbmSize(p)
           a == Ca(p)
           b == Cb(p)
           u == Uc(p)
           c == Cm(p)
<1>1. /\ cs \in Nat /\ cs >= 1 /\ v \in Nat /\ a \in Nat /\ CbmPos(p) = a * cs /\ a * cs \in Nat
      /\ c \in Nat /\ c * cs <= v /\ v < c * cs + cs /\ a * cs <= v
  BY ParamSizes, CbmPosIs, HeapInside
<1>2. CDiv(v - a * cs, cs) = c - a /\ c - a \in Nat
  <2> HIDE DEF v, a, c, cs
  <2>1. v - a * cs \in Nat
    BY <1>1
  <2>2. (c - a) * cs = c * cs - a * cs /\ c * cs \in Int
    BY <1>1
  <2>3. (c - a) * cs <= v - a * cs /\ v - a * cs < (c - a) * cs + cs
    BY <1>1, <2>2
  <2>4. (v - a * cs) \div cs = c - a
    BY <1>1, <2>1, <2>3, DivIs
  <2>5. (v - a * cs) \div cs \in Nat
    BY <1>1, <2>1, DivBounds
  <2> QED
    BY <2>1, <2>4, <2>5 DEF CDiv
<1>3. m = DivRoundUp(c - a, 8)
  BY <1>1, <1>2 DEF CbmSize
<1>4. m \in Nat
  <2> HIDE DEF m, c, a
  <2> QED
    BY <1>2, <1>3, CeilBounds
<1>5. b = DivRoundUp(m, cs)
  BY DEF Cb
<1>6. b \in Nat
  <2> HIDE DEF m, b, cs
  <2> QED
    BY <1>1, <1>4, <1>5, CeilBounds
<1>7. u = DivRoundUp(UctSize, cs)
  BY DEF Uc
<1>8. u \in Nat /\ u >= 1
  <2>1. UctSize \in Nat /\ UctSize >= 1
    BY DEF UctSize
  <2> HIDE DEF u, cs
  <2> QED
    BY <1>1, <1>7, <2>1, CeilBounds
<1>9. UctPos(p) = (a + b) * cs
  <2>1. UctPos(p) = DivRoundUp(a * cs + m, cs) * cs
    BY <1>1 DEF UctPos, RoundUp
  <2> HIDE DEF m, b, cs, a
  <2> QED
    BY <1>1, <1>4, <1>5, <2>1, CeilShift
<1>10. RootPos(p) = (a + b + u) * cs
  <2>1. RootPos(p) = DivRoundUp((a + b) * cs + UctSize, cs) * cs
    BY <1>9 DEF RootPos, RoundUp
  <2>2. UctSize \in Nat
    BY DEF UctSize
  <2> HIDE DEF u, b, cs, a
  <2>3. a + b \in Nat
    BY <1>1, <1>6
  <2>4. DivRoundUp((a + b) * cs + UctSize, cs) = (a + b) + u
    BY <1>1, <1>7, <2>2, <2>3, CeilShift
  <2> QED
    BY <2>1, <2>4
<1>11. a + b + u + 1 <= c
  <2>1. RootPos(p) + cs <= v
    BY DEF CheckSize, RootSize
  <2> HIDE DEF u, b, cs, a, c, v
  <2> DEFINE n == a + b + u
  <2>2. n \in Nat /\ RootPos(p) = n * cs
    BY <1>1, <1>6, <1>8, <1>10
  <2> HIDE DEF n
  <2>3. (n + 1) * cs = n * cs + cs /\ n * cs \in Nat /\ c * cs \in Nat
    BY <1>1, <2>2
  <2>4. ~(c < n + 1)
    <3>1. c < n + 1 => c * cs + cs <= (n + 1) * cs
      BY <1>1, <2>2, TimesOrder
    <3> QED
      BY <1>1, <2>1, <2>2, <2>3, <3>1
  <2>5. n + 1 <= c
    BY <1>1, <2>2, <2>4
  <2> QED
    BY <1>1, <1>6, <1>8, <2>5 DEF n
<1> QED
  BY <1>2, <1>3, <1>4, <1>6, <1>8, <1>9, <1>10, <1>11

\* The super block that init_sb() makes.
LEMMA TheSuper ==
  ASSUME NEW p, IsParam(p), CheckSize(p)
  PROVE  /\ IsSuper(InitSb(p))
         /\ InitSb(p).cluster_sector_start = Ca(p) * Sc(p)
         /\ InitSb(p).cluster_count = Cm(p) - Ca(p)
         /\ InitSb(p).rootdir_cluster = Cb(p) + Uc(p) + 2
         /\ SectorUnits(InitSb(p)) = Su(p) /\ ClusterUnits(InitSb(p)) = Cu(p)
         /\ \A c \in Int : ClusterUnit(InitSb(p), c) = (Ca(p) + c - 2) * Cu(p)
<1> DEFINE ss == p.ss
           k == Sc(p)
           s == Su(p)
           cs == p.cs
           a == Ca(p)
           b == Cb(p)
           u == Uc(p)
           c == Cm(p)
           sb == InitSb(p)
<1>1. /\ s \in {1, 2, 4, 8} /\ ss = 512 * s /\ ss \in Nat /\ k \in Nat /\ k >= 1
      /\ cs \in Nat /\ cs >= 1 /\ Cu(p) = s * k
  BY ParamSizes DEF Cu
<1>2. cs = ss * k
  BY DEF IsParam, Sc
<1>3. /\ a \in Nat /\ b \in Nat /\ u \in Nat /\ c \in Nat /\ c - a \in Nat /\ CbmPos(p) = a * cs
      /\ RootPos(p) = (a + b + u) * cs /\ a >= 1 /\ 128 * ss + 4 * c <= a * cs
  BY CbmPosIs, Objects
<1>4. sb.cluster_sector_start = a * k
  <2>1. sb.cluster_sector_start = (a * cs) \div ss
    BY <1>3 DEF InitSb
  <2> HIDE DEF a, cs, ss, k
  <2>2. a * cs \in Nat /\ a * cs = (a * k) * ss /\ a * k \in Int
    BY <1>1, <1>2, <1>3
  <2>3. (a * cs) \div ss = a * k
    BY <1>1, <2>2, DivIs
  <2> HIDE DEF sb
  <2> QED
    BY <2>1, <2>3
<1>5. sb.cluster_count = c - a
  <2> DEFINE f == DivRoundUp(c * 4, ss)
             q == DivRoundUp(128 + f, k)
  <2>1. sb.cluster_count = c - ((128 + (q * k - 128)) \div k)
    BY DEF InitSb, Cm, Sc, RoundUp
  <2>2. 4 * c = c * 4 /\ c * 4 \in Nat
    BY <1>3
  <2>3. q = DivRoundUp(128 * ss + c * 4, ss * k)
    <3> DEFINE x == c * 4
    <3>1. ss >= 1 /\ x \in Nat
      BY <1>1, <2>2
    <3>2. k \in Nat /\ k >= 1 /\ ss \in Nat /\ 128 \in Nat
      BY <1>1
    <3> HIDE DEF ss, k, x
    <3>3. DivRoundUp(128 + DivRoundUp(x, ss), k) = DivRoundUp(128 * ss + x, ss * k)
      BY ONLY <3>1, <3>2, CeilTwice
    <3> QED
      BY <3>3 DEF x
  <2>4. q = a
    BY <1>2, <2>2, <2>3 DEF Ca
  <2> HIDE DEF q, a, k, f
  <2>5. 128 + (q * k - 128) = a * k /\ a * k \in Nat
    BY <1>1, <1>3, <2>4
  <2>6. (a * k) \div k = a
    BY <1>1, <1>3, <2>5, DivIs
  <2> HIDE DEF sb
  <2> QED
    BY <2>1, <2>5, <2>6
<1>6. sb.rootdir_cluster = b + u + 2
  <2>1. sb.rootdir_cluster = ((a + b + u) * cs - a * cs) \div cs + 2
    BY <1>3 DEF InitSb, ClusterOf, FirstDataCluster
  <2> HIDE DEF a, b, u, cs, sb
  <2>2. (a + b + u) * cs - a * cs = (b + u) * cs /\ (b + u) * cs \in Nat
    BY <1>1, <1>3
  <2>3. ((b + u) * cs) \div cs = b + u
    BY <1>1, <1>3, <2>2, DivIs
  <2> QED
    BY <2>1, <2>2, <2>3
<1>7. SectorUnits(sb) = s /\ 2 ^ sb.spc_bits = k
  BY DEF SectorUnits, InitSb, Su, Sc
<1>8. ClusterUnits(sb) = Cu(p)
  BY <1>7 DEF ClusterUnits, Cu
<1>9. a * k >= 128 /\ a * k \in Nat
  <2> HIDE DEF a, k, s, ss, cs, c
  <2>1. a * k \in Nat /\ a * cs = (a * k) * ss
    BY <1>1, <1>2, <1>3
  <2>2. a * k < 128 => (a * k) * ss + ss <= 128 * ss
    BY <1>1, <2>1, TimesOrder
  <2> QED
    BY <1>1, <1>3, <2>1, <2>2
<1>10. IsSuper(sb)
  <2>1. sb.sector_bits \in 9..12 /\ sb.spc_bits \in 0..21 /\ sb.fat_sector_start = 128
    BY DEF InitSb, IsParam
  <2>2. sb = [serial |-> sb.serial, sector_bits |-> sb.sector_bits,
              spc_bits |-> sb.spc_bits, version |-> sb.version, fat_count |-> sb.fat_count,
              volume_state |-> sb.volume_state, allocated_percent |-> sb.allocated_percent,
              fat_sector_start |-> sb.fat_sector_start,
              cluster_sector_start |-> sb.cluster_sector_start,
              cluster_count |-> sb.cluster_count, rootdir_cluster |-> sb.rootdir_cluster]
    BY DEF InitSb
  <2> HIDE DEF sb, a, k, c, b, u
  <2>3. b + u + 2 \in Int
    BY <1>3
  <2> QED
    BY <1>3, <1>4, <1>5, <1>6, <1>9, <2>1, <2>2, <2>3 DEF IsSuper
<1>11. ASSUME NEW x \in Int PROVE ClusterUnit(sb, x) = (a + x - 2) * Cu(p)
  <2>1. ClusterUnit(sb, x) = (a * k + (x - 2) * k) * s
    BY <1>4, <1>7 DEF ClusterUnit, FirstDataCluster
  <2> HIDE DEF sb, a, k, s
  <2>2. a * k + (x - 2) * k = (a + x - 2) * k
    BY <1>1, <1>3
  <2>3. ((a + x - 2) * k) * s = (a + x - 2) * (s * k)
    BY <1>1, <1>3
  <2> QED
    BY <1>1, <2>1, <2>2, <2>3
<1> QED
  BY <1>4, <1>5, <1>6, <1>7, <1>8, <1>10, <1>11

\* A number that a multiple covers needs no more when rounded up.
LEMMA CeilLeast ==
  ASSUME NEW x \in Nat, NEW d \in Nat, d >= 1, NEW q \in Int, x <= q * d
  PROVE  DivRoundUp(x, d) <= q
<1> DEFINE r == DivRoundUp(x, d)
<1>1. r \in Nat /\ r * d \in Nat /\ r * d < x + d
  BY CeilBounds
<1> HIDE DEF r
<1>2. q < r => q * d + d <= r * d
  BY <1>1, TimesOrder
<1>3. q * d \in Int
  OBVIOUS
<1>4. q < r \/ r <= q
  BY <1>1
<1>5. r <= q
  BY <1>1, <1>2, <1>3, <1>4
<1> QED
  BY <1>5 DEF r

Units(p) == p.volume \div UnitBytes
FatUnits(p) == DivRoundUp(FatSize(p), UnitBytes)
CbmUnits(p) == DivRoundUp(CbmSize(p), UnitBytes)
Cbm0(p) == Ca(p) * Cu(p)                       \* the first units of the objects
Uct0(p) == (Ca(p) + Cb(p)) * Cu(p)
Root0(p) == (Ca(p) + Cb(p) + Uc(p)) * Cu(p)
Rt(p) == Cb(p) + Uc(p) + 2                     \* the cluster of the root directory

\* The objects start with a unit.
LEMMA Starts ==
  ASSUME NEW p, IsParam(p), CheckSize(p)
  PROVE  /\ Unit(0) = 0 /\ Unit(VbrSize(p)) = 12 * Su(p)
         /\ Unit(FatPos(p)) = 128 * Su(p) /\ Unit(CbmPos(p)) = Cbm0(p)
         /\ Unit(UctPos(p)) = Uct0(p) /\ Unit(RootPos(p)) = Root0(p)
         /\ DivRoundUp(VbrSize(p), UnitBytes) = 12 * Su(p)
         /\ DivRoundUp(UctSize, UnitBytes) = 12
         /\ DivRoundUp(RootSize(p), UnitBytes) = Cu(p)
<1>1. /\ Su(p) \in {1, 2, 4, 8} /\ p.ss = 512 * Su(p) /\ Cu(p) \in Nat /\ p.cs = 512 * Cu(p)
  BY ParamSizes
<1>2. ASSUME NEW q \in Nat
      PROVE  (q * 512) \div 512 = q /\ DivRoundUp(q * 512, 512) = q
  <2>1. q * 512 \in Nat
    OBVIOUS
  <2>2. (q * 512) \div 512 = q
    BY <2>1, DivIs
  <2>3. DivRoundUp(q * 512, 512) = q
    BY <2>1, CeilIs
  <2> QED
    BY <2>2, <2>3
<1>3. \A n \in Nat : n * p.cs = (n * Cu(p)) * 512 /\ n * Cu(p) \in Nat
  BY <1>1
<1>4. 12 * p.ss = (12 * Su(p)) * 512 /\ 12 * Su(p) \in Nat
      /\ 128 * p.ss = (128 * Su(p)) * 512 /\ 128 * Su(p) \in Nat /\ p.cs = Cu(p) * 512
  BY <1>1
<1>5. Unit(0) = 0
  BY DEF Unit, UnitBytes
<1>6. Unit(VbrSize(p)) = 12 * Su(p) /\ DivRoundUp(VbrSize(p), UnitBytes) = 12 * Su(p)
  <2> DEFINE q == 12 * Su(p)
  <2>1. q \in Nat /\ VbrSize(p) = q * 512
    BY <1>4 DEF VbrSize
  <2> HIDE DEF q
  <2>2. Unit(VbrSize(p)) = q /\ DivRoundUp(VbrSize(p), UnitBytes) = q
    BY <1>2, <2>1 DEF Unit, UnitBytes
  <2> QED
    BY <2>2 DEF q
<1>7. Unit(FatPos(p)) = 128 * Su(p)
  <2> DEFINE q == 128 * Su(p)
  <2>1. q \in Nat /\ FatPos(p) = q * 512
    BY <1>4, FatPosIs
  <2> HIDE DEF q
  <2>2. Unit(FatPos(p)) = q
    BY <1>2, <2>1 DEF Unit, UnitBytes
  <2> QED
    BY <2>2 DEF q
<1>8. /\ Ca(p) \in Nat /\ CbmPos(p) = Ca(p) * p.cs
      /\ Ca(p) + Cb(p) \in Nat /\ UctPos(p) = (Ca(p) + Cb(p)) * p.cs
      /\ Ca(p) + Cb(p) + Uc(p) \in Nat /\ RootPos(p) = (Ca(p) + Cb(p) + Uc(p)) * p.cs
  BY CbmPosIs, Objects
<1>9. ASSUME NEW n \in Nat PROVE Unit(n * p.cs) = n * Cu(p)
  <2> DEFINE q == n * Cu(p)
  <2>1. q \in Nat /\ n * p.cs = q * 512
    BY <1>3
  <2> HIDE DEF q
  <2>2. Unit(n * p.cs) = q
    BY <1>2, <2>1 DEF Unit, UnitBytes
  <2> QED
    BY <2>2 DEF q
<1>10. DivRoundUp(RootSize(p), UnitBytes) = Cu(p)
  BY <1>1, <1>2, <1>4 DEF RootSize, UnitBytes
<1>11. DivRoundUp(UctSize, UnitBytes) = 12
  BY SMT DEF DivRoundUp, CDiv, UctSize, UnitBytes
<1> QED
  BY <1>5, <1>6, <1>7, <1>8, <1>9, <1>10, <1>11 DEF Cbm0, Uct0, Root0

\* The entry of the root directory's cluster is in the FAT.
LEMMA RootInFat ==
  ASSUME NEW p, IsParam(p), CheckSize(p)
  PROVE  Rt(p) \in Nat /\ Rt(p) \div FatCells < FatUnits(p) /\ FatUnits(p) \in Nat
<1> DEFINE cs == p.cs
           a == Ca(p)
           b == Cb(p)
           u == Uc(p)
           c == Cm(p)
           r == Rt(p)
           f == FatUnits(p)
           m == CbmSize(p)
<1>1. /\ a \in Nat /\ a >= 1 /\ b \in Nat /\ u \in Nat /\ u >= 1 /\ c \in Nat /\ a + b + u + 1 <= c
      /\ cs \in Nat /\ cs >= 512 /\ m \in Nat /\ m = DivRoundUp(c - a, 8) /\ c - a \in Nat
      /\ b = DivRoundUp(m, cs)
  BY CbmPosIs, Objects, ParamSizes DEF Cb
<1>2. f = DivRoundUp(c * 4, 512)
  BY DEF FatUnits, FatSize, Cm, UnitBytes
<1>3. f \in Nat /\ c * 4 <= f * 512
  <2> HIDE DEF f, c
  <2>1. c * 4 \in Nat
    BY <1>1
  <2> QED
    BY <1>2, <2>1, CeilBounds
<1>4. r = b + u + 2 /\ r \in Nat /\ r <= c
  <2>1. r = b + u + 2
    BY DEF Rt
  <2> HIDE DEF r, b, u, a, c
  <2> QED
    BY <1>1, <2>1
<1>5. r = c => c <= 4
  <2> SUFFICES ASSUME r = c PROVE c <= 4
    OBVIOUS
  <2>1. a = 1 /\ c - a = b + u + 1
    <3> HIDE DEF r, a, b, u, c
    <3> QED
      BY <1>1, <1>4
  <2>2. cs >= 65536
    <3>1. 128 * p.ss + 4 * c <= a * cs /\ p.ss \in Nat /\ p.ss >= 512
      BY CbmPosIs, ParamSizes
    <3> HIDE DEF a, cs, c
    <3> QED
      BY <1>1, <2>1, <3>1, SMT
  <2>3. u = 1
    <3>1. UctSize \in Nat /\ UctSize <= 1 * cs /\ 1 * cs < UctSize + cs
      BY <1>1, <2>2, SMT DEF UctSize
    <3>2. DivRoundUp(UctSize, cs) = 1
      BY <1>1, <3>1, CeilIs
    <3> QED
      BY <3>2 DEF Uc
  <2> HIDE DEF r, a, b, u, c, cs, m
  <2>4. m * 8 < (c - a) + 8
    BY <1>1, CeilBounds
  <2>5. b <= m
    <3>1. m * 1 <= m * cs
      BY <1>1
    <3> QED
      BY <1>1, <3>1, CeilLeast
  <2> QED
    BY <1>1, <1>4, <2>1, <2>3, <2>4, <2>5
<1>6. r \div FatCells < f
  <2> HIDE DEF r, f, c, a, b, u, m, cs
  <2>1. r \in Nat /\ f \in Nat /\ c \in Nat /\ r <= c /\ (r = c => c <= 4)
        /\ c * 4 <= f * 512 /\ c >= 2
    BY <1>1, <1>3, <1>4, <1>5
  <2> QED
    BY ONLY <2>1, SMT DEF FatCells
<1> QED
  BY <1>3, <1>4, <1>6

\* The objects follow each other and are on the volume.
LEMMA Regions ==
  ASSUME NEW p, IsParam(p), CheckSize(p)
  PROVE  /\ FatUnits(p) \in Nat /\ CbmUnits(p) \in Nat /\ Units(p) \in Nat
         /\ Cbm0(p) \in Nat /\ Uct0(p) \in Nat /\ Root0(p) \in Nat
         /\ 128 * Su(p) + FatUnits(p) <= Cbm0(p) /\ Cbm0(p) + CbmUnits(p) <= Uct0(p)
         /\ Uct0(p) + 12 <= Root0(p) /\ Root0(p) + Cu(p) <= Units(p)
         /\ CbmUnits(p) >= 1 /\ Cm(p) - Ca(p) <= CbmUnits(p) * BitCells
<1> DEFINE cu == Cu(p)
           s == Su(p)
           a == Ca(p)
           b == Cb(p)
           u == Uc(p)
           c == Cm(p)
           f == FatUnits(p)
           m == CbmSize(p)
           l == CbmUnits(p)
           n == Units(p)
<1>1. /\ s \in {1, 2, 4, 8} /\ p.ss = 512 * s /\ cu \in Nat /\ cu >= 1 /\ p.cs = 512 * cu
      /\ p.volume \in Nat /\ p.cs \in Nat /\ p.cs >= 1
  BY ParamSizes
<1>2. /\ a \in Nat /\ a >= 1 /\ b \in Nat /\ u \in Nat /\ u >= 1 /\ c \in Nat /\ a + b + u + 1 <= c
      /\ m \in Nat /\ m = DivRoundUp(c - a, 8) /\ c - a \in Nat /\ c - a >= 1
      /\ c * p.cs <= p.volume /\ 128 * p.ss + 4 * c <= a * p.cs
  <2>1. /\ a \in Nat /\ a >= 1 /\ b \in Nat /\ u \in Nat /\ u >= 1 /\ c \in Nat
        /\ a + b + u + 1 <= c /\ m \in Nat /\ m = DivRoundUp(c - a, 8) /\ c - a \in Nat
        /\ c * p.cs <= p.volume /\ 128 * p.ss + 4 * c <= a * p.cs
    BY CbmPosIs, Objects
  <2> HIDE DEF a, b, c, u
  <2>2. c - a >= 1
    BY <2>1
  <2> QED
    BY <2>1, <2>2
<1>3. f = DivRoundUp(c * 4, 512) /\ l = DivRoundUp(m, 512) /\ n = p.volume \div 512
  BY DEF FatUnits, FatSize, Cm, UnitBytes, CbmUnits, Units
<1>4. b = DivRoundUp(m, p.cs) /\ u = DivRoundUp(UctSize, p.cs)
  BY DEF Cb, Uc
<1>5. m >= 1 /\ m * 8 >= c - a
  <2> HIDE DEF m, c, a
  <2> QED
    BY <1>2, CeilBounds
<1>6. b * p.cs >= m /\ u * p.cs >= 5836
  <2>1. UctSize \in Nat /\ UctSize = 5836
    BY DEF UctSize
  <2> HIDE DEF m, b, u
  <2>2. u * p.cs >= UctSize
    BY <1>1, <1>4, <2>1, CeilBounds
  <2>3. b * p.cs >= m
    BY <1>1, <1>2, <1>4, CeilBounds
  <2> QED
    BY <2>1, <2>2, <2>3
<1>7. l \in Nat /\ l >= 1 /\ l * 512 >= m
  <2> HIDE DEF m, l
  <2> QED
    BY <1>2, <1>3, <1>5, CeilBounds
<1>8. n \in Nat /\ c * cu <= n
  <2> DEFINE v == p.volume
  <2>1. v \in Nat /\ n = v \div 512
    BY <1>1, <1>3
  <2> HIDE DEF n, c, v, cu
  <2>2. n \in Nat /\ v < n * 512 + 512
    BY <2>1, DivBounds
  <2>3. PICK z \in Nat : z = c * cu
    BY <1>1, <1>2
  <2>4. c * p.cs = z * 512
    BY <1>1, <1>2, <2>3
  <2>5. z * 512 <= v
    BY <1>2, <2>4 DEF v
  <2>6. z <= n
    BY ONLY <2>1, <2>2, <2>3, <2>5
  <2> QED
    BY <2>2, <2>3, <2>6
<1> DEFINE x == a * cu
           y == b * cu
           z == u * cu
<1>9. x \in Nat /\ y \in Nat /\ z \in Nat
      /\ a * p.cs = x * 512 /\ b * p.cs = y * 512 /\ u * p.cs = z * 512
  <2> HIDE DEF a, b, u, cu
  <2> QED
    BY <1>1, <1>2
<1>10. Cbm0(p) = x /\ Uct0(p) = x + y /\ Root0(p) = x + y + z
  <2>1. Cbm0(p) = a * cu /\ Uct0(p) = (a + b) * cu /\ Root0(p) = (a + b + u) * cu
    BY DEF Cbm0, Uct0, Root0
  <2> HIDE DEF a, b, u, cu
  <2>2. (a + b) * cu = a * cu + b * cu /\ (a + b + u) * cu = a * cu + b * cu + u * cu
    BY <1>1, <1>2
  <2> QED
    BY <2>1, <2>2
<1>11. x + y + z + cu <= n
  <2> HIDE DEF a, b, u, cu, c, n
  <2>1. (a + b + u + 1) * cu <= c * cu
    BY <1>1, <1>2, TimesOrder
  <2>2. (a + b + u + 1) * cu = a * cu + b * cu + u * cu + cu
    BY <1>1, <1>2
  <2>3. c * cu \in Nat
    BY <1>1, <1>2
  <2> HIDE DEF x, y, z
  <2>4. PICK t \in Nat : t = x + y + z + cu /\ t <= c * cu
    BY <1>1, <1>9, <2>1, <2>2, <2>3 DEF x, y, z
  <2> QED
    BY <1>8, <2>3, <2>4
<1>12. f \in Nat /\ 128 * s + f <= x
  <2>1. c * 4 \in Nat /\ x - 128 * s \in Int /\ c * 4 <= (x - 128 * s) * 512
    <3> HIDE DEF x, c, s, a
    <3> QED
      BY <1>1, <1>2, <1>9
  <2> HIDE DEF f, c, x, s
  <2>2. f <= x - 128 * s
    BY <1>3, <2>1, CeilLeast
  <2>3. f \in Nat
    BY <1>3, <2>1, CeilBounds
  <2> QED
    BY <1>1, <1>9, <2>2, <2>3
<1>13. l <= y
  <2> HIDE DEF l, m, y, b
  <2>1. m <= y * 512
    BY <1>6, <1>9
  <2> QED
    BY <1>2, <1>3, <1>9, <2>1, CeilLeast
<1>14. 12 <= z
  <2> HIDE DEF z, u
  <2> QED
    BY <1>6, <1>9
<1>15. c - a <= l * 4096
  <2> HIDE DEF c, a, l, m
  <2> QED
    BY <1>2, <1>5, <1>7
<1> HIDE DEF a, b, c, u, l, x, y, z, f, n, cu, s
<1>16. /\ x + l <= x + y /\ x + y + 12 <= x + y + z /\ x + y \in Nat /\ x + y + z \in Nat
  BY <1>7, <1>9, <1>13, <1>14
<1> QED
  BY <1>7, <1>8, <1>9, <1>10, <1>11, <1>12, <1>15, <1>16 DEF a, c, l, f, n, cu, s, BitCells

-----------------------------------------------------------------------------
(* The sequence of the writes *)

IsSeq(s) == \E S : s \in Seq(S)

\* A function on 1..n is a sequence.
LEMMA FunSeq ==
  ASSUME NEW n \in Nat, NEW s, DOMAIN s = 1..n, s = [i \in 1..n |-> s[i]]
  PROVE  IsSeq(s) /\ Len(s) = n
<1> DEFINE S == {s[i] : i \in 1..n}
<1>1. s \in [1..n -> S]
  OBVIOUS
<1>2. s \in Seq(S)
  <2> HIDE DEF S
  <2> QED
    BY <1>1
<1>3. Len(s) = n
  <2> HIDE DEF S
  <2> QED
    BY <1>2
<1> QED
  BY <1>2, <1>3 DEF IsSeq

\* Two sequences, one behind the other.
LEMMA ConcatIs ==
  ASSUME NEW s, NEW t, IsSeq(s), IsSeq(t)
  PROVE  /\ IsSeq(s \o t) /\ Len(s) \in Nat /\ Len(t) \in Nat
         /\ Len(s \o t) = Len(s) + Len(t)
         /\ \A i \in 1..Len(s) : (s \o t)[i] = s[i]
         /\ \A i \in 1..Len(t) : (s \o t)[Len(s) + i] = t[i]
<1>1. PICK A : s \in Seq(A)
  BY DEF IsSeq
<1>2. PICK B : t \in Seq(B)
  BY DEF IsSeq
<1> DEFINE S == A \cup B
<1>3. s \in Seq(S) /\ t \in Seq(S)
  BY <1>1, <1>2
<1> HIDE DEF S
<1>4. /\ s \o t \in Seq(S) /\ Len(s \o t) = Len(s) + Len(t)
      /\ \A i \in 1..(Len(s) + Len(t)) :
           (s \o t)[i] = IF i <= Len(s) THEN s[i] ELSE t[i - Len(s)]
  BY <1>3, ConcatProperties
<1>5. Len(s) \in Nat /\ Len(t) \in Nat
  BY <1>3
<1>6. \A i \in 1..Len(s) : (s \o t)[i] = s[i]
  BY <1>4, <1>5
<1>7. ASSUME NEW i \in 1..Len(t) PROVE (s \o t)[Len(s) + i] = t[i]
  <2>1. Len(s) + i \in 1..(Len(s) + Len(t)) /\ ~(Len(s) + i <= Len(s)) /\ (Len(s) + i) - Len(s) = i
    BY <1>5
  <2> QED
    BY <1>4, <2>1
<1> QED
  BY <1>4, <1>5, <1>6, <1>7 DEF IsSeq

\* r is s, of length m, and then t, of length n.
Joins(r, s, m, t, n) ==
  /\ IsSeq(r) /\ Len(r) = m + n
  /\ \A i \in 1..m : r[i] = s[i]
  /\ \A i \in 1..n : r[m + i] = t[i]

\* The same in these terms.
LEMMA Behind ==
  ASSUME NEW s, NEW t, IsSeq(s), IsSeq(t)
  PROVE  Joins(s \o t, s, Len(s), t, Len(t))
<1>1. IsSeq(s \o t)
  BY ConcatIs
<1>2. Len(s \o t) = Len(s) + Len(t)
  BY ConcatIs
<1>3. ASSUME NEW i \in 1..Len(s) PROVE (s \o t)[i] = s[i]
  BY ConcatIs
<1>4. ASSUME NEW i \in 1..Len(t) PROVE (s \o t)[Len(s) + i] = t[i]
  BY ConcatIs
<1> QED
  BY <1>1, <1>2, <1>3, <1>4 DEF Joins

\* A sequence of numbers.
LEMMA IntSeq ==
  ASSUME NEW s \in Seq(Int)
  PROVE  IsSeq(s) /\ \A i \in 1..Len(s) : s[i] \in Int
  BY DEF IsSeq

ChainOf(first, n) ==
  [i \in 1..(IF n > 0 THEN n ELSE 1) |-> IF i < n THEN first + i ELSE End]

\* The chains of fat_write().
LEMMA ChainIs ==
  ASSUME NEW first \in Int, NEW n \in Nat, n >= 1
  PROVE  /\ ChainOf(first, n) \in Seq(Int) /\ Len(ChainOf(first, n)) = n
         /\ ChainOf(first, n)[n] = End
<1>1. ChainOf(first, n) = [i \in 1..n |-> IF i < n THEN first + i ELSE End]
  BY DEF ChainOf
<1> DEFINE s == [i \in 1..n |-> IF i < n THEN first + i ELSE End]
<1>2. s \in [1..n -> Int] /\ s[n] = End
  BY DEF End
<1> HIDE DEF s
<1>3. s \in Seq(Int)
  BY <1>2
<1>4. Len(s) = n
  BY <1>2, <1>3
<1> QED
  BY <1>1, <1>2, <1>3, <1>4 DEF s

\* The entries of the FAT: the last one is that of the root directory.
LEMMA FatEntriesAre ==
  ASSUME NEW p, IsParam(p), CheckSize(p)
  PROVE  /\ FatEntries(p) \in Seq(Int) /\ Len(FatEntries(p)) = Rt(p) + 1
         /\ FatEntries(p)[Rt(p) + 1] = End
<1> DEFINE b == Cb(p)
           u == Uc(p)
           h == <<-2, -3>>
           c == h \o ChainOf(2, b)
           t == c \o ChainOf(Len(c), u)
           r == t \o ChainOf(Len(t), 1)
<1>1. b \in Nat /\ u \in Nat /\ u >= 1 /\ b >= 1 /\ DivRoundUp(RootSize(p), p.cs) = 1
  <2>1. b \in Nat /\ u \in Nat /\ u >= 1 /\ CbmSize(p) \in Nat
        /\ CbmSize(p) = DivRoundUp(Cm(p) - Ca(p), 8)
        /\ Cm(p) - Ca(p) \in Nat /\ Ca(p) + b + u + 1 <= Cm(p) /\ Ca(p) \in Nat /\ Cm(p) \in Nat
    BY Objects, CbmPosIs
  <2>2. p.cs \in Nat /\ p.cs >= 1
    BY ParamSizes
  <2>3. CbmSize(p) >= 1
    <3>1. Cm(p) - Ca(p) >= 1
      BY <2>1
    <3> QED
      BY <2>1, <3>1, CeilBounds
  <2>4. b >= 1
    BY <2>1, <2>2, <2>3, CeilBounds DEF Cb
  <2>5. DivRoundUp(p.cs, p.cs) = 1
    <3>1. p.cs <= 1 * p.cs /\ 1 * p.cs < p.cs + p.cs
      BY <2>2
    <3> QED
      BY <2>2, <3>1, CeilIs
  <2> QED
    BY <2>1, <2>4, <2>5 DEF RootSize
<1>2. FatEntries(p) = r
  BY <1>1 DEF FatEntries, ChainOf, Cb, Uc, FirstDataCluster
<1>3. h \in Seq(Int) /\ Len(h) = 2
  OBVIOUS
<1> HIDE DEF h, b, u
<1> DEFINE x == ChainOf(2, b)
<1>4. c \in Seq(Int) /\ Len(c) = 2 + b
  <2>1. x \in Seq(Int) /\ Len(x) = b
    BY <1>1, ChainIs
  <2> HIDE DEF x
  <2>2. h \o x \in Seq(Int) /\ Len(h \o x) = Len(h) + Len(x)
    BY <1>3, <2>1, ConcatProperties, Zenon
  <2>3. c = h \o x
    BY DEF x
  <2> HIDE DEF c
  <2> QED
    BY <1>3, <2>1, <2>2, <2>3
<1> HIDE DEF c
<1> DEFINE y == ChainOf(Len(c), u)
<1>5. t \in Seq(Int) /\ Len(t) = 2 + b + u
  <2>1. Len(c) \in Int
    BY <1>1, <1>4
  <2>2. y \in Seq(Int) /\ Len(y) = u
    BY <1>1, <2>1, ChainIs
  <2> HIDE DEF y
  <2>3. c \o y \in Seq(Int) /\ Len(c \o y) = Len(c) + Len(y)
    BY <1>4, <2>2, ConcatProperties, Zenon
  <2>4. t = c \o y
    BY DEF y
  <2> HIDE DEF t
  <2> QED
    BY <1>1, <1>4, <2>2, <2>3, <2>4
<1> HIDE DEF t
<1>6. r \in Seq(Int) /\ Len(r) = 3 + b + u /\ r[3 + b + u] = End
  <2> DEFINE l == ChainOf(Len(t), 1)
  <2>1. Len(t) \in Int
    BY <1>1, <1>5
  <2>2. l \in Seq(Int) /\ Len(l) = 1 /\ l[1] = End
    <3> DEFINE one == 1
               z == Len(t)
    <3>1. one \in Nat /\ one >= 1 /\ z \in Int
      BY <2>1
    <3> HIDE DEF one, z
    <3>2. ChainOf(z, one) \in Seq(Int) /\ Len(ChainOf(z, one)) = one /\ ChainOf(z, one)[one] = End
      BY <3>1, ChainIs
    <3> QED
      BY <3>2 DEF one, z
  <2>3. r = t \o l
    OBVIOUS
  <2> HIDE DEF l, r
  <2>4. r \in Seq(Int)
    BY <1>5, <2>2, <2>3, ConcatProperties, Zenon
  <2>5. IsSeq(t) /\ IsSeq(l)
    BY <1>5, <2>2, IntSeq
  <2>6. Joins(t \o l, t, Len(t), l, Len(l))
    BY <2>5, Behind
  <2>7. Joins(r, t, 2 + b + u, l, 1)
    BY <1>5, <2>2, <2>3, <2>6
  <2>8. (2 + b + u) + 1 = 3 + b + u /\ 1 \in 1..1
    BY <1>1
  <2> QED
    BY <2>2, <2>4, <2>7, <2>8 DEF Joins
<1>7. Rt(p) + 1 = 3 + b + u
  BY <1>1 DEF Rt, b, u
<1> QED
  BY <1>2, <1>6, <1>7

VbrBody(p) ==
  LET n == p.ss \div UnitBytes
      sector(last) == [i \in 1..n |-> IF i = n THEN last ELSE Zero]
  IN  [i \in 1..10 |-> sector(IF i <= 8 THEN [k |-> "boot", c |-> <<>>] ELSE Zero)]

VbrSum(p) ==
  LET n == p.ss \div UnitBytes IN
  VbrChecksum(InitSb(p), [u \in 1..(10 * n) |->
                            VbrBody(p)[((u - 1) \div n) + 1][((u - 1) % n) + 1]])

VbrTail(p, at) ==
  LET n == p.ss \div UnitBytes
      sectors == Append(VbrBody(p), [i \in 1..n |-> Only("sum", 0, VbrSum(p))])
  IN  [i \in 1..11 |-> Whole(Unit(at) + 1 + (i - 1) * n, sectors[i])]

\* vbr_write(): the super block and eleven sectors.
LEMMA VbrParts ==
  ASSUME NEW p, NEW at
  PROVE  VbrWrite(p, at) = <<Whole(Unit(at), <<Only("sb", 0, InitSb(p))>>)>> \o VbrTail(p, at)
  BY DEF VbrWrite, VbrTail, VbrSum, VbrBody

\* The writes, object by object.
LEMMA WritesAre ==
  ASSUME NEW p, IsParam(p), CheckSize(p)
  PROVE  /\ IsSeq(Writes(p)) /\ Len(Writes(p)) = Rt(p) + 36 /\ Rt(p) \in Nat
         /\ \A i \in 1..6 : Writes(p)[i] = EraseObject(Layout(p)[i])
         /\ \A i \in 1..12 : Writes(p)[6 + i] = VbrWrite(p, 0)[i]
         /\ \A i \in 1..12 : Writes(p)[18 + i] = VbrWrite(p, VbrSize(p))[i]
         /\ \A i \in 1..(Rt(p) + 1) : Writes(p)[30 + i] = FatWrite(p)[i]
         /\ Writes(p)[Rt(p) + 32] = CbmWrite(p)[1]
         /\ Writes(p)[Rt(p) + 33] = UctWrite(p)[1]
         /\ \A i \in 1..3 : Writes(p)[Rt(p) + 33 + i] = RootWrite(p)[i]
<1> DEFINE n == Rt(p) + 1
           E == Erase(p)
           V == VbrWrite(p, 0)
           W == VbrWrite(p, VbrSize(p))
           F == FatWrite(p)
           C == CbmWrite(p)
           U == UctWrite(p)
           R == RootWrite(p)
<1>1. Rt(p) \in Nat
  BY RootInFat
<1>2. IsSeq(E) /\ Len(E) = 6 /\ \A i \in 1..6 : E[i] = EraseObject(Layout(p)[i])
  <2>1. DOMAIN Layout(p) = 1..6
    BY DEF Layout
  <2>2. DOMAIN E = 1..6 /\ E = [i \in 1..6 |-> EraseObject(Layout(p)[i])]
    BY <2>1 DEF Erase
  <2>3. \A i \in 1..6 : E[i] = EraseObject(Layout(p)[i])
    BY <2>2
  <2>4. E = [i \in 1..6 |-> E[i]]
    BY <2>2
  <2> HIDE DEF E
  <2> QED
    BY <2>2, <2>3, <2>4, FunSeq
<1>3. ASSUME NEW at PROVE IsSeq(VbrWrite(p, at)) /\ Len(VbrWrite(p, at)) = 12
  <2> DEFINE x == Whole(Unit(at), <<Only("sb", 0, InitSb(p))>>)
             y == VbrTail(p, at)
  <2>1. VbrWrite(p, at) = <<x>> \o y
    BY VbrParts
  <2>2. IsSeq(y) /\ Len(y) = 11
    <3>1. DOMAIN y = 1..11 /\ y = [i \in 1..11 |-> y[i]]
      BY DEF VbrTail
    <3> HIDE DEF y
    <3> QED
      BY <3>1, FunSeq
  <2> HIDE DEF x, y
  <2>3. IsSeq(<<x>>) /\ Len(<<x>>) = 1
    <3>1. <<x>> \in Seq({x})
      OBVIOUS
    <3> QED
      BY <3>1 DEF IsSeq
  <2>4. IsSeq(<<x>> \o y)
    BY <2>2, <2>3, ConcatIs
  <2>5. Len(<<x>> \o y) = Len(<<x>>) + Len(y)
    BY <2>2, <2>3, ConcatIs
  <2> QED
    BY <2>1, <2>2, <2>3, <2>4, <2>5
<1>4. IsSeq(V) /\ Len(V) = 12 /\ IsSeq(W) /\ Len(W) = 12
  BY <1>3
<1>5. IsSeq(F) /\ Len(F) = n
  <2>1. DOMAIN FatEntries(p) = 1..n
    <3>1. FatEntries(p) \in Seq(Int) /\ Len(FatEntries(p)) = n
      BY FatEntriesAre
    <3> QED
      BY <3>1
  <2>2. DOMAIN F = 1..n /\ F = [i \in 1..n |-> F[i]]
    BY <2>1 DEF FatWrite
  <2>3. n \in Nat
    BY <1>1
  <2> HIDE DEF F, n
  <2> QED
    BY <2>2, <2>3, FunSeq
<1>6. IsSeq(C) /\ Len(C) = 1 /\ IsSeq(U) /\ Len(U) = 1
  <2>1. PICK x : C = <<x>>
    BY DEF CbmWrite
  <2>2. PICK y : U = <<y>>
    BY DEF UctWrite
  <2>3. <<x>> \in Seq({x}) /\ <<y>> \in Seq({y})
    OBVIOUS
  <2> QED
    BY <2>1, <2>2, <2>3 DEF IsSeq
<1>7. IsSeq(R) /\ Len(R) = 3
  <2>1. DOMAIN R = 1..3 /\ R = [i \in 1..3 |-> R[i]]
    BY DEF RootWrite
  <2> HIDE DEF R
  <2> QED
    BY <2>1, FunSeq
<1>8. Writes(p) = E \o (((((V \o W) \o F) \o C) \o U) \o R)
  BY DEF Writes, Create
<1> HIDE DEF E, V, W, F, C, U, R
<1> DEFINE s2 == V \o W
           s3 == s2 \o F
           s4 == s3 \o C
           s5 == s4 \o U
           s6 == s5 \o R
<1>9. n \in Nat
  BY <1>1
<1> HIDE DEF n
<1>10. /\ IsSeq(s2) /\ Len(s2) = 24 /\ \A i \in 1..(12) : s2[i] = V[i]
       /\ \A i \in 1..(12) : s2[12 + i] = W[i]
  <2>1. s2 = V \o W
    OBVIOUS
  <2>2. (12) + (12) = 24
    BY <1>9
  <2> HIDE DEF s2
  <2>3. Joins(V \o W, V, Len(V), W, Len(W))
    BY <1>4, Behind
  <2>4. Joins(s2, V, 12, W, 12)
    BY <1>4, <2>1, <2>3
  <2> QED
    BY <2>2, <2>4 DEF Joins
<1> HIDE DEF s2
<1>11. /\ IsSeq(s3) /\ Len(s3) = 24 + n /\ \A i \in 1..(24) : s3[i] = s2[i]
       /\ \A i \in 1..(n) : s3[24 + i] = F[i]
  <2>1. s3 = s2 \o F
    OBVIOUS
  <2>2. (24) + (n) = 24 + n
    BY <1>9
  <2> HIDE DEF s3
  <2>3. Joins(s2 \o F, s2, Len(s2), F, Len(F))
    BY <1>5, <1>10, Behind
  <2>4. Joins(s3, s2, 24, F, n)
    BY <1>5, <1>10, <2>1, <2>3
  <2> QED
    BY <2>2, <2>4 DEF Joins
<1> HIDE DEF s3
<1>12. /\ IsSeq(s4) /\ Len(s4) = 25 + n /\ \A i \in 1..(24 + n) : s4[i] = s3[i]
       /\ \A i \in 1..(1) : s4[24 + n + i] = C[i]
  <2>1. s4 = s3 \o C
    OBVIOUS
  <2>2. (24 + n) + (1) = 25 + n
    BY <1>9
  <2> HIDE DEF s4
  <2>3. Joins(s3 \o C, s3, Len(s3), C, Len(C))
    BY <1>6, <1>11, Behind
  <2>4. Joins(s4, s3, 24 + n, C, 1)
    BY <1>6, <1>11, <2>1, <2>3
  <2> QED
    BY <2>2, <2>4 DEF Joins
<1> HIDE DEF s4
<1>13. /\ IsSeq(s5) /\ Len(s5) = 26 + n /\ \A i \in 1..(25 + n) : s5[i] = s4[i]
       /\ \A i \in 1..(1) : s5[25 + n + i] = U[i]
  <2>1. s5 = s4 \o U
    OBVIOUS
  <2>2. (25 + n) + (1) = 26 + n
    BY <1>9
  <2> HIDE DEF s5
  <2>3. Joins(s4 \o U, s4, Len(s4), U, Len(U))
    BY <1>6, <1>12, Behind
  <2>4. Joins(s5, s4, 25 + n, U, 1)
    BY <1>6, <1>12, <2>1, <2>3
  <2> QED
    BY <2>2, <2>4 DEF Joins
<1> HIDE DEF s5
<1>14. /\ IsSeq(s6) /\ Len(s6) = 29 + n /\ \A i \in 1..(26 + n) : s6[i] = s5[i]
       /\ \A i \in 1..(3) : s6[26 + n + i] = R[i]
  <2>1. s6 = s5 \o R
    OBVIOUS
  <2>2. (26 + n) + (3) = 29 + n
    BY <1>9
  <2> HIDE DEF s6
  <2>3. Joins(s5 \o R, s5, Len(s5), R, Len(R))
    BY <1>7, <1>13, Behind
  <2>4. Joins(s6, s5, 26 + n, R, 3)
    BY <1>7, <1>13, <2>1, <2>3
  <2> QED
    BY <2>2, <2>4 DEF Joins
<1> HIDE DEF s6
<1> DEFINE X == E \o s6
<1>0. X = E \o s6
  OBVIOUS
<1>15. /\ IsSeq(X) /\ Len(X) = 35 + n /\ \A i \in 1..(6) : X[i] = E[i]
       /\ \A i \in 1..(29 + n) : X[6 + i] = s6[i]
  <2>1. X = E \o s6
    OBVIOUS
  <2>2. (6) + (29 + n) = 35 + n
    BY <1>9
  <2> HIDE DEF X
  <2>3. Joins(E \o s6, E, Len(E), s6, Len(s6))
    BY <1>2, <1>14, Behind
  <2>4. Joins(X, E, 6, s6, 29 + n)
    BY <1>2, <1>14, <2>1, <2>3
  <2> QED
    BY <2>2, <2>4 DEF Joins
<1> HIDE DEF X
<1>16. Writes(p) = X
  BY <1>8, <1>0 DEF s2, s3, s4, s5, s6
<1>17. /\ \A i \in 1..12 : X[6 + i] = V[i]
       /\ \A i \in 1..12 : X[18 + i] = W[i]
  <2>1. ASSUME NEW i \in 1..24 PROVE X[6 + i] = s2[i]
    <3>1. i \in 1..(24 + n) /\ i \in 1..(25 + n) /\ i \in 1..(26 + n) /\ i \in 1..(29 + n)
      BY <1>9
    <3>2. X[6 + i] = s6[i]
      BY <1>15, <3>1
    <3>3. s6[i] = s5[i] /\ s5[i] = s4[i] /\ s4[i] = s3[i] /\ s3[i] = s2[i]
      BY <1>11, <1>12, <1>13, <1>14, <3>1
    <3> QED
      BY <3>2, <3>3
  <2>2. \A i \in 1..12 : X[6 + i] = V[i]
    BY <1>10, <2>1
  <2>3. ASSUME NEW i \in 1..12 PROVE X[18 + i] = W[i]
    <3>1. 12 + i \in 1..24 /\ 6 + (12 + i) = 18 + i
      OBVIOUS
    <3> QED
      BY <1>10, <2>1, <3>1
  <2> QED
    BY <2>2, <2>3
<1>18. ASSUME NEW i \in 1..n PROVE X[30 + i] = F[i]
  <2> DEFINE j == 24 + i
  <2>1. j \in 1..(24 + n) /\ j \in 1..(29 + n) /\ 6 + j = 30 + i
        /\ j \in 1..(25 + n) /\ j \in 1..(26 + n) /\ s3[j] = s3[24 + i]
    BY <1>9
  <2> HIDE DEF j
  <2>2. X[30 + i] = s6[j] /\ s6[j] = s5[j] /\ s5[j] = s4[j] /\ s4[j] = s3[j]
    BY <1>12, <1>13, <1>14, <1>15, <2>1
  <2> QED
    BY <1>11, <2>1, <2>2
<1>19. X[31 + n] = C[1] /\ X[32 + n] = U[1]
  <2>1. 6 + (25 + n) = 31 + n /\ 6 + (26 + n) = 32 + n
        /\ 25 + n \in 1..(29 + n) /\ 25 + n \in 1..(25 + n) /\ 25 + n \in 1..(26 + n)
        /\ 26 + n \in 1..(29 + n) /\ 26 + n \in 1..(26 + n)
        /\ 24 + n + 1 = 25 + n /\ 25 + n + 1 = 26 + n /\ 1 \in 1..1
    BY <1>9
  <2>2. X[31 + n] = s6[25 + n] /\ X[32 + n] = s6[26 + n]
    BY <1>15, <2>1
  <2>3. s6[25 + n] = s5[25 + n] /\ s6[26 + n] = s5[26 + n]
    BY <1>14, <2>1
  <2>4. s5[25 + n] = s4[25 + n] /\ s5[25 + n + 1] = U[1]
    BY <1>13, <2>1
  <2>5. s4[24 + n + 1] = C[1]
    BY <1>12, <2>1
  <2> QED
    BY <2>1, <2>2, <2>3, <2>4, <2>5
<1>20. ASSUME NEW i \in 1..3 PROVE X[32 + n + i] = R[i]
  <2>1. 26 + n + i \in 1..(29 + n) /\ 6 + (26 + n + i) = 32 + n + i
    BY <1>9
  <2> QED
    BY <1>14, <1>15, <2>1
<1>21. /\ 35 + n = Rt(p) + 36 /\ 31 + n = Rt(p) + 32 /\ 32 + n = Rt(p) + 33 /\ n = Rt(p) + 1
       /\ \A i \in 1..3 : 32 + n + i = Rt(p) + 33 + i
  BY <1>1 DEF n
<1> QED
  BY <1>1, <1>2, <1>15, <1>16, <1>17, <1>18, <1>19, <1>20, <1>21 DEF E, V, W, F, C, U, R

-----------------------------------------------------------------------------
(* What a write does *)

WriteTyped(w) ==
  /\ w.u \in Nat /\ Len(w.data) \in Nat
  /\ \A i \in 1..Len(w.data) :
       /\ UnitTyped(w.data[i])
       /\ w.data[i] = [k |-> w.data[i].k, c |-> w.data[i].c]
       /\ w.data[i].k = "sb" => w.whole /\ IsSuper(w.data[i].c[0])

\* What new makes of the unit x.
Put(w, x, new) ==
  IF w.whole \/ x.k # new.k THEN new ELSE [new EXCEPT !.c = Over(new.c, x.c)]

\* A write changes the units that it reaches,
LEMMA ApplyOn ==
  ASSUME NEW d, NEW w, NEW n, NEW u \in DOMAIN d, u \in w.u..(w.u + n - 1)
  PROVE  Apply(d, w, n)[u] = Put(w, d[u], w.data[u - w.u + 1])
  BY DEF Apply, Put

\* and no other.
LEMMA ApplyOff ==
  ASSUME NEW d, NEW w, NEW n
  PROVE  /\ DOMAIN Apply(d, w, n) = DOMAIN d
         /\ \A u \in DOMAIN d : u \notin w.u..(w.u + n - 1) => Apply(d, w, n)[u] = d[u]
  BY DEF Apply

\* The cells of a unit that is written in part.
LEMMA OverTyped ==
  ASSUME NEW x, NEW y, UnitTyped(x), UnitTyped(y), x.k = y.k, x = [k |-> x.k, c |-> x.c]
  PROVE  UnitTyped([x EXCEPT !.c = Over(x.c, y.c)])
<1> DEFINE z == [x EXCEPT !.c = Over(x.c, y.c)]
<1>1. z.k = x.k /\ z.c = Over(x.c, y.c)
  OBVIOUS
<1>2. DOMAIN z.c = DOMAIN x.c \cup DOMAIN y.c
  BY <1>1 DEF Over
<1>3. \A i \in DOMAIN z.c : z.c[i] = IF i \in DOMAIN x.c THEN x.c[i] ELSE y.c[i]
  BY <1>1 DEF Over
<1>4. ASSUME NEW i \in DOMAIN z.c
      PROVE  \/ i \in DOMAIN x.c /\ z.c[i] = x.c[i]
             \/ i \in DOMAIN y.c /\ z.c[i] = y.c[i]
  BY <1>2, <1>3
<1> HIDE DEF z
<1>5. z.k = "fat" => \A i \in DOMAIN z.c : z.c[i] \in Int
  BY <1>1, <1>4 DEF UnitTyped
<1>6. z.k = "dir" => \A i \in DOMAIN z.c :
        z.c[i].start_cluster \in Int /\ (z.c[i].type = "file" => z.c[i].start_cluster >= 2)
  BY <1>1, <1>4 DEF UnitTyped
<1>7. UnitTyped(z)
  BY <1>5, <1>6 DEF UnitTyped
<1> QED
  BY <1>7 DEF z

\* A write leaves a device.
LEMMA ApplyDevice ==
  ASSUME NEW d, Device(d), NEW w, WriteTyped(w), NEW n \in 0..Len(w.data)
  PROVE  Device(Apply(d, w, n))
<1> DEFINE e == Apply(d, w, n)
<1>1. DOMAIN e = DOMAIN d /\ e = [u \in DOMAIN e |-> e[u]]
  BY DEF Apply
<1>2. PICK size \in Nat : size > 0 /\ DOMAIN d = 0..(size - 1)
  BY DEF Device
<1>3. w.u \in Nat /\ Len(w.data) \in Nat
  BY DEF WriteTyped
<1>4. ASSUME NEW u \in DOMAIN d
      PROVE  \/ e[u] = d[u]
             \/ \E i \in 1..Len(w.data) : e[u] = w.data[i]
             \/ \E i \in 1..Len(w.data) :
                  /\ ~w.whole /\ d[u].k = w.data[i].k
                  /\ e[u] = [w.data[i] EXCEPT !.c = Over(w.data[i].c, d[u].c)]
  <2>1. CASE u \notin w.u..(w.u + n - 1)
    <3>1. e[u] = d[u]
      BY <2>1, ApplyOff
    <3> QED
      BY <3>1
  <2>2. CASE u \in w.u..(w.u + n - 1)
    <3>1. u - w.u + 1 \in 1..Len(w.data)
      BY <1>2, <1>3, <2>2
    <3>2. e[u] = Put(w, d[u], w.data[u - w.u + 1])
      BY <2>2, ApplyOn
    <3> HIDE DEF e
    <3> QED
      BY <3>1, <3>2 DEF Put
  <2> QED
    BY <2>1, <2>2
<1> HIDE DEF e
<1>5. ASSUME NEW u \in DOMAIN d PROVE UnitTyped(e[u])
  <2>1. CASE e[u] = d[u]
    BY <2>1 DEF Device, CellsTyped
  <2>2. CASE \E i \in 1..Len(w.data) : e[u] = w.data[i]
    BY <2>2 DEF WriteTyped
  <2>3. ASSUME NEW i \in 1..Len(w.data), d[u].k = w.data[i].k,
               e[u] = [w.data[i] EXCEPT !.c = Over(w.data[i].c, d[u].c)]
        PROVE  UnitTyped(e[u])
    <3>1. UnitTyped(w.data[i]) /\ UnitTyped(d[u])
          /\ w.data[i] = [k |-> w.data[i].k, c |-> w.data[i].c]
      BY DEF WriteTyped, Device, CellsTyped
    <3> QED
      BY <2>3, <3>1, OverTyped
  <2> QED
    BY <1>4, <2>1, <2>2, <2>3
<1>6. e[0].k = "sb" => IsSuper(Super(e))
  <2> SUFFICES ASSUME e[0].k = "sb" PROVE IsSuper(e[0].c[0])
    BY DEF Super
  <2>1. 0 \in DOMAIN d
    BY <1>2
  <2>2. CASE e[0] = d[0]
    BY <2>2 DEF Device, Super
  <2>3. CASE \E i \in 1..Len(w.data) : e[0] = w.data[i]
    BY <2>3 DEF WriteTyped
  <2>4. ASSUME NEW i \in 1..Len(w.data), ~w.whole,
               e[0] = [w.data[i] EXCEPT !.c = Over(w.data[i].c, d[0].c)]
        PROVE  FALSE
    <3>1. w.data[i] = [k |-> w.data[i].k, c |-> w.data[i].c] /\ w.data[i].k # "sb"
      BY <2>4 DEF WriteTyped
    <3>2. e[0].k = w.data[i].k
      BY <2>4, <3>1
    <3> QED
      BY <3>1, <3>2
  <2> QED
    BY <1>4, <2>1, <2>2, <2>3, <2>4
<1>7. CellsTyped(e)
  BY <1>1, <1>5 DEF CellsTyped
<1>8. Device(e)
  BY <1>1, <1>2, <1>6, <1>7 DEF Device
<1> QED
  BY <1>8 DEF e

Ob0(p) == <<0, 12 * Su(p), 128 * Su(p), Cbm0(p), Uct0(p), Root0(p)>>
ObUnits(p) == <<12 * Su(p), 12 * Su(p), FatUnits(p), CbmUnits(p), 12, Cu(p)>>

EraseAt(p, i, w) ==
  /\ w.whole = TRUE /\ w.u = Ob0(p)[i] /\ Len(w.data) = ObUnits(p)[i]
  /\ \A j \in 1..Len(w.data) : w.data[j] = Zero

\* erase_object().
LEMMA EraseIs ==
  ASSUME NEW p, IsParam(p), CheckSize(p), NEW i \in 1..6,
         NEW w, w = EraseObject(Layout(p)[i])
  PROVE  EraseAt(p, i, w) /\ WriteTyped(w)
<1> DEFINE o == Layout(p)[i]
<1>1. Unit(o[1]) = Ob0(p)[i] /\ DivRoundUp(o[2], UnitBytes) = ObUnits(p)[i]
      /\ Ob0(p)[i] \in Nat /\ ObUnits(p)[i] \in Nat
  <2>1. i = 1 \/ i = 2 \/ i = 3 \/ i = 4 \/ i = 5 \/ i = 6
    OBVIOUS
  <2>2. /\ Unit(0) = 0 /\ Unit(VbrSize(p)) = 12 * Su(p)
        /\ Unit(FatPos(p)) = 128 * Su(p) /\ Unit(CbmPos(p)) = Cbm0(p)
        /\ Unit(UctPos(p)) = Uct0(p) /\ Unit(RootPos(p)) = Root0(p)
        /\ DivRoundUp(VbrSize(p), UnitBytes) = 12 * Su(p)
        /\ DivRoundUp(UctSize, UnitBytes) = 12
        /\ DivRoundUp(RootSize(p), UnitBytes) = Cu(p)
        /\ DivRoundUp(FatSize(p), UnitBytes) = FatUnits(p)
        /\ DivRoundUp(CbmSize(p), UnitBytes) = CbmUnits(p)
    BY Starts DEF FatUnits, CbmUnits
  <2>3. /\ 0 \in Nat /\ 12 \in Nat /\ 12 * Su(p) \in Nat /\ 128 * Su(p) \in Nat /\ Cbm0(p) \in Nat
        /\ Uct0(p) \in Nat /\ Root0(p) \in Nat /\ FatUnits(p) \in Nat /\ CbmUnits(p) \in Nat
        /\ Cu(p) \in Nat
    BY ParamSizes, Regions
  <2>4. CASE i = 1
    BY <2>2, <2>3, <2>4 DEF Layout, Ob0, ObUnits
  <2>5. CASE i = 2
    BY <2>2, <2>3, <2>5 DEF Layout, Ob0, ObUnits
  <2>6. CASE i = 3
    BY <2>2, <2>3, <2>6 DEF Layout, Ob0, ObUnits
  <2>7. CASE i = 4
    BY <2>2, <2>3, <2>7 DEF Layout, Ob0, ObUnits
  <2>8. CASE i = 5
    BY <2>2, <2>3, <2>8 DEF Layout, Ob0, ObUnits
  <2>9. CASE i = 6
    BY <2>2, <2>3, <2>9 DEF Layout, Ob0, ObUnits
  <2> QED
    BY <2>1, <2>4, <2>5, <2>6, <2>7, <2>8, <2>9
<1>2. w = [u |-> Unit(o[1]), data |-> [j \in 1..DivRoundUp(o[2], UnitBytes) |-> Zero],
           whole |-> TRUE]
  BY DEF EraseObject, Whole
<1> HIDE DEF o
<1> DEFINE n == ObUnits(p)[i]
           z == [j \in 1..n |-> Zero]
<1>3. w.u = Ob0(p)[i] /\ w.whole = TRUE /\ w.data = z
  BY <1>1, <1>2
<1>4. Len(w.data) = n
  <2>1. DOMAIN z = 1..n /\ z = [j \in 1..n |-> z[j]]
    OBVIOUS
  <2>2. n \in Nat
    BY <1>1
  <2> HIDE DEF z, n
  <2> QED
    BY <1>3, <2>1, <2>2, FunSeq
<1>5. \A j \in 1..n : w.data[j] = Zero
  BY <1>3
<1> HIDE DEF z, n
<1>6. UnitTyped(Zero) /\ Zero = [k |-> Zero.k, c |-> Zero.c] /\ Zero.k # "sb"
  BY DEF UnitTyped, Zero
<1>7. WriteTyped(w)
  BY <1>1, <1>3, <1>4, <1>5, <1>6 DEF WriteTyped, n
<1> QED
  BY <1>1, <1>3, <1>4, <1>5, <1>7 DEF n, EraseAt

\* vbr_write(): first the super block, in one unit,
LEMMA VbrFirst ==
  ASSUME NEW p, IsParam(p), CheckSize(p), NEW at, Unit(at) \in Nat,
         NEW w, w = VbrWrite(p, at)[1]
  PROVE  /\ w.whole = TRUE /\ w.u = Unit(at) /\ Len(w.data) = 1
         /\ w.data[1] = Only("sb", 0, InitSb(p)) /\ WriteTyped(w)
<1> DEFINE x == Whole(Unit(at), <<Only("sb", 0, InitSb(p))>>)
           y == VbrTail(p, at)
<1>1. VbrWrite(p, at) = <<x>> \o y
  BY VbrParts
<1>2. IsSeq(y)
  <2>1. DOMAIN y = 1..11 /\ y = [i \in 1..11 |-> y[i]]
    BY DEF VbrTail
  <2> HIDE DEF y
  <2> QED
    BY <2>1, FunSeq
<1> HIDE DEF x, y
<1>3. IsSeq(<<x>>) /\ Len(<<x>>) = 1
  <2>1. <<x>> \in Seq({x})
    OBVIOUS
  <2> QED
    BY <2>1 DEF IsSeq
<1>4. Joins(<<x>> \o y, <<x>>, Len(<<x>>), y, Len(y))
  BY <1>2, <1>3, Behind
<1>5. w = x
  <2>1. 1 \in 1..Len(<<x>>) /\ <<x>>[1] = x
    BY <1>3
  <2> QED
    BY <1>1, <1>4, <2>1 DEF Joins
<1>6. w.whole = TRUE /\ w.u = Unit(at) /\ w.data = <<Only("sb", 0, InitSb(p))>>
  BY <1>5 DEF x, Whole
<1> DEFINE o == Only("sb", 0, InitSb(p))
<1>7. o.k = "sb" /\ o.c[0] = InitSb(p) /\ o = [k |-> o.k, c |-> o.c]
  BY DEF Only, Cell
<1>8. IsSuper(InitSb(p))
  BY TheSuper
<1>9. w.data = <<o>>
  BY <1>6
<1> HIDE DEF o
<1>10. Len(w.data) = 1 /\ w.data[1] = o
  BY <1>9
<1>11. UnitTyped(o)
  BY <1>7 DEF UnitTyped
<1>12. WriteTyped(w)
  BY <1>6, <1>7, <1>8, <1>10, <1>11 DEF WriteTyped
<1> QED
  BY <1>6, <1>10, <1>12 DEF o

\* The units that the sectors behind it have.
VbrUnit(p, i) ==
  IF i = 11 THEN Only("sum", 0, VbrSum(p))
  ELSE IF i <= 8 THEN [k |-> "boot", c |-> <<>>] ELSE Zero

VbrAt(p, at, i, w) ==
  /\ w.whole = TRUE /\ w.u = Unit(at) + 1 + (i - 1) * Su(p) /\ Len(w.data) = Su(p)
  /\ Su(p) = 1 => w.data[1] = VbrUnit(p, i)

\* then the sectors.
LEMMA VbrNext ==
  ASSUME NEW p, IsParam(p), CheckSize(p), NEW at, Unit(at) \in Nat, NEW i \in 1..11,
         NEW w, w = VbrWrite(p, at)[i + 1]
  PROVE  VbrAt(p, at, i, w) /\ WriteTyped(w)
<1> DEFINE x == Whole(Unit(at), <<Only("sb", 0, InitSb(p))>>)
           y == VbrTail(p, at)
           s == Su(p)
<1>1. VbrWrite(p, at) = <<x>> \o y
  BY VbrParts
<1>2. IsSeq(y) /\ Len(y) = 11
  <2>1. DOMAIN y = 1..11 /\ y = [j \in 1..11 |-> y[j]]
    BY DEF VbrTail
  <2> HIDE DEF y
  <2> QED
    BY <2>1, FunSeq
<1> HIDE DEF x, y
<1>3. IsSeq(<<x>>) /\ Len(<<x>>) = 1
  <2>1. <<x>> \in Seq({x})
    OBVIOUS
  <2> QED
    BY <2>1 DEF IsSeq
<1>4. w = y[i]
  <2>1. Joins(<<x>> \o y, <<x>>, Len(<<x>>), y, Len(y))
    BY <1>2, <1>3, Behind
  <2>2. Joins(<<x>> \o y, <<x>>, 1, y, 11)
    BY <1>2, <1>3, <2>1
  <2>3. 1 + i = i + 1
    OBVIOUS
  <2> QED
    BY <1>1, <2>2, <2>3 DEF Joins
<1>5. s \in {1, 2, 4, 8} /\ p.ss \div UnitBytes = s
  <2>1. s \in {1, 2, 4, 8} /\ p.ss = 512 * s
    BY ParamSizes
  <2> HIDE DEF s
  <2>2. (512 * s) \div 512 = s
    BY <2>1
  <2> QED
    BY <2>1, <2>2 DEF UnitBytes
<1> DEFINE last == [j \in 1..s |-> Only("sum", 0, VbrSum(p))]
           g(z) == [j \in 1..s |-> IF j = s THEN z ELSE Zero]
           B == VbrBody(p)
           D == Append(B, last)[i]
<1>6. w = Whole(Unit(at) + 1 + (i - 1) * s, D)
  BY <1>4, <1>5 DEF VbrTail, y
<1>7. w.whole = TRUE /\ w.u = Unit(at) + 1 + (i - 1) * s /\ w.data = D
  <2> DEFINE a == Unit(at) + 1 + (i - 1) * s
  <2> HIDE DEF D, a
  <2> QED
    BY <1>6 DEF Whole, a
<1>8. B = [j \in 1..10 |-> g(IF j <= 8 THEN [k |-> "boot", c |-> <<>>] ELSE Zero)]
  BY <1>5 DEF VbrBody
<1>9. IsSeq(B) /\ Len(B) = 10
  <2>1. DOMAIN B = 1..10 /\ B = [j \in 1..10 |-> B[j]]
    BY <1>8
  <2> HIDE DEF B
  <2> QED
    BY <2>1, FunSeq
<1>10. D = IF i = 11 THEN last ELSE B[i]
  <2> HIDE DEF B, last
  <2>1. PICK S : B \in Seq(S)
    BY <1>9 DEF IsSeq
  <2>2. B \in Seq(S \cup {last}) /\ last \in S \cup {last}
    BY <2>1
  <2> DEFINE T == S \cup {last}
  <2>3. B \in Seq(T) /\ last \in T
    BY <2>2
  <2> HIDE DEF T
  <2>4. \A j \in 1..(Len(B) + 1) : Append(B, last)[j] = IF j <= Len(B) THEN B[j] ELSE last
    BY <2>3
  <2>5. i \in 1..(Len(B) + 1) /\ (i = 11 <=> ~(i <= Len(B)))
    BY <1>9
  <2> QED
    BY <2>4, <2>5
<1>11. DOMAIN D = 1..s /\ D = [j \in 1..s |-> D[j]]
       /\ \A j \in 1..s : D[j] \in {Zero, [k |-> "boot", c |-> <<>>], Only("sum", 0, VbrSum(p))}
       /\ (s = 1 => D[1] = VbrUnit(p, i))
  <2>1. CASE i = 11
    <3>1. D = last
      BY <1>10, <2>1
    <3> HIDE DEF D
    <3> QED
      BY <1>5, <2>1, <3>1 DEF VbrUnit
  <2>2. CASE i # 11
    <3> DEFINE z == IF i <= 8 THEN [k |-> "boot", c |-> <<>>] ELSE Zero
    <3>1. D = g(z)
      <4>1. i \in 1..10
        BY <2>2
      <4>2. D = B[i]
        BY <1>10, <2>2
      <4> HIDE DEF B, D, g
      <4> QED
        BY <1>8, <4>1, <4>2
    <3>2. VbrUnit(p, i) = z
      BY <2>2 DEF VbrUnit
    <3>3. z \in {Zero, [k |-> "boot", c |-> <<>>]}
      OBVIOUS
    <3> HIDE DEF D, z
    <3> QED
      BY <1>5, <3>1, <3>2, <3>3
  <2> QED
    BY <2>1, <2>2
<1> HIDE DEF D, s
<1>12. Len(w.data) = s
  BY <1>5, <1>7, <1>11, FunSeq
<1>13. ASSUME NEW v \in {Zero, [k |-> "boot", c |-> <<>>], Only("sum", 0, VbrSum(p))}
       PROVE  UnitTyped(v) /\ v = [k |-> v.k, c |-> v.c] /\ v.k # "sb"
  <2>1. v.k \in {"zero", "boot", "sum"} /\ v = [k |-> v.k, c |-> v.c]
    BY DEF Zero, Only
  <2> QED
    BY <2>1 DEF UnitTyped
<1>14. w.u \in Nat
  BY <1>5, <1>7
<1>15. WriteTyped(w)
  BY <1>5, <1>7, <1>11, <1>12, <1>13, <1>14 DEF WriteTyped
<1>16. s = 1 => w.data[1] = VbrUnit(p, i)
  BY <1>7, <1>11
<1>17. w.whole = TRUE /\ w.u = Unit(at) + 1 + (i - 1) * s
  BY <1>7
<1> QED
  BY <1>12, <1>15, <1>16, <1>17 DEF s, VbrAt

IsPart(w, u, k, c) ==
  /\ w.whole = FALSE /\ w.u = u /\ Len(w.data) = 1
  /\ w.data[1] = [k |-> k, c |-> c]

\* A write of a part of a unit.
LEMMA PartIs ==
  ASSUME NEW u, NEW k, NEW c
  PROVE  IsPart(Part(u, k, c), u, k, c)
<1> DEFINE x == [k |-> k, c |-> c]
           w == Part(u, k, c)
<1>1. w.whole = FALSE /\ w.u = u /\ w.data = <<x>>
  BY DEF Part
<1> HIDE DEF x, w
<1>2. Len(w.data) = 1 /\ w.data[1] = x
  BY <1>1
<1>3. IsPart(w, u, k, c)
  BY <1>1, <1>2 DEF x, IsPart
<1> QED
  BY <1>3 DEF w

\* fat_write(): the entry of cluster i - 1.
IsFatWrite(p, i, w) ==
  /\ w.whole = FALSE /\ w.u = 128 * Su(p) + (i - 1) \div FatCells /\ Len(w.data) = 1
  /\ w.data[1] = [k |-> "fat", c |-> Cell((i - 1) % FatCells, FatEntries(p)[i])]
  /\ w.u \in Nat /\ w.u >= 128 * Su(p) /\ w.u < 128 * Su(p) + FatUnits(p)
  /\ WriteTyped(w)

\* FatWrite() has these writes.
LEMMA FatIs ==
  ASSUME NEW p, IsParam(p), CheckSize(p), NEW i \in 1..(Rt(p) + 1),
         NEW w, w = FatWrite(p)[i]
  PROVE  IsFatWrite(p, i, w)
<1> DEFINE v == FatEntries(p)[i]
           q == (i - 1) \div FatCells
           m == (i - 1) % FatCells
           s == 128 * Su(p)
<1>1. /\ FatEntries(p) \in Seq(Int) /\ Len(FatEntries(p)) = Rt(p) + 1 /\ Rt(p) \in Nat
      /\ Rt(p) \div FatCells < FatUnits(p) /\ FatUnits(p) \in Nat
  BY FatEntriesAre, RootInFat
<1>2. DOMAIN FatEntries(p) = 1..(Rt(p) + 1) /\ v \in Int
  BY <1>1
<1>3. Unit(FatPos(p)) = s /\ s \in Nat
  BY Starts, ParamSizes
<1>4. w = Part(s + q, "fat", Cell(m, v))
  BY <1>2, <1>3 DEF FatWrite
<1>5. q \in Nat /\ q < FatUnits(p)
  <2> DEFINE r == Rt(p)
  <2>1. r \in Nat /\ i \in 1..(r + 1) /\ r \div 128 < FatUnits(p)
    BY <1>1 DEF FatCells
  <2> HIDE DEF r
  <2>2. (i - 1) \div 128 \in Nat /\ (i - 1) \div 128 <= r \div 128 /\ r \div 128 \in Nat
    BY <2>1
  <2> QED
    BY <1>1, <2>1, <2>2 DEF FatCells
<1> HIDE DEF q, m, v, s
<1> DEFINE x == [k |-> "fat", c |-> Cell(m, v)]
<1>6. w.whole = FALSE /\ w.u = s + q /\ Len(w.data) = 1 /\ w.data[1] = x
  <2>1. IsPart(w, s + q, "fat", Cell(m, v))
    BY <1>4, PartIs
  <2> QED
    BY <2>1 DEF IsPart
<1>7. UnitTyped(x) /\ x = [k |-> x.k, c |-> x.c] /\ x.k # "sb"
  BY <1>2 DEF UnitTyped, Cell
<1> HIDE DEF x
<1>8. w.u \in Nat /\ w.u >= s /\ w.u < s + FatUnits(p)
  BY <1>1, <1>3, <1>5, <1>6
<1>9. WriteTyped(w)
  BY <1>6, <1>7, <1>8 DEF WriteTyped
<1> QED
  BY <1>6, <1>8, <1>9 DEF x, q, m, v, s, IsFatWrite

CbmBits(p) ==
  [k |-> "bits", c |-> [b \in 0..(RoundUp(Allocated(p), 8) - 1) |-> b < Allocated(p)]]

\* cbm_write().
LEMMA CbmIs ==
  ASSUME NEW p, IsParam(p), CheckSize(p), NEW w, w = CbmWrite(p)[1]
  PROVE  /\ w.whole = FALSE /\ w.u = Cbm0(p) /\ Len(w.data) = 1
         /\ w.data[1] = CbmBits(p) /\ WriteTyped(w)
<1>1. w = Part(Unit(CbmPos(p)), "bits", CbmBits(p).c)
  BY DEF CbmWrite, CbmBits
<1>2. w.whole = FALSE /\ w.u = Cbm0(p) /\ Len(w.data) = 1
      /\ w.data[1] = [k |-> "bits", c |-> CbmBits(p).c]
  <2>1. Unit(CbmPos(p)) = Cbm0(p)
    BY Starts
  <2>2. IsPart(w, Cbm0(p), "bits", CbmBits(p).c)
    BY <1>1, <2>1, PartIs
  <2> QED
    BY <2>2 DEF IsPart
<1>3. CbmBits(p) = [k |-> "bits", c |-> CbmBits(p).c]
  BY DEF CbmBits
<1>4. Cbm0(p) \in Nat
  BY Regions
<1>5. CbmBits(p).k = "bits"
  BY DEF CbmBits
<1>6. WriteTyped(w)
  BY <1>2, <1>3, <1>4, <1>5 DEF WriteTyped, UnitTyped
<1> QED
  BY <1>2, <1>3, <1>6

\* uct_write().
LEMMA UctIs ==
  ASSUME NEW p, IsParam(p), CheckSize(p), NEW w, w = UctWrite(p)[1]
  PROVE  /\ w.whole = TRUE /\ w.u = Uct0(p) /\ Len(w.data) = 12 /\ w.data = UctUnits
         /\ DOMAIN UctUnits = 1..12
         /\ \A i \in 1..12 : UctUnits[i] = Only("uct", 0, i)
         /\ WriteTyped(w)
<1>1. DivRoundUp(UctSize, UnitBytes) = 12 /\ Unit(UctPos(p)) = Uct0(p) /\ Uct0(p) \in Nat
  BY Starts, Regions
<1>2. UctUnits = [i \in 1..12 |-> Only("uct", 0, i)]
  BY <1>1 DEF UctUnits
<1>3. w = Whole(Uct0(p), UctUnits)
  BY <1>1 DEF UctWrite
<1>4. w.whole = TRUE /\ w.u = Uct0(p) /\ w.data = UctUnits
  BY <1>3 DEF Whole
<1>5. DOMAIN UctUnits = 1..12 /\ UctUnits = [i \in 1..12 |-> UctUnits[i]]
      /\ \A i \in 1..12 : UctUnits[i] = Only("uct", 0, i)
  BY <1>2
<1>6. Len(UctUnits) = 12
  BY <1>5, FunSeq
<1>7. \A i \in 1..12 : LET x == Only("uct", 0, i) IN
        UnitTyped(x) /\ x = [k |-> x.k, c |-> x.c] /\ x.k # "sb"
  BY DEF UnitTyped, Only
<1>8. WriteTyped(w)
  BY <1>1, <1>4, <1>5, <1>6, <1>7 DEF WriteTyped
<1> QED
  BY <1>4, <1>5, <1>6, <1>8

NoEntry == [type |-> "none", start_cluster |-> 0, size |-> 0, label |-> ""]

LabelEntry(p) ==
  IF Label(p.job) = "" THEN NoEntry
  ELSE [type |-> "label", start_cluster |-> 0, size |-> 0, label |-> Label(p.job)]
BitmapEntry(p) ==
  [type |-> "bitmap", start_cluster |-> 2, size |-> CbmSize(p), label |-> ""]
UpcaseEntry(p) ==
  [type |-> "upcase", start_cluster |-> Cb(p) + 2, size |-> UctSize, label |-> ""]

RootEntry(p, i) ==
  IF i = 0 THEN LabelEntry(p) ELSE IF i = 1 THEN BitmapEntry(p) ELSE UpcaseEntry(p)

\* The cluster of the upcase table.
LEMMA UctCluster ==
  ASSUME NEW p, IsParam(p), CheckSize(p)
  PROVE  ClusterOf(p, UctPos(p)) = Cb(p) + 2
<1> DEFINE a == Ca(p)
           b == Cb(p)
           cs == p.cs
<1>1. a \in Nat /\ b \in Nat /\ cs \in Nat /\ cs >= 1
  BY CbmPosIs, Objects, ParamSizes
<1>2. ClusterOf(p, UctPos(p)) = ((a + b) * cs - a * cs) \div cs + 2
  BY CbmPosIs, Objects DEF ClusterOf, FirstDataCluster
<1> HIDE DEF a, b, cs
<1>3. (a + b) * cs - a * cs = b * cs /\ b * cs \in Nat
  BY <1>1
<1>4. (b * cs) \div cs = b
  BY <1>1, <1>3, DivIs
<1> QED
  BY <1>2, <1>3, <1>4 DEF b

\* rootdir_write().
LEMMA RootIs ==
  ASSUME NEW p, IsParam(p), CheckSize(p), NEW i \in 0..2,
         NEW w, w = RootWrite(p)[i + 1]
  PROVE  /\ w.whole = FALSE /\ w.u = Root0(p) /\ Len(w.data) = 1
         /\ w.data[1] = [k |-> "dir", c |-> Cell(i, RootEntry(p, i))]
         /\ RootEntry(p, i).type # "file" /\ RootEntry(p, i).start_cluster \in Int
         /\ WriteTyped(w)
<1> DEFINE e == RootEntry(p, i)
<1>1. Unit(RootPos(p)) = Root0(p) /\ Root0(p) \in Nat /\ Cb(p) \in Nat
  BY Starts, Regions, Objects
<1>2. w = Part(Root0(p), "dir", Cell(i, e))
  <2> DEFINE entry(t, c, n, m) == [type |-> t, start_cluster |-> c, size |-> n, label |-> m]
             l == Label(p.job)
             A == IF l = "" THEN entry("none", 0, 0, "") ELSE entry("label", 0, 0, l)
             B == entry("bitmap", FirstDataCluster, CbmSize(p), "")
             C == entry("upcase", ClusterOf(p, UctPos(p)), UctSize, "")
  <2>1. RootWrite(p) = [j \in 1..3 |-> Part(Root0(p), "dir", Cell(j - 1, <<A, B, C>>[j]))]
    BY <1>1 DEF RootWrite
  <2>2. A = RootEntry(p, 0)
    <3>1. A = LabelEntry(p)
      BY DEF LabelEntry, NoEntry
    <3> QED
      BY <3>1 DEF RootEntry
  <2>3. B = RootEntry(p, 1)
    <3>1. B = BitmapEntry(p)
      BY DEF BitmapEntry, FirstDataCluster
    <3> HIDE DEF B
    <3> QED
      BY <3>1 DEF RootEntry
  <2>4. C = RootEntry(p, 2)
    <3>1. C = UpcaseEntry(p)
      BY UctCluster DEF UpcaseEntry
    <3> HIDE DEF C
    <3> QED
      BY <3>1 DEF RootEntry
  <2> HIDE DEF A, B, C
  <2>5. i + 1 \in 1..3 /\ (i + 1) - 1 = i
    OBVIOUS
  <2>6. <<A, B, C>>[i + 1] = e
    <3>1. i = 0 \/ i = 1 \/ i = 2
      OBVIOUS
    <3>2. CASE i = 0
      BY <2>2, <3>2
    <3>3. CASE i = 1
      BY <2>3, <3>3
    <3>4. CASE i = 2
      BY <2>4, <3>4
    <3> QED
      BY <3>1, <3>2, <3>3, <3>4
  <2> QED
    BY <2>1, <2>5, <2>6
<1>3. e.type # "file" /\ e.start_cluster \in Int
  BY <1>1 DEF RootEntry, LabelEntry, BitmapEntry, UpcaseEntry, NoEntry
<1> HIDE DEF e
<1> DEFINE x == [k |-> "dir", c |-> Cell(i, e)]
<1>4. w.whole = FALSE /\ w.u = Root0(p) /\ Len(w.data) = 1 /\ w.data[1] = x
  <2>1. IsPart(w, Root0(p), "dir", Cell(i, e))
    BY <1>2, PartIs
  <2> QED
    BY <2>1 DEF IsPart
<1>5. UnitTyped(x) /\ x = [k |-> x.k, c |-> x.c] /\ x.k # "sb"
  BY <1>3 DEF UnitTyped, Cell
<1> HIDE DEF x
<1>6. WriteTyped(w)
  BY <1>1, <1>4, <1>5 DEF WriteTyped
<1> QED
  BY <1>3, <1>4, <1>6 DEF x, e

\* What the writes are, by number.
SuperAt(p, i, w) ==
  w.whole = TRUE /\ w.u = 0 /\ Len(w.data) = 1 /\ w.data[1] = Only("sb", 0, InitSb(p))
BootAt(p, i, w) ==
  /\ w.u >= 1 /\ w.u + Len(w.data) <= 12 * Su(p)
  /\ Su(p) = 1 => /\ w.whole = TRUE /\ w.u = i - 7 /\ Len(w.data) = 1
                  /\ w.data[1] = VbrUnit(p, i - 7)
BackupAt(p, i, w) == w.u >= 12 * Su(p) /\ w.u + Len(w.data) <= 24 * Su(p)
FatAt(p, i, w) ==
  /\ w.whole = FALSE /\ w.u = 128 * Su(p) + (i - 31) \div FatCells /\ Len(w.data) = 1
  /\ w.u < 128 * Su(p) + FatUnits(p) /\ w.u >= 128 * Su(p)
  /\ w.data[1] = [k |-> "fat", c |-> Cell((i - 31) % FatCells, FatEntries(p)[i - 30])]
CbmAt(p, i, w) ==
  w.whole = FALSE /\ w.u = Cbm0(p) /\ Len(w.data) = 1 /\ w.data[1] = CbmBits(p)
UctAt(p, i, w) ==
  w.whole = TRUE /\ w.u = Uct0(p) /\ Len(w.data) = 12 /\ w.data = UctUnits
RootAt(p, i, w) ==
  /\ w.whole = FALSE /\ w.u = Root0(p) /\ Len(w.data) = 1
  /\ w.data[1] = [k |-> "dir", c |-> Cell(i - Rt(p) - 34, RootEntry(p, i - Rt(p) - 34))]

WriteIs(p, i, w) ==
  \/ i \in 1..6 /\ EraseAt(p, i, w)
  \/ i = 7 /\ SuperAt(p, i, w)
  \/ i \in 8..18 /\ BootAt(p, i, w)
  \/ i \in 19..30 /\ BackupAt(p, i, w)
  \/ i \in 31..(Rt(p) + 31) /\ FatAt(p, i, w)
  \/ i = Rt(p) + 32 /\ CbmAt(p, i, w)
  \/ i = Rt(p) + 33 /\ UctAt(p, i, w)
  \/ i \in (Rt(p) + 34)..(Rt(p) + 36) /\ RootAt(p, i, w)

\* Every write of a format is one of these.
LEMMA WriteNamed ==
  ASSUME NEW p, IsParam(p), CheckSize(p), NEW i \in 1..(Rt(p) + 36), NEW w, w = Writes(p)[i]
  PROVE  /\ WriteTyped(w) /\ w.u \in Nat /\ Len(w.data) \in Nat /\ Rt(p) \in Nat
         /\ WriteIs(p, i, w)
<1>1. /\ Rt(p) \in Nat
      /\ \A j \in 1..6 : Writes(p)[j] = EraseObject(Layout(p)[j])
      /\ \A j \in 1..12 : Writes(p)[6 + j] = VbrWrite(p, 0)[j]
      /\ \A j \in 1..12 : Writes(p)[18 + j] = VbrWrite(p, VbrSize(p))[j]
      /\ \A j \in 1..(Rt(p) + 1) : Writes(p)[30 + j] = FatWrite(p)[j]
      /\ Writes(p)[Rt(p) + 32] = CbmWrite(p)[1]
      /\ Writes(p)[Rt(p) + 33] = UctWrite(p)[1]
      /\ \A j \in 1..3 : Writes(p)[Rt(p) + 33 + j] = RootWrite(p)[j]
  BY WritesAre
<1>2. Su(p) \in {1, 2, 4, 8} /\ Unit(0) = 0 /\ Unit(VbrSize(p)) = 12 * Su(p)
  BY ParamSizes, Starts
<1>11. \A j \in 1..11 : \A s \in {1, 2, 4, 8} :
         (j - 1) * s \in Nat /\ (j - 1) * s + s <= 11 * s /\ (s = 1 => (j - 1) * s = j - 1)
  OBVIOUS
<1>3. CASE i \in 1..6
  <2>1. w = EraseObject(Layout(p)[i])
    BY <1>1, <1>3
  <2>2. EraseAt(p, i, w) /\ WriteTyped(w)
    BY <1>3, <2>1, EraseIs
  <2>3. w.u \in Nat /\ Len(w.data) \in Nat
    BY <2>2 DEF WriteTyped
  <2> QED
    BY <1>1, <1>3, <2>2, <2>3 DEF WriteIs
<1>4. CASE i = 7
  <2>1. w = VbrWrite(p, 0)[1]
    <3>1. 1 \in 1..12 /\ 6 + 1 = 7
      OBVIOUS
    <3> QED
      BY <1>1, <1>4, <3>1
  <2>2. Unit(0) \in Nat
    BY <1>2
  <2>3. /\ w.whole = TRUE /\ w.u = Unit(0) /\ Len(w.data) = 1
        /\ w.data[1] = Only("sb", 0, InitSb(p)) /\ WriteTyped(w)
    <3> DEFINE at == 0
    <3>1. w = VbrWrite(p, at)[1] /\ Unit(at) \in Nat
      BY <2>1, <2>2
    <3> HIDE DEF at
    <3>2. /\ w.whole = TRUE /\ w.u = Unit(at) /\ Len(w.data) = 1
          /\ w.data[1] = Only("sb", 0, InitSb(p)) /\ WriteTyped(w)
      BY <3>1, VbrFirst
    <3> QED
      BY <3>2 DEF at
  <2>4. SuperAt(p, i, w)
    BY <1>2, <2>3 DEF SuperAt
  <2>5. w.u \in Nat /\ Len(w.data) \in Nat
    BY <2>3 DEF WriteTyped
  <2> QED
    BY <1>1, <1>4, <2>3, <2>4, <2>5 DEF WriteIs
<1>5. CASE i \in 8..18
  <2> DEFINE j == i - 7
  <2>1. j \in 1..11 /\ 6 + (j + 1) = i /\ j + 1 \in 1..12 /\ j = i - 7
    BY <1>5
  <2> HIDE DEF j
  <2>2. w = VbrWrite(p, 0)[j + 1]
    BY <1>1, <2>1
  <2>3. Unit(0) \in Nat
    BY <1>2
  <2>4. /\ w.whole = TRUE /\ w.u = Unit(0) + 1 + (j - 1) * Su(p) /\ Len(w.data) = Su(p)
        /\ Su(p) = 1 => w.data[1] = VbrUnit(p, j)
        /\ WriteTyped(w)
    <3> DEFINE at == 0
    <3>1. w = VbrWrite(p, at)[j + 1] /\ Unit(at) \in Nat
      BY <2>2, <2>3
    <3> HIDE DEF at
    <3>2. VbrAt(p, at, j, w) /\ WriteTyped(w)
      BY <2>1, <3>1, VbrNext
    <3> QED
      BY <3>2 DEF at, VbrAt
  <2>5. w.u \in Nat /\ w.u >= 1 /\ w.u + Len(w.data) <= 12 * Su(p)
        /\ (Su(p) = 1 => w.u = j)
    <3>1. PICK n \in Nat : n = (j - 1) * Su(p) /\ n + Su(p) <= 11 * Su(p)
                            /\ (Su(p) = 1 => n = j - 1)
      BY <1>2, <1>11, <2>1
    <3>2. w.u = 0 + 1 + n /\ Len(w.data) = Su(p)
      BY <1>2, <2>4, <3>1
    <3> DEFINE s == Su(p)
               l == Len(w.data)
               x == w.u
    <3>3. s \in {1, 2, 4, 8} /\ n + s <= 11 * s /\ (s = 1 => n = j - 1) /\ x = 0 + 1 + n /\ l = s
      BY <1>2, <3>1, <3>2
    <3> HIDE DEF s, l, x
    <3>4. x \in Nat /\ x >= 1 /\ x + l <= 12 * s /\ (s = 1 => x = j)
      BY <2>1, <3>3
    <3> QED
      BY <3>4 DEF s, l, x
  <2>6. BootAt(p, i, w)
    BY <2>1, <2>4, <2>5 DEF BootAt
  <2>7. Len(w.data) \in Nat
    BY <1>2, <2>4
  <2> QED
    BY <1>1, <1>5, <2>4, <2>5, <2>6, <2>7 DEF WriteIs
<1>6. CASE i \in 19..30
  <2>1. Unit(VbrSize(p)) \in Nat
    BY <1>2
  <2>2. CASE i = 19
    <3>1. w = VbrWrite(p, VbrSize(p))[1]
      <4>1. 1 \in 1..12 /\ 18 + 1 = 19
        OBVIOUS
      <4> QED
        BY <1>1, <2>2, <4>1
    <3>2. w.u = Unit(VbrSize(p)) /\ Len(w.data) = 1 /\ WriteTyped(w)
      BY <2>1, <3>1, VbrFirst
    <3>3. BackupAt(p, i, w)
      BY <1>2, <3>2 DEF BackupAt
    <3> QED
      BY <1>1, <1>6, <2>1, <3>2, <3>3 DEF WriteIs
  <2>3. CASE i # 19
    <3> DEFINE j == i - 19
    <3>1. j \in 1..11 /\ 18 + (j + 1) = i /\ j + 1 \in 1..12
      BY <1>6, <2>3
    <3> HIDE DEF j
    <3>2. w = VbrWrite(p, VbrSize(p))[j + 1]
      BY <1>1, <3>1
    <3>3. /\ w.u = Unit(VbrSize(p)) + 1 + (j - 1) * Su(p) /\ Len(w.data) = Su(p)
          /\ WriteTyped(w)
      <4>1. VbrAt(p, VbrSize(p), j, w) /\ WriteTyped(w)
        BY <2>1, <3>1, <3>2, VbrNext
      <4> QED
        BY <4>1 DEF VbrAt
    <3>4. BackupAt(p, i, w)
      <4>1. PICK n \in Nat : n = (j - 1) * Su(p) /\ n + Su(p) <= 11 * Su(p)
        BY <1>2, <1>11, <3>1
      <4> DEFINE s == Su(p)
                 x == w.u
                 l == Len(w.data)
      <4>2. s \in {1, 2, 4, 8} /\ n + s <= 11 * s /\ x = 12 * s + 1 + n /\ l = s
        BY <1>2, <3>3, <4>1
      <4> HIDE DEF s, x, l
      <4>3. x >= 12 * s /\ x + l <= 24 * s
        BY <4>2
      <4> QED
        BY <4>3 DEF BackupAt, s, x, l
    <3>5. w.u \in Nat /\ Len(w.data) \in Nat
      BY <3>3 DEF WriteTyped
    <3> QED
      BY <1>1, <1>6, <3>3, <3>4, <3>5 DEF WriteIs
  <2> QED
    BY <2>2, <2>3
<1>7. CASE i \in 31..(Rt(p) + 31)
  <2> DEFINE j == i - 30
  <2>1. j \in 1..(Rt(p) + 1) /\ 30 + j = i /\ j - 1 = i - 31 /\ j = i - 30
    BY <1>1, <1>7
  <2> HIDE DEF j
  <2>2. w = FatWrite(p)[j]
    BY <1>1, <2>1
  <2>3. /\ w.whole = FALSE /\ w.u = 128 * Su(p) + (j - 1) \div FatCells /\ Len(w.data) = 1
        /\ w.data[1] = [k |-> "fat", c |-> Cell((j - 1) % FatCells, FatEntries(p)[j])]
        /\ w.u \in Nat /\ w.u >= 128 * Su(p) /\ w.u < 128 * Su(p) + FatUnits(p)
        /\ WriteTyped(w)
    <3>1. IsFatWrite(p, j, w)
      BY ONLY IsParam(p), CheckSize(p), <2>1, <2>2, FatIs
    <3> QED
      BY ONLY <3>1 DEF IsFatWrite
  <2>4. FatAt(p, i, w)
    BY <2>1, <2>3 DEF FatAt
  <2> QED
    BY <1>1, <1>7, <2>3, <2>4 DEF WriteIs
<1>8. CASE i = Rt(p) + 32
  <2>1. w = CbmWrite(p)[1]
    BY <1>1, <1>8
  <2>2. CbmAt(p, i, w) /\ WriteTyped(w)
    BY <2>1, CbmIs DEF CbmAt
  <2>3. w.u \in Nat /\ Len(w.data) \in Nat
    BY <2>2 DEF WriteTyped
  <2> QED
    BY <1>1, <1>8, <2>2, <2>3 DEF WriteIs
<1>9. CASE i = Rt(p) + 33
  <2>1. w = UctWrite(p)[1]
    BY <1>1, <1>9
  <2>2. UctAt(p, i, w) /\ WriteTyped(w)
    BY <2>1, UctIs DEF UctAt
  <2>3. w.u \in Nat /\ Len(w.data) \in Nat
    BY <2>2 DEF WriteTyped
  <2> QED
    BY <1>1, <1>9, <2>2, <2>3 DEF WriteIs
<1>10. CASE i \in (Rt(p) + 34)..(Rt(p) + 36)
  <2> DEFINE j == i - Rt(p) - 34
  <2>1. j \in 0..2 /\ Rt(p) + 33 + (j + 1) = i /\ j + 1 \in 1..3
    BY <1>1, <1>10
  <2>2. w = RootWrite(p)[j + 1]
    <3> HIDE DEF j
    <3> QED
      BY <1>1, <2>1
  <2>3. /\ w.whole = FALSE /\ w.u = Root0(p) /\ Len(w.data) = 1
        /\ w.data[1] = [k |-> "dir", c |-> Cell(j, RootEntry(p, j))]
        /\ WriteTyped(w)
    <3> HIDE DEF j
    <3> QED
      BY <2>1, <2>2, RootIs
  <2>4. RootAt(p, i, w)
    BY <2>3 DEF RootAt
  <2>5. w.u \in Nat /\ Len(w.data) \in Nat
    BY <2>3 DEF WriteTyped
  <2> QED
    BY <1>1, <1>10, <2>3, <2>4, <2>5 DEF WriteIs
<1>12. \/ i \in 1..6 \/ i = 7 \/ i \in 8..18 \/ i \in 19..30 \/ i \in 31..(Rt(p) + 31)
       \/ i = Rt(p) + 32 \/ i = Rt(p) + 33 \/ i \in (Rt(p) + 34)..(Rt(p) + 36)
  BY <1>1
<1> QED
  BY <1>3, <1>4, <1>5, <1>6, <1>7, <1>8, <1>9, <1>10, <1>12

\* A unit that a write misses, and one that it hits.
LEMMA Miss ==
  ASSUME NEW d, NEW w, NEW n, NEW u \in DOMAIN d, u \in Int, w.u \in Nat, n \in Nat,
         u < w.u \/ u >= w.u + n
  PROVE  Apply(d, w, n)[u] = d[u]
<1>1. u \notin w.u..(w.u + n - 1)
  OBVIOUS
<1> QED
  BY <1>1, ApplyOff

WholeHit(d, w, n, u) == Apply(d, w, n)[u] = w.data[u - w.u + 1]

\* A write of whole units replaces the units that it covers.
LEMMA HitWhole ==
  ASSUME NEW d, NEW w, NEW n, NEW u \in DOMAIN d, u \in Int, w.u \in Nat, n \in Nat,
         u >= w.u, u < w.u + n, w.whole = TRUE
  PROVE  WholeHit(d, w, n, u)
<1>1. u \in w.u..(w.u + n - 1)
  OBVIOUS
<1>2. Apply(d, w, n)[u] = Put(w, d[u], w.data[u - w.u + 1])
  BY <1>1, ApplyOn
<1> QED
  BY <1>2 DEF Put, WholeHit

\* What a part of a unit makes of the unit.
Mix(new, old) ==
  IF old.k # new.k THEN new ELSE [new EXCEPT !.c = Over(new.c, old.c)]

PartHit(d, w, n, u) == Apply(d, w, n)[u] = Mix(w.data[1], d[u])

\* A write of a part of a unit keeps the rest of it.
LEMMA HitPart ==
  ASSUME NEW d, NEW w, NEW n, n = 1, NEW u \in DOMAIN d, u \in Int, w.u \in Nat, u = w.u,
         w.whole = FALSE
  PROVE  PartHit(d, w, n, u)
<1>1. u \in w.u..(w.u + n - 1) /\ u - w.u + 1 = 1
  OBVIOUS
<1>2. Apply(d, w, n)[u] = Put(w, d[u], w.data[u - w.u + 1])
  BY <1>1, ApplyOn
<1>3. Apply(d, w, n)[u] = Put(w, d[u], w.data[1])
  BY <1>1, <1>2
<1> QED
  BY <1>3 DEF Put, PartHit, Mix

FirstHit(d, w, n, u) == Apply(d, w, n)[u] = w.data[1]

\* The first unit of a write, if it is written as a whole.
LEMMA HitFirst ==
  ASSUME NEW d, NEW w, NEW n \in Nat, n >= 1, NEW u \in DOMAIN d, u \in Nat, w.u = u,
         w.whole = TRUE
  PROVE  FirstHit(d, w, n, u)
<1>1. u \in w.u..(w.u + n - 1) /\ u - w.u + 1 = 1 /\ u \in DOMAIN d
  OBVIOUS
<1>2. Apply(d, w, n)[u] = Put(w, d[u], w.data[u - w.u + 1])
  BY <1>1, ApplyOn
<1> QED
  BY <1>1, <1>2 DEF Put, FirstHit

-----------------------------------------------------------------------------
(* How far a format has come *)

\* The entry of the root directory's cluster in the FAT.
RootCell(p, d) == CellAt(d, 128 * Su(p), "fat", FatCells, Rt(p), 0)

SuperStage(p, i, d) ==
  /\ i >= 2 /\ i <= 7 => d[0].k # "sb"
  /\ i >= 8 => d[0] = Only("sb", 0, InitSb(p))
BootStage(p, i, d) ==
  Su(p) = 1 => \A j \in 1..11 : i > 7 + j => d[j] = VbrUnit(p, j)
FatStage(p, i, d) ==
  /\ i >= 4 => RootCell(p, d) \in {0, End}
  /\ i >= Rt(p) + 32 => RootCell(p, d) = End
CbmUnit(p, i, u) == IF u = Cbm0(p) /\ i > Rt(p) + 32 THEN CbmBits(p) ELSE Zero
CbmStage(p, i, d) ==
  i >= 5 => \A u \in Cbm0(p)..(Cbm0(p) + CbmUnits(p) - 1) : d[u] = CbmUnit(p, i, u)
UctStage(p, i, d) ==
  i > Rt(p) + 33 => \A j \in 1..12 : d[Uct0(p) + j - 1] = Only("uct", 0, j)
RootUnit(p, i, u) ==
  IF u = Root0(p) /\ i > Rt(p) + 34
  THEN [k |-> "dir", c |-> [x \in 0..(i - Rt(p) - 35) |-> RootEntry(p, x)]] ELSE Zero
RootStage(p, i, d) ==
  i >= 7 => \A u \in Root0(p)..(Root0(p) + Cu(p) - 1) : d[u] = RootUnit(p, i, u)

OnVolume(p, d) == Device(d) /\ DOMAIN d = 0..(Units(p) - 1)

\* The units are numbers, and the objects are where they are.
LEMMA Map ==
  ASSUME NEW p, IsParam(p), CheckSize(p)
  PROVE  /\ Su(p) \in {1, 2, 4, 8} /\ Cu(p) \in Nat /\ Cu(p) >= 1 /\ Rt(p) \in Nat
         /\ FatUnits(p) \in Nat /\ CbmUnits(p) \in Nat /\ Units(p) \in Nat
         /\ Cbm0(p) \in Nat /\ Uct0(p) \in Nat /\ Root0(p) \in Nat
         /\ 128 * Su(p) + FatUnits(p) <= Cbm0(p) /\ Cbm0(p) + CbmUnits(p) <= Uct0(p)
         /\ Uct0(p) + 12 <= Root0(p) /\ Root0(p) + Cu(p) <= Units(p)
         /\ CbmUnits(p) >= 1
         /\ 128 * Su(p) + Rt(p) \div FatCells < 128 * Su(p) + FatUnits(p)
         /\ Rt(p) \div FatCells \in Nat
<1>1. Su(p) \in {1, 2, 4, 8} /\ Cu(p) \in Nat /\ Cu(p) >= 1
  BY ParamSizes
<1>2. Rt(p) \in Nat /\ Rt(p) \div FatCells < FatUnits(p) /\ FatUnits(p) \in Nat
  BY RootInFat
<1>3. Rt(p) \div FatCells \in Nat
  BY <1>2 DEF FatCells
<1>4. 128 * Su(p) + Rt(p) \div FatCells < 128 * Su(p) + FatUnits(p)
  BY <1>1, <1>2, <1>3
<1> QED
  BY <1>1, <1>2, <1>3, <1>4, Regions

\* The object that a write belongs to.
RegionOf(p, i) ==
  IF i <= 6 THEN i
  ELSE IF i <= 18 THEN 1
  ELSE IF i <= 30 THEN 2
  ELSE IF i <= Rt(p) + 31 THEN 3
  ELSE IF i = Rt(p) + 32 THEN 4
  ELSE IF i = Rt(p) + 33 THEN 5
  ELSE 6

\* A write stays within its object.
LEMMA Within ==
  ASSUME NEW p, IsParam(p), CheckSize(p), NEW i \in 1..(Rt(p) + 36), NEW w, w = Writes(p)[i]
  PROVE  /\ RegionOf(p, i) \in 1..6 /\ w.u \in Nat /\ Len(w.data) \in Nat
         /\ Ob0(p)[RegionOf(p, i)] <= w.u
         /\ w.u + Len(w.data) <= Ob0(p)[RegionOf(p, i)] + ObUnits(p)[RegionOf(p, i)]
<1> DEFINE r == Rt(p)
           s == Su(p)
           x == w.u
           n == Len(w.data)
<1>1. /\ s \in {1, 2, 4, 8} /\ r \in Nat /\ Cu(p) \in Nat /\ Cu(p) >= 1
      /\ FatUnits(p) \in Nat /\ CbmUnits(p) \in Nat /\ CbmUnits(p) >= 1
      /\ Cbm0(p) \in Nat /\ Uct0(p) \in Nat /\ Root0(p) \in Nat
  BY Map
<1>2. x \in Nat /\ n \in Nat /\ WriteIs(p, i, w)
  BY WriteNamed
<1>3. CASE i \in 1..6 /\ EraseAt(p, i, w)
  <2>1. x = Ob0(p)[i] /\ n = ObUnits(p)[i]
    BY <1>3 DEF EraseAt
  <2>2. RegionOf(p, i) = i
    BY <1>3 DEF RegionOf
  <2>3. RegionOf(p, i) \in 1..6
    BY <1>3, <2>2
  <2>4. Ob0(p)[i] <= x /\ x + n <= Ob0(p)[i] + ObUnits(p)[i]
    BY <1>2, <2>1
  <2> QED
    BY <1>2, <2>2, <2>3, <2>4
<1>4. CASE i = 7 /\ SuperAt(p, i, w)
  <2>1. x = 0 /\ n = 1
    BY <1>4 DEF SuperAt
  <2>2. RegionOf(p, i) = 1
    BY <1>4 DEF RegionOf
  <2>3. Ob0(p)[1] = 0 /\ ObUnits(p)[1] = 12 * s
    BY DEF Ob0, ObUnits
  <2> HIDE DEF x, n, s
  <2>4. 0 <= x /\ x + n <= 0 + 12 * s
    BY ONLY <1>1, <1>2, <2>1
  <2>5. 1 \in 1..6
    OBVIOUS
  <2> QED
    BY ONLY <1>2, <2>2, <2>3, <2>4, <2>5 DEF x, n
<1>5. CASE i \in 8..18 /\ BootAt(p, i, w)
  <2>1. x >= 1 /\ x + n <= 12 * s
    BY <1>5 DEF BootAt
  <2>2. RegionOf(p, i) = 1
    BY <1>5 DEF RegionOf
  <2>3. Ob0(p)[1] = 0 /\ ObUnits(p)[1] = 12 * s
    BY DEF Ob0, ObUnits
  <2> HIDE DEF x, n, s
  <2>4. 0 <= x /\ x + n <= 0 + 12 * s
    BY ONLY <1>1, <1>2, <2>1
  <2>5. 1 \in 1..6
    OBVIOUS
  <2> QED
    BY ONLY <1>2, <2>2, <2>3, <2>4, <2>5 DEF x, n
<1>6. CASE i \in 19..30 /\ BackupAt(p, i, w)
  <2>1. x >= 12 * s /\ x + n <= 24 * s
    BY <1>6 DEF BackupAt
  <2>2. RegionOf(p, i) = 2
    BY <1>6 DEF RegionOf
  <2>3. Ob0(p)[2] = 12 * s /\ ObUnits(p)[2] = 12 * s
    BY DEF Ob0, ObUnits
  <2> HIDE DEF x, n, s
  <2>4. 12 * s <= x /\ x + n <= 12 * s + 12 * s
    BY ONLY <1>1, <1>2, <2>1
  <2>5. 2 \in 1..6
    OBVIOUS
  <2> QED
    BY ONLY <1>2, <2>2, <2>3, <2>4, <2>5 DEF x, n
<1>7. CASE i \in 31..(r + 31) /\ FatAt(p, i, w)
  <2>1. x >= 128 * s /\ x < 128 * s + FatUnits(p) /\ n = 1
    BY <1>7 DEF FatAt
  <2>2. RegionOf(p, i) = 3
    BY <1>1, <1>7 DEF RegionOf
  <2>3. Ob0(p)[3] = 128 * s /\ ObUnits(p)[3] = FatUnits(p)
    BY DEF Ob0, ObUnits
  <2> QED
    BY <1>1, <1>2, <2>1, <2>2, <2>3
<1>8. CASE i = r + 32 /\ CbmAt(p, i, w)
  <2>1. x = Cbm0(p) /\ n = 1
    BY <1>8 DEF CbmAt
  <2>2. RegionOf(p, i) = 4
    BY <1>1, <1>8 DEF RegionOf
  <2>3. Ob0(p)[4] = Cbm0(p) /\ ObUnits(p)[4] = CbmUnits(p)
    BY DEF Ob0, ObUnits
  <2> QED
    BY <1>1, <1>2, <2>1, <2>2, <2>3
<1>9. CASE i = r + 33 /\ UctAt(p, i, w)
  <2>1. x = Uct0(p) /\ n = 12
    BY <1>9 DEF UctAt
  <2>2. RegionOf(p, i) = 5
    BY <1>1, <1>9 DEF RegionOf
  <2>3. Ob0(p)[5] = Uct0(p) /\ ObUnits(p)[5] = 12
    BY DEF Ob0, ObUnits
  <2> QED
    BY <1>1, <1>2, <2>1, <2>2, <2>3
<1>10. CASE i \in (r + 34)..(r + 36) /\ RootAt(p, i, w)
  <2>1. x = Root0(p) /\ n = 1
    BY <1>10 DEF RootAt
  <2>2. RegionOf(p, i) = 6
    BY <1>1, <1>10 DEF RegionOf
  <2>3. Ob0(p)[6] = Root0(p) /\ ObUnits(p)[6] = Cu(p)
    BY DEF Ob0, ObUnits
  <2> QED
    BY <1>1, <1>2, <2>1, <2>2, <2>3
<1> HIDE DEF r
<1> QED
  BY <1>2, <1>3, <1>4, <1>5, <1>6, <1>7, <1>8, <1>9, <1>10 DEF WriteIs, r

\* The objects do not overlap.
LEMMA Apart ==
  ASSUME NEW p, IsParam(p), CheckSize(p), NEW a \in 1..6, NEW b \in 1..6
  PROVE  /\ Ob0(p)[a] \in Nat /\ ObUnits(p)[a] \in Nat
         /\ a < b => Ob0(p)[a] + ObUnits(p)[a] <= Ob0(p)[b]
         /\ Ob0(p)[a] + ObUnits(p)[a] <= Units(p)
<1> DEFINE s == Su(p)
           f == FatUnits(p)
           c == Cbm0(p)
           m == CbmUnits(p)
           u == Uct0(p)
           r == Root0(p)
           k == Cu(p)
           n == Units(p)
<1>1. /\ s \in {1, 2, 4, 8} /\ k \in Nat /\ f \in Nat /\ m \in Nat /\ n \in Nat
      /\ c \in Nat /\ u \in Nat /\ r \in Nat /\ 128 * s + f <= c /\ c + m <= u
      /\ u + 12 <= r /\ r + k <= n
  BY Map
<1>2. Ob0(p) = <<0, 12 * s, 128 * s, c, u, r>> /\ ObUnits(p) = <<12 * s, 12 * s, f, m, 12, k>>
  BY DEF Ob0, ObUnits
<1> DEFINE X == Ob0(p)
           Y == ObUnits(p)
<1>3. /\ X[1] = 0 /\ X[2] = 12 * s /\ X[3] = 128 * s /\ X[4] = c /\ X[5] = u /\ X[6] = r
      /\ Y[1] = 12 * s /\ Y[2] = 12 * s /\ Y[3] = f /\ Y[4] = m /\ Y[5] = 12 /\ Y[6] = k
  BY <1>2
<1> HIDE DEF X, Y, s, f, c, m, u, r, k, n
<1>4. /\ X[1] \in Nat /\ X[2] \in Nat /\ X[3] \in Nat /\ X[4] \in Nat /\ X[5] \in Nat
      /\ X[6] \in Nat /\ Y[1] \in Nat /\ Y[2] \in Nat /\ Y[3] \in Nat /\ Y[4] \in Nat
      /\ Y[5] \in Nat /\ Y[6] \in Nat
  BY <1>1, <1>3
<1>5. /\ X[1] + Y[1] <= X[2] /\ X[2] + Y[2] <= X[3] /\ X[3] + Y[3] <= X[4]
      /\ X[4] + Y[4] <= X[5] /\ X[5] + Y[5] <= X[6] /\ X[6] + Y[6] <= n
  BY <1>1, <1>3
<1>6. a = 1 \/ a = 2 \/ a = 3 \/ a = 4 \/ a = 5 \/ a = 6
  OBVIOUS
<1>7. b = 1 \/ b = 2 \/ b = 3 \/ b = 4 \/ b = 5 \/ b = 6
  OBVIOUS
<1>8. X[a] \in Nat /\ Y[a] \in Nat
  BY <1>4, <1>6
<1>9. X[a] + Y[a] <= n
  BY <1>1, <1>4, <1>5, <1>6
<1>10. a < b => X[a] + Y[a] <= X[b]
  BY <1>4, <1>5, <1>6, <1>7
<1> QED
  BY <1>8, <1>9, <1>10 DEF X, Y, n

\* A write, whole or torn, leaves the other objects alone.
LEMMA Elsewhere ==
  ASSUME NEW p, IsParam(p), CheckSize(p), NEW d, OnVolume(p, d),
         NEW i \in 1..(Rt(p) + 36), NEW w, w = Writes(p)[i], NEW n \in 0..Len(w.data),
         NEW a \in 1..6, a # RegionOf(p, i), NEW u \in Int,
         Ob0(p)[a] <= u, u < Ob0(p)[a] + ObUnits(p)[a]
  PROVE  u \in DOMAIN d /\ Apply(d, w, n)[u] = d[u]
<1> DEFINE b == RegionOf(p, i)
           X == Ob0(p)
           Y == ObUnits(p)
           l == Len(w.data)
<1>1. b \in 1..6 /\ w.u \in Nat /\ l \in Nat /\ X[b] <= w.u /\ w.u + l <= X[b] + Y[b]
  BY Within
<1>2. /\ X[a] \in Nat /\ Y[a] \in Nat /\ X[b] \in Nat /\ Y[b] \in Nat
      /\ X[a] + Y[a] <= Units(p) /\ (a < b => X[a] + Y[a] <= X[b]) /\ (b < a => X[b] + Y[b] <= X[a])
  <2> HIDE DEF b
  <2> QED
    BY <1>1, Apart
<1>3. a < b \/ b < a
  BY <1>1
<1> HIDE DEF b, X, Y, l
<1>4. n \in Nat /\ n <= l
  BY <1>1 DEF l
<1>5. u < w.u \/ u >= w.u + n
  <2>1. X[a] <= u /\ u < X[a] + Y[a]
    BY DEF X, Y
  <2> DEFINE xa == X[a]
             ya == Y[a]
             xb == X[b]
             yb == Y[b]
             v == w.u
  <2>2. /\ xa \in Nat /\ ya \in Nat /\ xb \in Nat /\ yb \in Nat /\ v \in Nat /\ l \in Nat
        /\ xa <= u /\ u < xa + ya /\ xb <= v /\ v + l <= xb + yb
        /\ xa + ya <= xb \/ xb + yb <= xa
    BY <1>1, <1>2, <1>3, <2>1
  <2> HIDE DEF xa, ya, xb, yb, v
  <2>3. u < v \/ u >= v + n
    BY <1>4, <2>2
  <2> QED
    BY <2>3 DEF v
<1>6. u \in DOMAIN d
  <2>1. X[a] <= u /\ u < X[a] + Y[a] /\ Units(p) \in Nat
    BY Map DEF X, Y
  <2>2. u \in 0..(Units(p) - 1)
    BY <1>2, <2>1
  <2> QED
    BY <2>2 DEF OnVolume
<1> QED
  BY <1>1, <1>4, <1>5, <1>6, Miss

\* Which write it is, of those up to the FAT.
LEMMA EarlyWrites ==
  ASSUME NEW p, Rt(p) \in Nat, NEW i \in Int, NEW w, WriteIs(p, i, w)
  PROVE  /\ i \in 1..6 => EraseAt(p, i, w)
         /\ i = 7 => SuperAt(p, i, w)
         /\ i \in 8..18 => BootAt(p, i, w)
         /\ i \in 31..(Rt(p) + 31) => FatAt(p, i, w)
<1> DEFINE r == Rt(p)
           late == i = r + 32 \/ i = r + 33 \/ i \in (r + 34)..(r + 36)
<1>1. /\ i \in 1..6 => i # 7 /\ i \notin 8..18 /\ i \notin 19..30 /\ i \notin 31..(r + 31) /\ ~late
      /\ i = 7 => i \notin 1..6 /\ i \notin 8..18 /\ i \notin 19..30 /\ i \notin 31..(r + 31) /\ ~late
  OBVIOUS
<1>2. /\ i \in 8..18 => i \notin 1..6 /\ i # 7 /\ i \notin 19..30 /\ i \notin 31..(r + 31) /\ ~late
      /\ i \in 31..(r + 31) => i \notin 1..6 /\ i # 7 /\ i \notin 8..18 /\ i \notin 19..30 /\ ~late
  OBVIOUS
<1>3. \/ i \in 1..6 /\ EraseAt(p, i, w)
      \/ i = 7 /\ SuperAt(p, i, w)
      \/ i \in 8..18 /\ BootAt(p, i, w)
      \/ i \in 19..30
      \/ i \in 31..(r + 31) /\ FatAt(p, i, w)
      \/ late
  BY Zenon DEF WriteIs
<1> QED
  BY <1>1, <1>2, <1>3, Zenon

\* The start of the device is left alone, but when it is erased and when the
\* super block is written.
LEMMA StartKept ==
  ASSUME NEW p, IsParam(p), CheckSize(p), NEW d, OnVolume(p, d),
         NEW i \in 1..(Rt(p) + 36), NEW w, w = Writes(p)[i], NEW n \in 0..Len(w.data),
         i # 1, i # 7
  PROVE  Apply(d, w, n)[0] = d[0]
<1> DEFINE u == 0
<1>1. Su(p) \in {1, 2, 4, 8} /\ Rt(p) \in Nat /\ Units(p) \in Nat
  BY Map
<1>2. w.u \in Nat /\ Len(w.data) \in Nat /\ WriteIs(p, i, w)
  BY WriteNamed
<1>3. CASE i \in 8..18
  <2>1. BootAt(p, i, w)
    BY <1>1, <1>2, <1>3, EarlyWrites
  <2>2. w.u >= 1
    BY <2>1 DEF BootAt
  <2>3. u \in DOMAIN d /\ u \in Int /\ (u < w.u \/ u >= w.u + n) /\ n \in Nat
    <3>1. \E size \in Nat : size > 0 /\ DOMAIN d = 0..(size - 1)
      BY DEF OnVolume, Device
    <3> QED
      BY <1>2, <2>2, <3>1
  <2> HIDE DEF u
  <2>4. Apply(d, w, n)[u] = d[u]
    BY <1>2, <2>3, Miss
  <2> QED
    BY <2>4 DEF u
<1>4. CASE i \notin 8..18
  <2> DEFINE a == 1
  <2>1. a # RegionOf(p, i) /\ a \in 1..6
    BY <1>1, <1>4 DEF RegionOf
  <2>2. Ob0(p)[a] <= u /\ u < Ob0(p)[a] + ObUnits(p)[a] /\ u \in Int
    BY <1>1 DEF Ob0, ObUnits
  <2> HIDE DEF u, a
  <2>3. Apply(d, w, n)[u] = d[u]
    BY <2>1, <2>2, Elsewhere
  <2> QED
    BY <2>3 DEF u
<1> QED
  BY <1>3, <1>4

\* The super block, write by write.
LEMMA SuperStep ==
  ASSUME NEW p, IsParam(p), CheckSize(p), NEW d, OnVolume(p, d),
         NEW i \in 1..(Rt(p) + 36), NEW w, w = Writes(p)[i], SuperStage(p, i, d)
  PROVE  SuperStage(p, i + 1, Apply(d, w, Len(w.data)))
<1> DEFINE n == Len(w.data)
           e == Apply(d, w, n)
<1>1. Su(p) \in {1, 2, 4, 8} /\ Rt(p) \in Nat
  BY Map
<1>2. w.u \in Nat /\ Len(w.data) \in Nat /\ WriteIs(p, i, w)
  BY WriteNamed
<1>3. n \in 0..Len(w.data) /\ n \in Nat
  BY <1>2
<1>4. 0 \in DOMAIN d
  BY DEF OnVolume, Device
<1>5. CASE i = 1
  <2>1. EraseAt(p, i, w)
    BY <1>1, <1>2, <1>5, EarlyWrites
  <2>2. w.whole = TRUE /\ w.u = 0 /\ Len(w.data) = 12 * Su(p) /\ 1 \in 1..Len(w.data)
        /\ w.data[1] = Zero /\ Len(w.data) >= 1
    BY <1>1, <1>5, <2>1 DEF EraseAt, Ob0, ObUnits
  <2> DEFINE u == 0
  <2>3. u \in DOMAIN d /\ u \in Nat /\ w.u = u /\ n >= 1
    BY <1>4, <2>2
  <2>4. e[0].k = "zero"
    <3> HIDE DEF n, u
    <3>2. w.whole = TRUE
      BY <2>2
    <3>3. FirstHit(d, w, n, u)
      BY ONLY <1>3, <2>3, <3>2, HitFirst
    <3>1. e[u] = w.data[1]
      BY <3>3 DEF FirstHit
    <3> HIDE DEF e
    <3> QED
      BY <2>2, <3>1 DEF Zero, u
  <2> HIDE DEF e
  <2> QED
    BY <1>5, <2>4 DEF SuperStage, e
<1>6. CASE i = 7
  <2>1. SuperAt(p, i, w)
    BY <1>1, <1>2, <1>6, EarlyWrites
  <2>2. w.whole = TRUE /\ w.u = 0 /\ Len(w.data) = 1 /\ w.data[1] = Only("sb", 0, InitSb(p))
    BY <2>1 DEF SuperAt
  <2> DEFINE u == 0
  <2>3. u \in DOMAIN d /\ u \in Nat /\ w.u = u /\ n >= 1
    BY <1>4, <2>2
  <2>4. e[0] = Only("sb", 0, InitSb(p))
    <3> HIDE DEF n, u
    <3>2. w.whole = TRUE
      BY <2>2
    <3>3. FirstHit(d, w, n, u)
      BY ONLY <1>3, <2>3, <3>2, HitFirst
    <3>1. e[u] = w.data[1]
      BY <3>3 DEF FirstHit
    <3> HIDE DEF e
    <3> QED
      BY <2>2, <3>1 DEF u
  <2> HIDE DEF e
  <2> QED
    BY <1>6, <2>4 DEF SuperStage, e
<1>7. CASE i # 1 /\ i # 7
  <2>1. e[0] = d[0]
    BY <1>3, <1>7, StartKept
  <2> HIDE DEF e
  <2>2. SuperStage(p, i + 1, e)
    BY <1>1, <1>7, <2>1 DEF SuperStage
  <2> QED
    BY <2>2 DEF e
<1> QED
  BY <1>5, <1>6, <1>7

\* The boot region of a volume with sectors of 512 bytes, write by write.
LEMMA BootStep ==
  ASSUME NEW p, IsParam(p), CheckSize(p), NEW d, OnVolume(p, d),
         NEW i \in 1..(Rt(p) + 36), NEW w, w = Writes(p)[i], BootStage(p, i, d)
  PROVE  BootStage(p, i + 1, Apply(d, w, Len(w.data)))
<1> DEFINE n == Len(w.data)
           e == Apply(d, w, n)
<1> SUFFICES ASSUME Su(p) = 1, NEW j \in 1..11, i + 1 > 7 + j PROVE e[j] = VbrUnit(p, j)
  BY DEF BootStage
<1>1. Rt(p) \in Nat /\ Units(p) \in Nat
  BY Map
<1>2. w.u \in Nat /\ Len(w.data) \in Nat /\ WriteIs(p, i, w)
  BY WriteNamed
<1>3. n \in 0..Len(w.data) /\ n \in Nat
  BY <1>2
<1>4. Ob0(p)[1] = 0 /\ ObUnits(p)[1] = 12
  BY DEF Ob0, ObUnits
<1>5. j \in DOMAIN d /\ j \in Int
  <2> DEFINE a == 1
  <2>1. a \in 1..6 /\ Ob0(p)[a] = 0 /\ ObUnits(p)[a] = 12
    BY <1>4
  <2> HIDE DEF a
  <2>2. Ob0(p)[a] + ObUnits(p)[a] <= Units(p)
    BY <2>1, Apart
  <2> QED
    BY <1>1, <2>1, <2>2 DEF OnVolume
<1>6. CASE i \in 8..18
  <2>1. BootAt(p, i, w)
    BY <1>1, <1>2, <1>6, EarlyWrites
  <2>2. w.whole = TRUE /\ w.u = i - 7 /\ Len(w.data) = 1 /\ w.data[1] = VbrUnit(p, i - 7)
    BY <2>1 DEF BootAt
  <2>3. CASE j = i - 7
    <3>1. w.u = j /\ n >= 1 /\ j \in Nat
      BY <2>2, <2>3
    <3>2. e[j] = w.data[1]
      <4> HIDE DEF n
      <4>1. w.whole = TRUE
        BY <2>2
      <4>2. FirstHit(d, w, n, j)
        BY ONLY <1>3, <1>5, <3>1, <4>1, HitFirst
      <4> QED
        BY <4>2 DEF FirstHit
    <3> HIDE DEF e
    <3> QED
      BY <2>2, <2>3, <3>2
  <2>4. CASE j # i - 7
    <3>1. j < w.u \/ j >= w.u + Len(w.data)
      BY <1>6, <2>2, <2>4
    <3>2. e[j] = d[j]
      BY <1>2, <1>5, <3>1, Miss
    <3>3. i > 7 + j
      BY <1>6, <2>4
    <3> HIDE DEF e
    <3> QED
      BY <3>2, <3>3 DEF BootStage
  <2> QED
    BY <2>3, <2>4
<1>7. CASE i \notin 8..18
  <2>1. i >= 19 /\ i > 7 + j
    BY <1>7
  <2> DEFINE a == 1
  <2>2. a # RegionOf(p, i) /\ a \in 1..6 /\ Ob0(p)[a] = 0 /\ ObUnits(p)[a] = 12
    BY <1>1, <1>4, <2>1 DEF RegionOf
  <2> HIDE DEF a
  <2>3. Ob0(p)[a] <= j /\ j < Ob0(p)[a] + ObUnits(p)[a]
    BY <2>2
  <2>4. e[j] = d[j]
    <3> HIDE DEF n
    <3> QED
      BY ONLY IsParam(p), CheckSize(p), OnVolume(p, d), i \in 1..(Rt(p) + 36),
              w = Writes(p)[i], <1>3, <1>5, <2>2, <2>3, Elsewhere
  <2> HIDE DEF e
  <2> QED
    BY <2>1, <2>4 DEF BootStage
<1> QED
  BY <1>6, <1>7

\* The entry of the root directory in the FAT is changed when the FAT is
\* erased and written.
RootCellSame(p, d, e) == RootCell(p, e) = RootCell(p, d)

\* The entry depends on one unit alone.
LEMMA RootCellUnit ==
  ASSUME NEW p, IsParam(p), CheckSize(p), NEW d, NEW e, OnVolume(p, d), DOMAIN e = DOMAIN d,
         NEW x, x = 128 * Su(p) + Rt(p) \div FatCells, e[x] = d[x]
  PROVE  RootCellSame(p, d, e)
  BY DEF RootCellSame, RootCell, CellAt

\* The unit with the entry of the root directory.
LEMMA RootCellAt ==
  ASSUME NEW p, IsParam(p), CheckSize(p), NEW d, OnVolume(p, d)
  PROVE  \E x \in Nat : /\ x = 128 * Su(p) + Rt(p) \div FatCells /\ x \in DOMAIN d
                        /\ Ob0(p)[3] <= x /\ x < Ob0(p)[3] + ObUnits(p)[3]
<1> DEFINE f == FatUnits(p)
           q == Rt(p) \div FatCells
           n == Units(p)
           s == Su(p)
           x == 128 * s + q
<1>1. /\ s \in {1, 2, 4, 8} /\ n \in Nat /\ f \in Nat /\ q \in Nat /\ 128 * s + q < 128 * s + f
      /\ Cbm0(p) \in Nat /\ 128 * s + f <= Cbm0(p) /\ Cbm0(p) + CbmUnits(p) <= Uct0(p)
      /\ Uct0(p) + 12 <= Root0(p) /\ Root0(p) + Cu(p) <= n
      /\ CbmUnits(p) \in Nat /\ Uct0(p) \in Nat /\ Root0(p) \in Nat /\ Cu(p) \in Nat
  BY Map
<1>2. Ob0(p)[3] = 128 * s /\ ObUnits(p)[3] = f
  BY DEF Ob0, ObUnits
<1> HIDE DEF s, f, q, n
<1>3. x \in Nat /\ 128 * s <= x /\ x < 128 * s + f /\ x < n
  BY <1>1
<1>4. x \in DOMAIN d
  BY <1>1, <1>3 DEF OnVolume, n
<1> QED
  BY <1>2, <1>3, <1>4 DEF s, q

\* Writes of other regions leave the entry alone.
LEMMA RootCellKept ==
  ASSUME NEW p, IsParam(p), CheckSize(p), NEW d, OnVolume(p, d),
         NEW i \in 1..(Rt(p) + 36), NEW w, w = Writes(p)[i], NEW n \in 0..Len(w.data),
         RegionOf(p, i) # 3 \/ n = 0
  PROVE  RootCellSame(p, d, Apply(d, w, n))
<1>1. PICK x \in Nat : /\ x = 128 * Su(p) + Rt(p) \div FatCells /\ x \in DOMAIN d
                       /\ Ob0(p)[3] <= x /\ x < Ob0(p)[3] + ObUnits(p)[3]
  BY RootCellAt
<1>2. w.u \in Nat
  BY WriteNamed
<1> DEFINE e == Apply(d, w, n)
<1>3. e[x] = d[x]
  <2>1. CASE RegionOf(p, i) # 3
    <3> DEFINE a == 3
    <3>1. a \in 1..6 /\ a # RegionOf(p, i) /\ x \in Int
          /\ Ob0(p)[a] <= x /\ x < Ob0(p)[a] + ObUnits(p)[a]
      BY <1>1, <2>1
    <3> HIDE DEF a
    <3> QED
      BY <3>1, Elsewhere
  <2>2. CASE n = 0
    <3>1. x \notin w.u..(w.u + n - 1)
      BY <1>2, <2>2
    <3> QED
      BY <1>1, <3>1, ApplyOff
  <2> QED
    BY <2>1, <2>2
<1>4. DOMAIN e = DOMAIN d
  BY ApplyOff
<1> HIDE DEF e
<1>5. RootCellSame(p, d, e)
  BY <1>1, <1>3, <1>4, RootCellUnit
<1> QED
  BY <1>5 DEF e

\* The FAT, write by write.
LEMMA FatStep ==
  ASSUME NEW p, IsParam(p), CheckSize(p), NEW d, OnVolume(p, d),
         NEW i \in 1..(Rt(p) + 36), NEW w, w = Writes(p)[i], FatStage(p, i, d)
  PROVE  FatStage(p, i + 1, Apply(d, w, Len(w.data)))
<1> DEFINE n == Len(w.data)
           e == Apply(d, w, n)
           r == Rt(p)
<1>1. Su(p) \in {1, 2, 4, 8} /\ r \in Nat
  BY Map
<1>2. w.u \in Nat /\ n \in Nat /\ WriteIs(p, i, w)
  BY WriteNamed
<1>3. n \in 0..Len(w.data)
  BY <1>2
<1>4. PICK x \in Nat : /\ x = 128 * Su(p) + r \div FatCells /\ x \in DOMAIN d
                       /\ Ob0(p)[3] <= x /\ x < Ob0(p)[3] + ObUnits(p)[3]
  BY RootCellAt
<1>5. CASE RegionOf(p, i) # 3
  <2>1. RootCellSame(p, d, e)
    <3> HIDE DEF n
    <3> QED
      BY <1>3, <1>5, RootCellKept
  <2>2. i # 3 /\ i # r + 31
    BY <1>1, <1>5 DEF RegionOf
  <2> HIDE DEF e, r
  <2>3. FatStage(p, i + 1, e)
    BY <1>1, <2>1, <2>2 DEF FatStage, RootCellSame, r
  <2> QED
    BY <2>3 DEF e
<1>6. CASE i = 3
  <2>1. EraseAt(p, i, w)
    BY <1>1, <1>2, <1>6, EarlyWrites
  <2>2. /\ w.whole = TRUE /\ w.u = Ob0(p)[3] /\ n = ObUnits(p)[3]
        /\ \A j \in 1..n : w.data[j] = Zero
    BY <1>6, <2>1 DEF EraseAt
  <2>3. e[x] = Zero
    <3> HIDE DEF n
    <3>1. x >= w.u /\ x < w.u + n /\ x \in Int
      BY <1>4, <2>2
    <3>2. e[x] = w.data[x - w.u + 1]
      <4>1. w.whole = TRUE
        BY <2>2
      <4>2. WholeHit(d, w, n, x)
        BY ONLY <1>2, <1>4, <3>1, <4>1, HitWhole
      <4> QED
        BY <4>2 DEF WholeHit
    <3>3. x - w.u + 1 \in 1..n
      BY <1>2, <3>1
    <3> HIDE DEF e
    <3> QED
      BY <2>2, <3>2, <3>3
  <2> HIDE DEF e
  <2>4. RootCell(p, e) = 0
    BY <1>4, <2>3 DEF RootCell, CellAt, Zero
  <2>5. ~(i + 1 >= r + 32)
    BY <1>1, <1>6
  <2>6. FatStage(p, i + 1, e)
    <3> HIDE DEF r
    <3> QED
      BY <2>4, <2>5 DEF FatStage, r
  <2> QED
    BY <2>6 DEF e
<1>7. CASE i \in 31..(r + 31)
  <2> DEFINE v == FatEntries(p)[i - 30]
             z == i - 31
             new == w.data[1]
  <2>1. FatAt(p, i, w)
    BY <1>1, <1>2, <1>7, EarlyWrites
  <2>2. /\ w.whole = FALSE /\ w.u = 128 * Su(p) + z \div FatCells /\ n = 1
        /\ new = [k |-> "fat", c |-> Cell(z % FatCells, v)]
    BY <2>1 DEF FatAt
  <2>3. z \in 0..r /\ (i = r + 31 <=> z = r)
    BY <1>1, <1>7
  <2>4. z = r => v = End
    <3>1. FatEntries(p)[r + 1] = End
      BY FatEntriesAre
    <3>2. z = r => i - 30 = r + 1
      BY <1>1
    <3> QED
      BY <3>1, <3>2
  <2>5. RootCell(p, d) \in {0, End}
    BY <1>7 DEF FatStage
  <2>6. /\ RootCell(p, e) \in {RootCell(p, d), 0, End}
        /\ z = r => RootCell(p, e) = End
    <3>1. CASE w.u # x
      <4>1. z # r
        BY <1>4, <2>2, <3>1
      <4>2. x \notin w.u..(w.u + n - 1)
        BY <1>2, <2>2, <3>1
      <4>3. e[x] = d[x] /\ DOMAIN e = DOMAIN d
        BY <1>4, <4>2, ApplyOff
      <4>4. RootCellSame(p, d, e)
        <5> HIDE DEF e
        <5> QED
          BY <1>4, <4>3, RootCellUnit
      <4> HIDE DEF e
      <4> QED
        BY <4>1, <4>4 DEF RootCellSame
    <3>2. CASE w.u = x
      <4>1. z \div FatCells = r \div FatCells
        <5>1. z \div FatCells \in Int /\ r \div FatCells \in Int
          BY <1>1, <2>3 DEF FatCells
        <5> QED
          BY <1>1, <1>4, <2>2, <3>2, <5>1
      <4>2. z % FatCells = r % FatCells => z = r
        <5> HIDE DEF z, r
        <5> QED
          BY <1>1, <2>3, <4>1 DEF FatCells
      <4>3. e[x] = IF d[x].k # new.k THEN new
                   ELSE [new EXCEPT !.c = Over(new.c, d[x].c)]
        <5>1. w.whole = FALSE
          BY <2>2
        <5>2. PartHit(d, w, n, x)
          <6>1. n = 1 /\ x \in DOMAIN d /\ x \in Int /\ w.u \in Nat /\ x = w.u
            BY <1>2, <1>4, <2>2, <3>2
          <6> HIDE DEF n
          <6> QED
            BY ONLY <5>1, <6>1, HitPart
        <5> QED
          BY <5>2 DEF PartHit, Mix
      <4>4. DOMAIN e = DOMAIN d
        BY ApplyOff
      <4> HIDE DEF e, new, v, z, r
      <4>5. new.k = "fat" /\ new.c = Cell(z % FatCells, v)
        BY <2>2
      <4>6. e[x].k = "fat"
        BY <2>2, <4>3
      <4>7. \/ e[x].c = new.c
            \/ d[x].k = "fat" /\ e[x].c = Over(new.c, d[x].c)
        BY <2>2, <4>3, <4>5
      <4> DEFINE m == r % FatCells
      <4>8. RootCell(p, e) = IF m \in DOMAIN e[x].c THEN e[x].c[m] ELSE 0
        BY <1>4, <4>4, <4>6 DEF RootCell, CellAt, r
      <4>9. RootCell(p, d) = IF d[x].k = "fat" /\ m \in DOMAIN d[x].c THEN d[x].c[m] ELSE 0
        BY <1>4 DEF RootCell, CellAt, r
      <4>10. DOMAIN new.c = {z % FatCells} /\ new.c[z % FatCells] = v
        BY <4>5 DEF Cell
      <4>11. m \in DOMAIN new.c => z = r /\ new.c[m] = End
        BY <2>4, <4>2, <4>10
      <4>12. z = r => m \in DOMAIN new.c
        BY <4>10
      <4> HIDE DEF m
      <4>13. CASE e[x].c = new.c
        BY <4>8, <4>11, <4>12, <4>13
      <4>14. CASE d[x].k = "fat" /\ e[x].c = Over(new.c, d[x].c)
        <5>1. /\ m \in DOMAIN e[x].c <=> m \in DOMAIN new.c \/ m \in DOMAIN d[x].c
              /\ m \in DOMAIN e[x].c =>
                   e[x].c[m] = IF m \in DOMAIN new.c THEN new.c[m] ELSE d[x].c[m]
          BY <4>14 DEF Over
        <5> QED
          BY <4>8, <4>9, <4>11, <4>12, <4>14, <5>1
      <4> QED
        BY <4>7, <4>13, <4>14
    <3> QED
      BY <3>1, <3>2
  <2> HIDE DEF e, v, z, new
  <2>7. RootCell(p, e) \in {0, End} /\ (i = r + 31 => RootCell(p, e) = End)
    BY <2>3, <2>5, <2>6
  <2>8. i + 1 >= r + 32 => i = r + 31
    BY <1>1, <1>7
  <2>9. FatStage(p, i + 1, e)
    <3> HIDE DEF r
    <3> QED
      BY <2>7, <2>8 DEF FatStage, r
  <2> QED
    BY <2>9 DEF e
<1>8. RegionOf(p, i) = 3 => i = 3 \/ i \in 31..(r + 31)
  BY <1>1 DEF RegionOf
<1> QED
  BY <1>5, <1>6, <1>7, <1>8

\* The units of an object.
In(p, a, u) == u \in Int /\ Ob0(p)[a] <= u /\ u < Ob0(p)[a] + ObUnits(p)[a]

Kept(d, w, n, u) == Apply(d, w, n)[u] = d[u]

\* A write leaves the other objects alone.
LEMMA OthersKept ==
  ASSUME NEW p, IsParam(p), CheckSize(p), NEW d, OnVolume(p, d),
         NEW i \in 1..(Rt(p) + 36), NEW w, w = Writes(p)[i], NEW n \in 0..Len(w.data),
         NEW a \in 1..6, a # RegionOf(p, i), NEW u, In(p, a, u)
  PROVE  Kept(d, w, n, u)
  BY Elsewhere DEF In, Kept

\* Erasing an object leaves zeros.
ZeroHit(d, w, n, u) == Apply(d, w, n)[u] = Zero

\* Each write of erase() does so in its own region.
LEMMA EraseHit ==
  ASSUME NEW p, IsParam(p), CheckSize(p), NEW d, OnVolume(p, d),
         NEW i \in 1..6, NEW w, w = Writes(p)[i], NEW n, n = Len(w.data), NEW u, In(p, i, u)
  PROVE  ZeroHit(d, w, n, u)
<1>1. Rt(p) \in Nat /\ Units(p) \in Nat
  BY Map
<1>2. i \in 1..(Rt(p) + 36)
  BY <1>1
<1>3. w.u \in Nat /\ n \in Nat /\ WriteIs(p, i, w)
  BY <1>2, WriteNamed
<1>4. EraseAt(p, i, w)
  <2>1. i \in Int /\ i \in 1..6
    OBVIOUS
  <2> QED
    BY ONLY <1>1, <1>3, <2>1, EarlyWrites
<1>5. /\ w.whole = TRUE /\ w.u = Ob0(p)[i] /\ n = ObUnits(p)[i]
      /\ \A j \in 1..n : w.data[j] = Zero
  BY <1>4 DEF EraseAt
<1>6. u >= w.u /\ u < w.u + n /\ u \in Int
  BY <1>5 DEF In
<1>7. u \in DOMAIN d
  <2>1. Ob0(p)[i] + ObUnits(p)[i] <= Units(p)
    BY Apart
  <2>2. u \in 0..(Units(p) - 1)
    BY <1>1, <1>3, <1>5, <1>6, <2>1
  <2> QED
    BY <2>2 DEF OnVolume
<1>8. WholeHit(d, w, n, u)
  <2>1. w.whole = TRUE
    BY <1>5
  <2> QED
    BY ONLY <1>3, <1>6, <1>7, <2>1, HitWhole
<1>9. u - w.u + 1 \in 1..n
  BY <1>3, <1>6
<1> QED
  BY <1>5, <1>8, <1>9 DEF WholeHit, ZeroHit

\* Which write it is.
LEMMA LateWrites ==
  ASSUME NEW p, Rt(p) \in Nat, NEW i \in Int, i >= Rt(p) + 32, NEW w, WriteIs(p, i, w)
  PROVE  /\ i = Rt(p) + 32 => CbmAt(p, i, w)
         /\ i = Rt(p) + 33 => UctAt(p, i, w)
         /\ i >= Rt(p) + 34 => RootAt(p, i, w)
<1>1. /\ i \notin 1..6 /\ i # 7 /\ i \notin 8..18 /\ i \notin 19..30
      /\ i \notin 31..(Rt(p) + 31)
  OBVIOUS
<1>2. /\ i = Rt(p) + 32 => i # Rt(p) + 33 /\ i \notin (Rt(p) + 34)..(Rt(p) + 36)
      /\ i = Rt(p) + 33 => i # Rt(p) + 32 /\ i \notin (Rt(p) + 34)..(Rt(p) + 36)
      /\ i >= Rt(p) + 34 => i # Rt(p) + 32 /\ i # Rt(p) + 33
  OBVIOUS
<1> QED
  BY <1>1, <1>2 DEF WriteIs

\* The bitmap, write by write.
LEMMA CbmStep ==
  ASSUME NEW p, IsParam(p), CheckSize(p), NEW d, OnVolume(p, d),
         NEW i \in 1..(Rt(p) + 36), NEW w, w = Writes(p)[i], CbmStage(p, i, d)
  PROVE  CbmStage(p, i + 1, Apply(d, w, Len(w.data)))
<1> DEFINE n == Len(w.data)
           e == Apply(d, w, n)
           r == Rt(p)
           c == Cbm0(p)
           m == CbmUnits(p)
<1>1. r \in Nat /\ c \in Nat /\ m \in Nat /\ m >= 1 /\ Units(p) \in Nat
  BY Map
<1>2. w.u \in Nat /\ n \in Nat /\ WriteIs(p, i, w)
  BY WriteNamed
<1>3. n \in 0..Len(w.data)
  BY <1>2
<1> SUFFICES ASSUME i + 1 >= 5, NEW u \in c..(c + m - 1) PROVE e[u] = CbmUnit(p, i + 1, u)
  BY DEF CbmStage
<1> DEFINE a == 4
<1>4. a \in 1..6 /\ In(p, a, u) /\ u \in DOMAIN d
  <2>1. a \in 1..6 /\ Ob0(p)[a] = c /\ ObUnits(p)[a] = m
    BY DEF Ob0, ObUnits
  <2> HIDE DEF a, c, m
  <2>2. Ob0(p)[a] + ObUnits(p)[a] <= Units(p)
    BY <2>1, Apart
  <2>3. u \in 0..(Units(p) - 1)
    BY <1>1, <2>1, <2>2
  <2> QED
    BY <1>1, <2>1, <2>3 DEF OnVolume, In
<1>5. CASE a # RegionOf(p, i)
  <2>1. e[u] = d[u]
    <3> HIDE DEF a, n
    <3>1. Kept(d, w, n, u)
      BY <1>3, <1>4, <1>5, OthersKept
    <3> QED
      BY <3>1 DEF Kept
  <2>2. i # 4 /\ i # r + 32
    BY <1>1, <1>5 DEF RegionOf
  <2>3. i >= 5 /\ (i + 1 > r + 32 <=> i > r + 32)
    BY <1>1, <2>2
  <2> HIDE DEF e, r
  <2> QED
    BY <2>1, <2>3 DEF CbmStage, CbmUnit, r
<1>6. CASE i = 4
  <2>1. ZeroHit(d, w, n, u)
    <3>1. i \in 1..6 /\ In(p, i, u)
      BY <1>4, <1>6
    <3> HIDE DEF n
    <3> QED
      BY <3>1, EraseHit DEF n
  <2>2. e[u] = Zero
    BY <2>1 DEF ZeroHit
  <2>3. ~(i + 1 > r + 32)
    BY <1>1, <1>6
  <2> HIDE DEF e, r
  <2> QED
    BY <2>2, <2>3 DEF CbmUnit, r
<1>7. CASE i = r + 32
  <2>1. CbmAt(p, i, w)
    <3>1. i \in Int /\ i >= r + 32
      BY <1>1, <1>7
    <3> QED
      BY <1>1, <1>2, <1>7, <3>1, LateWrites
  <2>2. w.u = c /\ n = 1 /\ w.data[1] = CbmBits(p)
    BY <2>1 DEF CbmAt
  <2>3. i >= 5 /\ i + 1 > r + 32 /\ ~(i > r + 32)
    BY <1>1, <1>7
  <2>4. d[u] = Zero
    <3> HIDE DEF r
    <3> QED
      BY <2>3 DEF CbmStage, CbmUnit, r
  <2>5. CASE u = c
    <3>1. PartHit(d, w, n, u)
      <4>1. w.whole = FALSE
        BY <2>1 DEF CbmAt
      <4>2. n = 1 /\ u \in DOMAIN d /\ u \in Int /\ w.u \in Nat /\ u = w.u
        BY <1>2, <1>4, <2>2, <2>5
      <4> HIDE DEF n
      <4> QED
        BY ONLY <4>1, <4>2, HitPart
    <3>2. e[u] = Mix(CbmBits(p), Zero)
      BY <2>2, <2>4, <3>1 DEF PartHit
    <3>3. Mix(CbmBits(p), Zero) = CbmBits(p)
      BY DEF Mix, CbmBits, Zero
    <3> HIDE DEF e, r
    <3> QED
      BY <2>3, <2>5, <3>2, <3>3 DEF CbmUnit, r
  <2>6. CASE u # c
    <3>1. u \notin w.u..(w.u + n - 1)
      BY <1>1, <2>2, <2>6
    <3>2. e[u] = d[u]
      BY <1>4, <3>1, ApplyOff
    <3> HIDE DEF e
    <3> QED
      BY <2>4, <2>6, <3>2 DEF CbmUnit
  <2> QED
    BY <2>5, <2>6
<1>8. a = RegionOf(p, i) => i = 4 \/ i = r + 32
  BY <1>1 DEF RegionOf
<1> QED
  BY <1>5, <1>6, <1>7, <1>8

\* The upcase table, write by write.
LEMMA UctStep ==
  ASSUME NEW p, IsParam(p), CheckSize(p), NEW d, OnVolume(p, d),
         NEW i \in 1..(Rt(p) + 36), NEW w, w = Writes(p)[i], UctStage(p, i, d)
  PROVE  UctStage(p, i + 1, Apply(d, w, Len(w.data)))
<1> DEFINE n == Len(w.data)
           e == Apply(d, w, n)
           r == Rt(p)
           c == Uct0(p)
<1>1. r \in Nat /\ c \in Nat /\ Units(p) \in Nat
  BY Map
<1>2. w.u \in Nat /\ n \in Nat /\ WriteIs(p, i, w)
  BY WriteNamed
<1>3. n \in 0..Len(w.data)
  BY <1>2
<1> SUFFICES ASSUME i + 1 > r + 33, NEW j \in 1..12 PROVE e[c + j - 1] = Only("uct", 0, j)
  BY DEF UctStage
<1> DEFINE a == 5
           u == c + j - 1
<1>4. a \in 1..6 /\ In(p, a, u) /\ u \in DOMAIN d
  <2>1. a \in 1..6 /\ Ob0(p)[a] = c /\ ObUnits(p)[a] = 12
    BY DEF Ob0, ObUnits
  <2> HIDE DEF a, c
  <2>2. Ob0(p)[a] + ObUnits(p)[a] <= Units(p)
    BY <2>1, Apart
  <2>3. u \in 0..(Units(p) - 1)
    BY <1>1, <2>1, <2>2
  <2> QED
    BY <1>1, <2>1, <2>3 DEF OnVolume, In
<1>5. CASE i = r + 33
  <2>1. UctAt(p, i, w)
    BY <1>1, <1>2, <1>5, LateWrites
  <2>2. w.u = c /\ n = 12 /\ w.data = UctUnits
    BY <2>1 DEF UctAt
  <2>3. w.data[j] = Only("uct", 0, j)
    <3>1. DivRoundUp(UctSize, UnitBytes) = 12
      BY Starts
    <3> QED
      BY <2>2, <3>1 DEF UctUnits
  <2>4. u >= w.u /\ u < w.u + n /\ u \in Int /\ u - w.u + 1 = j
    BY <1>1, <2>2
  <2>5. WholeHit(d, w, n, u)
    <3>1. w.whole = TRUE
      BY <2>1 DEF UctAt
    <3> HIDE DEF n, u
    <3> QED
      BY ONLY <1>2, <1>4, <2>4, <3>1, HitWhole
  <2> HIDE DEF u
  <2>6. e[u] = Only("uct", 0, j)
    BY <2>3, <2>4, <2>5 DEF WholeHit
  <2> QED
    BY <2>6 DEF u
<1>6. CASE i # r + 33
  <2>1. i > r + 33
    BY <1>1, <1>6
  <2>2. a # RegionOf(p, i)
    BY <1>1, <2>1 DEF RegionOf
  <2>3. e[u] = d[u]
    <3> HIDE DEF a, n, u
    <3>1. Kept(d, w, n, u)
      BY <1>3, <1>4, <2>2, OthersKept
    <3> QED
      BY <3>1 DEF Kept
  <2> HIDE DEF e, r
  <2> QED
    BY <2>1, <2>3 DEF UctStage, r
<1> QED
  BY <1>5, <1>6

\* The entries of the root directory, one more.
LEMMA OneMore ==
  ASSUME NEW p, NEW j \in Nat, j >= 1
  PROVE  Over(Cell(j, RootEntry(p, j)), [x \in 0..(j - 1) |-> RootEntry(p, x)])
           = [x \in 0..j |-> RootEntry(p, x)]
<1> DEFINE f == Cell(j, RootEntry(p, j))
           g == [x \in 0..(j - 1) |-> RootEntry(p, x)]
<1>1. DOMAIN f = {j} /\ DOMAIN g = 0..(j - 1) /\ f[j] = RootEntry(p, j)
  BY DEF Cell
<1>2. DOMAIN f \cup DOMAIN g = 0..j
  BY <1>1
<1>3. ASSUME NEW x \in 0..j PROVE (IF x \in DOMAIN f THEN f[x] ELSE g[x]) = RootEntry(p, x)
  <2>1. CASE x = j
    BY <1>1, <2>1
  <2>2. CASE x # j
    <3>1. x \in 0..(j - 1)
      BY <2>2
    <3> QED
      BY <1>1, <2>2, <3>1
  <2> QED
    BY <2>1, <2>2
<1> HIDE DEF f, g
<1>4. Over(f, g) = [x \in 0..j |-> RootEntry(p, x)]
  BY <1>2, <1>3 DEF Over
<1> QED
  BY <1>4 DEF f, g

\* The root directory, write by write.
LEMMA RootStep ==
  ASSUME NEW p, IsParam(p), CheckSize(p), NEW d, OnVolume(p, d),
         NEW i \in 1..(Rt(p) + 36), NEW w, w = Writes(p)[i], RootStage(p, i, d)
  PROVE  RootStage(p, i + 1, Apply(d, w, Len(w.data)))
<1> DEFINE n == Len(w.data)
           e == Apply(d, w, n)
           r == Rt(p)
           c == Root0(p)
           m == Cu(p)
<1>1. r \in Nat /\ c \in Nat /\ m \in Nat /\ m >= 1 /\ Units(p) \in Nat
  BY Map
<1>2. w.u \in Nat /\ n \in Nat /\ WriteIs(p, i, w)
  BY WriteNamed
<1>3. n \in 0..Len(w.data)
  BY <1>2
<1> SUFFICES ASSUME i + 1 >= 7, NEW u \in c..(c + m - 1) PROVE e[u] = RootUnit(p, i + 1, u)
  BY DEF RootStage
<1> DEFINE a == 6
<1>4. a \in 1..6 /\ In(p, a, u) /\ u \in DOMAIN d
  <2>1. a \in 1..6 /\ Ob0(p)[a] = c /\ ObUnits(p)[a] = m
    BY DEF Ob0, ObUnits
  <2> HIDE DEF a, c, m
  <2>2. Ob0(p)[a] + ObUnits(p)[a] <= Units(p)
    BY <2>1, Apart
  <2>3. u \in 0..(Units(p) - 1)
    BY <1>1, <2>1, <2>2
  <2> QED
    BY <1>1, <2>1, <2>3 DEF OnVolume, In
<1>5. CASE a # RegionOf(p, i)
  <2>1. e[u] = d[u]
    <3> HIDE DEF a, n
    <3>1. Kept(d, w, n, u)
      BY <1>3, <1>4, <1>5, OthersKept
    <3> QED
      BY <3>1 DEF Kept
  <2>2. i # 6 /\ ~(i >= r + 34)
    BY <1>1, <1>5 DEF RegionOf
  <2>3. i >= 7 /\ ~(i > r + 34) /\ ~(i + 1 > r + 34)
    BY <1>1, <2>2
  <2> HIDE DEF e, r
  <2> QED
    BY <2>1, <2>3 DEF RootStage, RootUnit, r
<1>6. CASE i = 6
  <2>1. ZeroHit(d, w, n, u)
    <3>1. i \in 1..6 /\ In(p, i, u)
      BY <1>4, <1>6
    <3> HIDE DEF n
    <3> QED
      BY <3>1, EraseHit DEF n
  <2>2. e[u] = Zero
    BY <2>1 DEF ZeroHit
  <2>3. ~(i + 1 > r + 34)
    BY <1>1, <1>6
  <2> HIDE DEF e, r
  <2> QED
    BY <2>2, <2>3 DEF RootUnit, r
<1>7. CASE i \in (r + 34)..(r + 36)
  <2> DEFINE j == i - r - 34
             new == [k |-> "dir", c |-> Cell(j, RootEntry(p, j))]
  <2>1. RootAt(p, i, w)
    <3>1. i \in Int /\ i >= r + 32 /\ i >= r + 34
      BY <1>1, <1>7
    <3> QED
      BY <1>1, <1>2, <3>1, LateWrites
  <2>2. w.u = c /\ n = 1 /\ w.data[1] = new
    BY <2>1 DEF RootAt
  <2>3. i >= 7 /\ i + 1 > r + 34 /\ (i > r + 34 <=> j >= 1) /\ j \in Nat
        /\ i - r - 35 = j - 1 /\ (i + 1) - r - 35 = j
    BY <1>1, <1>7
  <2>4. d[u] = RootUnit(p, i, u)
    BY <2>3 DEF RootStage
  <2>5. CASE u = c
    <3>1. PartHit(d, w, n, u)
      <4>1. w.whole = FALSE
        BY <2>1 DEF RootAt
      <4>2. n = 1 /\ u \in DOMAIN d /\ u \in Int /\ w.u \in Nat /\ u = w.u
        BY <1>2, <1>4, <2>2, <2>5
      <4> HIDE DEF n
      <4> QED
        BY ONLY <4>1, <4>2, HitPart
    <3>2. e[u] = Mix(new, d[u])
      BY <2>2, <3>1 DEF PartHit
    <3> DEFINE all == [k |-> "dir", c |-> [x \in 0..j |-> RootEntry(p, x)]]
    <3>3. RootUnit(p, i + 1, u) = all
      <4> HIDE DEF j, r
      <4> QED
        BY <2>3, <2>5 DEF RootUnit, r
    <3> HIDE DEF j
    <3>4. CASE j = 0
      <4>1. d[u] = Zero
        <5> HIDE DEF r
        <5> QED
          BY <2>3, <2>4, <3>4 DEF RootUnit, r
      <4>2. Mix(new, d[u]) = new
        BY <4>1 DEF Mix, Zero
      <4>3. Cell(j, RootEntry(p, j)) = [x \in 0..j |-> RootEntry(p, x)]
        <5>1. 0..j = {j}
          BY <3>4
        <5> QED
          BY <5>1 DEF Cell
      <4> HIDE DEF e
      <4> QED
        BY <3>2, <3>3, <4>2, <4>3
    <3>5. CASE j >= 1
      <4> DEFINE old == [x \in 0..(j - 1) |-> RootEntry(p, x)]
      <4>1. d[u] = [k |-> "dir", c |-> old]
        <5> HIDE DEF r
        <5> QED
          BY <2>3, <2>4, <2>5, <3>5 DEF RootUnit, r
      <4>2. Mix(new, d[u]) = [new EXCEPT !.c = Over(new.c, d[u].c)]
        BY <4>1 DEF Mix
      <4>3. d[u].c = old
        BY <4>1
      <4>4. Over(new.c, d[u].c) = [x \in 0..j |-> RootEntry(p, x)]
        BY <2>3, <3>5, <4>3, OneMore
      <4> HIDE DEF old
      <4>5. Mix(new, d[u]) = all
        <5> DEFINE g == Over(new.c, d[u].c)
                   f == Cell(j, RootEntry(p, j))
        <5>1. [new EXCEPT !.c = g] = [k |-> "dir", c |-> g]
          <6> HIDE DEF f
          <6>1. new = [k |-> "dir", c |-> f]
            BY DEF f
          <6> HIDE DEF g, new
          <6> QED
            BY <6>1
        <5> QED
          BY <4>2, <4>4, <5>1
      <4> HIDE DEF e, new, all
      <4> QED
        BY <3>2, <3>3, <4>5
    <3> QED
      BY <2>3, <3>4, <3>5
  <2>6. CASE u # c
    <3>1. u \notin w.u..(w.u + n - 1)
      BY <1>1, <2>2, <2>6
    <3>2. e[u] = d[u]
      BY <1>4, <3>1, ApplyOff
    <3> HIDE DEF e
    <3> QED
      BY <2>4, <2>6, <3>2 DEF RootUnit
  <2> QED
    BY <2>5, <2>6
<1>8. a = RegionOf(p, i) => i = 6 \/ i \in (r + 34)..(r + 36)
  BY <1>1 DEF RegionOf
<1> QED
  BY <1>5, <1>6, <1>7, <1>8

-----------------------------------------------------------------------------
(* The stages together *)

Stage(p, i, d) ==
  /\ SuperStage(p, i, d) /\ BootStage(p, i, d) /\ FatStage(p, i, d)
  /\ CbmStage(p, i, d) /\ UctStage(p, i, d) /\ RootStage(p, i, d)

\* A format that has written nothing yet.
LEMMA FirstStage ==
  ASSUME NEW p, IsParam(p), CheckSize(p), NEW d
  PROVE  Stage(p, 1, d)
<1>1. Rt(p) \in Nat
  BY Map
<1>2. SuperStage(p, 1, d) /\ BootStage(p, 1, d)
  BY DEF SuperStage, BootStage
<1>3. ~(1 >= Rt(p) + 32) /\ ~(1 > Rt(p) + 33)
  BY <1>1
<1>4. FatStage(p, 1, d) /\ CbmStage(p, 1, d) /\ UctStage(p, 1, d) /\ RootStage(p, 1, d)
  BY <1>3 DEF FatStage, CbmStage, UctStage, RootStage
<1> QED
  BY <1>2, <1>4 DEF Stage

\* A write takes it from one stage to the next.
LEMMA StageStep ==
  ASSUME NEW p, IsParam(p), CheckSize(p), NEW d, OnVolume(p, d),
         NEW i \in 1..(Rt(p) + 36), NEW w, w = Writes(p)[i], Stage(p, i, d)
  PROVE  Stage(p, i + 1, Apply(d, w, Len(w.data)))
<1>1. SuperStage(p, i + 1, Apply(d, w, Len(w.data)))
  BY SuperStep DEF Stage
<1>2. BootStage(p, i + 1, Apply(d, w, Len(w.data)))
  BY BootStep DEF Stage
<1>3. FatStage(p, i + 1, Apply(d, w, Len(w.data)))
  BY FatStep DEF Stage
<1>4. CbmStage(p, i + 1, Apply(d, w, Len(w.data)))
  BY CbmStep DEF Stage
<1>5. UctStage(p, i + 1, Apply(d, w, Len(w.data)))
  BY UctStep DEF Stage
<1>6. RootStage(p, i + 1, Apply(d, w, Len(w.data)))
  BY RootStep DEF Stage
<1> QED
  BY <1>1, <1>2, <1>3, <1>4, <1>5, <1>6 DEF Stage

\* A write, whole or torn, leaves a device of the same size.
LEMMA StillVolume ==
  ASSUME NEW p, IsParam(p), CheckSize(p), NEW d, OnVolume(p, d),
         NEW i \in 1..(Rt(p) + 36), NEW w, w = Writes(p)[i], NEW n \in 0..Len(w.data)
  PROVE  OnVolume(p, Apply(d, w, n))
<1>1. WriteTyped(w)
  BY WriteNamed
<1>2. Device(Apply(d, w, n))
  BY <1>1, ApplyDevice DEF OnVolume
<1>3. DOMAIN Apply(d, w, n) = DOMAIN d
  BY ApplyOff
<1> QED
  BY <1>2, <1>3 DEF OnVolume

\* A root directory whose first cluster is the last, or is free.
LEMMA ShortChain ==
  ASSUME NEW d, Device(d), NEW sb, IsSuper(sb), NEW r, r = sb.rootdir_cluster,
         NextCluster(d, sb, r) \in {0, End}
  PROVE  /\ RootChain(d, sb) \subseteq {r}
         /\ (NextCluster(d, sb, r) = End /\ ~ClusterInvalid(sb, r) /\ sb.cluster_count >= 1)
              => RootChain(d, sb) = {r}
<1> DEFINE f == TheWalk(d, sb)
           n == sb.cluster_count
           R == RootChain(d, sb)
<1>1. n \in Nat /\ r \in Int
  BY DEF IsSuper
<1>2. IsWalk(d, sb, f, n)
  <2>1. \E g : IsWalk(d, sb, g, n)
    BY <1>1, WalkExists
  <2> QED
    BY <2>1 DEF TheWalk
<1>3. R = UNION {{f[i] : i \in 0..(m - 1)} : m \in {m \in 1..n : Ends(sb, f, m)}}
  BY RootChainIs
<1> HIDE DEF f, R
<1>4. \A i \in 0..n : f[i] = Walk(d, sb, f, i)
  BY <1>2 DEF IsWalk
<1>5. f[0] = r
  BY <1>1, <1>4 DEF Walk
<1>6. n >= 1 /\ ~ClusterInvalid(sb, r) => f[1] = NextCluster(d, sb, r)
  <2>1. n >= 1 => 1 \in 0..n
    BY <1>1
  <2>2. Walk(d, sb, f, 1) = IF ClusterInvalid(sb, f[0]) THEN End ELSE NextCluster(d, sb, f[0])
    BY DEF Walk
  <2> QED
    BY <1>4, <1>5, <2>1, <2>2
<1>7. ClusterInvalid(sb, 0) /\ ClusterInvalid(sb, End)
  BY DEF ClusterInvalid, FirstDataCluster, End
<1>8. R \subseteq {r}
  <2> SUFFICES ASSUME NEW c \in R PROVE c = r
    OBVIOUS
  <2>1. PICK m \in 1..n : Ends(sb, f, m) /\ \E i \in 0..(m - 1) : c = f[i]
    BY <1>3
  <2>2. PICK i \in 0..(m - 1) : c = f[i]
    BY <2>1
  <2>3. \A j \in 0..(m - 1) : ~ClusterInvalid(sb, f[j])
    BY <2>1 DEF Ends
  <2>4. CASE i = 0
    BY <1>5, <2>2, <2>4
  <2>5. CASE i # 0
    <3>1. 0 \in 0..(m - 1) /\ 1 \in 0..(m - 1) /\ n >= 1
      BY <1>1, <2>5
    <3>2. ~ClusterInvalid(sb, f[0]) /\ ~ClusterInvalid(sb, f[1])
      BY <2>3, <3>1
    <3> QED
      BY <1>5, <1>6, <1>7, <3>1, <3>2
  <2> QED
    BY <2>4, <2>5
<1>9. ASSUME NextCluster(d, sb, r) = End, ~ClusterInvalid(sb, r), n >= 1 PROVE R = {r}
  <2>1. 1 \in 1..n /\ 0 \in 0..(1 - 1) /\ \A j \in 0..(1 - 1) : j = 0
    BY <1>1, <1>9
  <2>2. Ends(sb, f, 1)
    BY <1>5, <1>6, <1>9, <2>1 DEF Ends
  <2>3. r \in R
    BY <1>3, <1>5, <2>1, <2>2
  <2> QED
    BY <1>8, <2>3
<1> QED
  BY <1>8, <1>9 DEF R

\* The root directory of a volume that is being made.
LEMMA RootOf ==
  ASSUME NEW p, IsParam(p), CheckSize(p), NEW d, OnVolume(p, d),
         NEW i \in Nat, i >= 8, SuperStage(p, i, d), FatStage(p, i, d)
  PROVE  /\ d[0].k = "sb" /\ Super(d) = InitSb(p)
         /\ RootChain(d, InitSb(p)) \subseteq {Rt(p)}
         /\ i >= Rt(p) + 32 => RootChain(d, InitSb(p)) = {Rt(p)}
         /\ ClusterRange(InitSb(p), Rt(p)) = Root0(p)..(Root0(p) + Cu(p) - 1)
<1> DEFINE sb == InitSb(p)
           r == Rt(p)
           v == NextCluster(d, sb, r)
<1>1. d[0].k = "sb" /\ Super(d) = sb
  <2>1. d[0] = Only("sb", 0, sb)
    BY DEF SuperStage
  <2> HIDE DEF sb
  <2> QED
    BY <2>1 DEF Only, Super, Cell
<1>2. /\ IsSuper(sb) /\ sb.rootdir_cluster = r /\ SectorUnits(sb) = Su(p)
      /\ sb.fat_sector_start = 128 /\ ClusterUnits(sb) = Cu(p) /\ sb.cluster_count = Cm(p) - Ca(p)
      /\ ClusterUnit(sb, r) = (Ca(p) + r - 2) * Cu(p)
  <2>1. Rt(p) \in Int
    BY Map
  <2> QED
    BY <2>1, TheSuper DEF IsSuper, Rt
<1>3. v = RootCell(p, d)
  <2> HIDE DEF sb
  <2> QED
    BY <1>2 DEF RootCell, NextCluster
<1>4. v \in {0, End} /\ (i >= r + 32 => v = End)
  BY <1>3 DEF FatStage
<1>5. /\ Ca(p) \in Int /\ Cm(p) \in Int /\ Cb(p) \in Nat /\ Uc(p) \in Nat /\ Uc(p) >= 1
      /\ Ca(p) + Cb(p) + Uc(p) + 1 <= Cm(p) /\ r = Cb(p) + Uc(p) + 2
  BY Objects, CbmPosIs, HeapInside DEF Rt
<1>6. ~ClusterInvalid(sb, r) /\ sb.cluster_count >= 1
  <2> HIDE DEF sb, r
  <2> QED
    BY <1>2, <1>5 DEF ClusterInvalid, FirstDataCluster
<1>7. ClusterUnit(sb, r) = Root0(p)
  <2>1. Ca(p) + r - 2 = Ca(p) + Cb(p) + Uc(p)
    <3> HIDE DEF r
    <3> QED
      BY <1>5
  <2> QED
    BY <1>2, <2>1 DEF Root0
<1>8. ClusterRange(sb, r) = Root0(p)..(Root0(p) + Cu(p) - 1)
  <2> HIDE DEF sb, r
  <2> QED
    BY <1>2, <1>7 DEF ClusterRange
<1>9. /\ RootChain(d, sb) \subseteq {r}
      /\ i >= r + 32 => RootChain(d, sb) = {r}
  <2>1. Device(d)
    BY DEF OnVolume
  <2> HIDE DEF sb, r
  <2> QED
    BY <1>2, <1>4, <1>6, <2>1, ShortChain
<1> QED
  BY <1>1, <1>8, <1>9

\* The entries of the root directory that there are so far.
LEMMA EntriesOf ==
  ASSUME NEW p, IsParam(p), CheckSize(p), NEW d, OnVolume(p, d), NEW i \in Nat, i >= 8,
         SuperStage(p, i, d), FatStage(p, i, d), RootStage(p, i, d)
  PROVE  /\ EntriesIn(d, InitSb(p), RootChain(d, InitSb(p)))
              \subseteq {RootEntry(p, j) : j \in 0..(i - Rt(p) - 35)}
         /\ i >= Rt(p) + 35 =>
              EntriesIn(d, InitSb(p), RootChain(d, InitSb(p)))
                = {RootEntry(p, j) : j \in 0..(i - Rt(p) - 35)}
<1> DEFINE sb == InitSb(p)
           r == Rt(p)
           R == RootChain(d, sb)
           X == EntriesIn(d, sb, R)
           c == Root0(p)
           n == i - r - 35
           E == {RootEntry(p, j) : j \in 0..n}
<1>1. /\ R \subseteq {r} /\ (i >= r + 32 => R = {r})
      /\ ClusterRange(sb, r) = c..(c + Cu(p) - 1)
  BY RootOf
<1>2. c \in Nat /\ Cu(p) \in Nat /\ Cu(p) >= 1 /\ r \in Nat /\ c + Cu(p) <= Units(p) /\ Units(p) \in Nat
  BY Map
<1>3. \A u \in c..(c + Cu(p) - 1) : d[u] = RootUnit(p, i, u)
  BY DEF RootStage
<1> DEFINE g == [j \in 0..n |-> RootEntry(p, j)]
<1>4. \A u : RootUnit(p, i, u) = IF u = c /\ i > r + 34 THEN [k |-> "dir", c |-> g] ELSE Zero
  BY DEF RootUnit
<1>5. Zero.k # "dir"
  BY DEF Zero
<1>6. DOMAIN g = 0..n /\ \A j \in 0..n : g[j] = RootEntry(p, j)
  OBVIOUS
<1> HIDE DEF g, sb, R
<1>7. X \subseteq E
  <2> SUFFICES ASSUME NEW x \in X PROVE x \in E
    OBVIOUS
  <2>1. PICK u \in DOMAIN d : /\ d[u].k = "dir" /\ u \in UNION {ClusterRange(sb, z) : z \in R}
                              /\ \E j \in DOMAIN d[u].c : x = d[u].c[j]
    BY DEF EntriesIn
  <2>2. u \in c..(c + Cu(p) - 1)
    BY <1>1, <2>1
  <2>3. d[u].c = g
    BY <1>3, <1>4, <1>5, <2>1, <2>2
  <2> QED
    BY <1>6, <2>1, <2>3
<1>8. ASSUME i >= r + 35 PROVE X = E
  <2>1. d[c] = [k |-> "dir", c |-> g]
    <3>1. c \in c..(c + Cu(p) - 1) /\ i > r + 34
      BY <1>2, <1>8
    <3> HIDE DEF c, r
    <3> QED
      BY <1>3, <1>4, <3>1
  <2>2. c \in DOMAIN d /\ c \in ClusterRange(sb, r) /\ r \in R
    <3>1. c \in 0..(Units(p) - 1) /\ c \in c..(c + Cu(p) - 1) /\ i >= r + 32
      BY <1>2, <1>8
    <3> QED
      BY <1>1, <3>1 DEF OnVolume
  <2> HIDE DEF c, r
  <2>3. d[c].k = "dir" /\ d[c].c = g
    BY <2>1
  <2>4. ASSUME NEW j \in 0..n PROVE RootEntry(p, j) \in X
    <3>1. j \in DOMAIN d[c].c /\ RootEntry(p, j) = d[c].c[j]
      BY <1>6, <2>3, <2>4
    <3> HIDE DEF n
    <3> QED
      BY <2>2, <2>3, <3>1 DEF EntriesIn
  <2> QED
    BY <1>7, <2>4
<1> QED
  BY <1>7, <1>8 DEF sb, R

\* exfat_mount() refuses what is not finished.
LEMMA NotYet ==
  ASSUME NEW p, IsParam(p), CheckSize(p), NEW d, OnVolume(p, d), NEW i \in 2..(Rt(p) + 36),
         SuperStage(p, i, d), i >= 8 => FatStage(p, i, d) /\ RootStage(p, i, d), NEW repair
  PROVE  ~Mounts(d, repair)
<1>1. Rt(p) \in Nat
  BY Map
<1>2. CASE i <= 7
  <2>1. d[0].k # "sb"
    BY <1>1, <1>2 DEF SuperStage
  <2> QED
    BY <2>1 DEF Mounts, SuperAccepted
<1>3. CASE i >= 8
  <2> DEFINE sb == InitSb(p)
             X == EntriesIn(d, sb, RootChain(d, sb))
  <2>1. i \in Nat /\ i >= 8
    BY <1>1, <1>3
  <2>2. Super(d) = sb
    BY <1>3, <2>1, RootOf
  <2>3. X \subseteq {RootEntry(p, j) : j \in 0..(i - Rt(p) - 35)}
    BY <1>3, <2>1, EntriesOf
  <2>4. \A j \in 0..(i - Rt(p) - 35) : RootEntry(p, j).type # "upcase"
    <3>1. \A j \in 0..(i - Rt(p) - 35) : j = 0 \/ j = 1
      BY <1>1
    <3>2. RootEntry(p, 0) = LabelEntry(p) /\ RootEntry(p, 1) = BitmapEntry(p)
      BY DEF RootEntry
    <3>3. LabelEntry(p).type # "upcase" /\ BitmapEntry(p).type # "upcase"
      BY DEF LabelEntry, NoEntry, BitmapEntry
    <3> QED
      BY <3>1, <3>2, <3>3
  <2> HIDE DEF X
  <2>5. Of(X, "upcase") = {}
    BY <2>3, <2>4 DEF Of
  <2> QED
    BY <2>2, <2>5 DEF Mounts, X
<1> QED
  BY <1>1, <1>2, <1>3

\* A write that stops before its end changes neither the super block, nor
\* the entry of the root directory, nor the root directory once they are
\* erased.
LEMMA TornStage ==
  ASSUME NEW p, IsParam(p), CheckSize(p), NEW d, OnVolume(p, d),
         NEW i \in 2..(Rt(p) + 36), NEW w, w = Writes(p)[i], NEW n \in 0..Len(w.data),
         n < Len(w.data), Stage(p, i, d)
  PROVE  LET e == Apply(d, w, n) IN
         SuperStage(p, i, e) /\ (i >= 8 => FatStage(p, i, e) /\ RootStage(p, i, e))
<1> DEFINE e == Apply(d, w, n)
           r == Rt(p)
<1>1. r \in Nat /\ i \in 1..(r + 36)
  BY Map
<1>2. w.u \in Nat /\ Len(w.data) \in Nat /\ WriteIs(p, i, w)
  BY <1>1, WriteNamed
<1>3. n \in Nat
  BY <1>2
<1>4. e[0] = d[0]
  <2>1. CASE i # 7
    <3>1. i # 1
      BY <1>1
    <3> QED
      BY <1>1, <2>1, <3>1, StartKept
  <2>2. CASE i = 7
    <3>1. SuperAt(p, i, w)
      BY <1>1, <1>2, <2>2, EarlyWrites
    <3>2. n = 0
      BY <1>3, <3>1 DEF SuperAt
    <3>3. 0 \notin w.u..(w.u + n - 1) /\ 0 \in DOMAIN d
      <4>1. 0 \in DOMAIN d
        BY DEF OnVolume, Device
      <4> QED
        BY <1>2, <3>2, <4>1
    <3> QED
      BY <3>3, ApplyOff
  <2> QED
    BY <2>1, <2>2
<1>5. SuperStage(p, i, e)
  <2> HIDE DEF e
  <2> QED
    BY <1>4 DEF Stage, SuperStage
<1>6. ASSUME i >= 8 PROVE FatStage(p, i, e)
  <2>1. RegionOf(p, i) # 3 \/ n = 0
    <3>1. CASE i \in 31..(r + 31)
      <4>1. FatAt(p, i, w)
        BY <1>1, <1>2, <3>1, EarlyWrites
      <4> QED
        BY <1>3, <4>1 DEF FatAt
    <3>2. CASE i \notin 31..(r + 31)
      BY <1>1, <1>6, <3>2 DEF RegionOf
    <3> QED
      BY <3>1, <3>2
  <2>2. RootCellSame(p, d, e)
    BY <1>1, <2>1, RootCellKept
  <2> HIDE DEF e
  <2> QED
    BY <2>2 DEF Stage, FatStage, RootCellSame
<1>7. ASSUME i >= 8 PROVE RootStage(p, i, e)
  <2> DEFINE c == Root0(p)
             m == Cu(p)
  <2>1. c \in Nat /\ m \in Nat /\ Units(p) \in Nat /\ c + m <= Units(p)
    BY Map
  <2>2. ASSUME NEW u \in c..(c + m - 1) PROVE e[u] = d[u]
    <3> DEFINE a == 6
    <3>1. a \in 1..6 /\ In(p, a, u) /\ u \in DOMAIN d
      <4>1. a \in 1..6 /\ Ob0(p)[a] = c /\ ObUnits(p)[a] = m
        BY DEF Ob0, ObUnits
      <4>2. u \in 0..(Units(p) - 1)
        BY <2>1
      <4> HIDE DEF a, c, m
      <4> QED
        BY <2>1, <4>1, <4>2 DEF OnVolume, In
    <3>2. CASE a # RegionOf(p, i)
      <4> HIDE DEF a
      <4>1. Kept(d, w, n, u)
        BY <1>1, <3>1, <3>2, OthersKept
      <4> QED
        BY <4>1 DEF Kept
    <3>3. CASE a = RegionOf(p, i)
      <4>1. i >= r + 34
        BY <1>1, <1>7, <3>3 DEF RegionOf
      <4>2. RootAt(p, i, w)
        BY <1>1, <1>2, <4>1, LateWrites
      <4>3. n = 0
        BY <1>3, <4>2 DEF RootAt
      <4>4. u \notin w.u..(w.u + n - 1)
        BY <1>2, <4>3
      <4> QED
        BY <3>1, <4>4, ApplyOff
    <3> QED
      BY <3>2, <3>3
  <2> HIDE DEF e
  <2> QED
    BY <1>7, <2>2 DEF Stage, RootStage
<1> QED
  BY <1>5, <1>6, <1>7

-----------------------------------------------------------------------------
(* The volume that a format makes *)

\* The clusters that cbm_write() marks.
LEMMA AllocatedIs ==
  ASSUME NEW p, IsParam(p), CheckSize(p)
  PROVE  /\ Allocated(p) \in Nat /\ Allocated(p) = Cb(p) + Uc(p) + 1
         /\ Rt(p) = Allocated(p) + 1 /\ Allocated(p) <= InitSb(p).cluster_count
         /\ Allocated(p) <= RoundUp(Allocated(p), 8) /\ RoundUp(Allocated(p), 8) \in Nat
<1> DEFINE a == Allocated(p)
<1>1. p.cs \in Nat /\ p.cs >= 1
  BY ParamSizes
<1>2. DivRoundUp(RootSize(p), p.cs) = 1
  <2> DEFINE c == p.cs
             q == 1
  <2>1. c \in Nat /\ c >= 1 /\ c = q * c /\ q \in Nat /\ (q - 1) * c < c /\ c <= q * c
    BY <1>1
  <2> HIDE DEF c, q
  <2>2. DivRoundUp(c, c) = q
    BY <2>1, CeilIs
  <2> QED
    BY <2>2 DEF c, q, RootSize
<1>3. Cb(p) \in Nat /\ Uc(p) \in Nat /\ Ca(p) + Cb(p) + Uc(p) + 1 <= Cm(p)
      /\ Ca(p) \in Int /\ Cm(p) \in Int
  BY Objects, CbmPosIs, HeapInside
<1>4. a = Cb(p) + Uc(p) + 1
  BY <1>2 DEF Allocated, Cb, Uc
<1>5. InitSb(p).cluster_count = Cm(p) - Ca(p)
  BY TheSuper
<1>6. a \in Nat /\ Rt(p) = a + 1 /\ a <= InitSb(p).cluster_count
  <2> HIDE DEF a
  <2> QED
    BY <1>3, <1>4, <1>5 DEF Rt
<1> HIDE DEF a
<1>7. a <= RoundUp(a, 8) /\ RoundUp(a, 8) \in Nat
  BY <1>6 DEF RoundUp, DivRoundUp, CDiv
<1> QED
  BY <1>4, <1>6, <1>7 DEF a

\* The first n bits of a bitmap are set.
FirstBits(p, d, n) ==
  \A u \in Cbm0(p)..(Cbm0(p) + CbmUnits(p) - 1) :
    IF u = Cbm0(p)
    THEN /\ d[u].k = "bits"
         /\ \A b \in 0..(BitCells - 1) : (b \in DOMAIN d[u].c /\ d[u].c[b]) <=> b < n
    ELSE d[u] = Zero

\* They are the clusters that are in use.
LEMMA MarkedBy ==
  ASSUME NEW p, IsParam(p), CheckSize(p), NEW d, OnVolume(p, d), NEW a \in Nat,
         a <= BitCells, a <= InitSb(p).cluster_count, FirstBits(p, d, a),
         NEW x, x.start_cluster = 2
  PROVE  Marked(d, InitSb(p), x) = 2..(a + 1)
<1> DEFINE sb == InitSb(p)
           n == sb.cluster_count
           c == Cbm0(p)
           m == CbmUnits(p)
<1>1. a <= n /\ a <= BitCells
  OBVIOUS
<1>2. c \in Nat /\ m \in Nat /\ m >= 1 /\ Units(p) \in Nat /\ c + m <= Units(p)
  <2>1. /\ c \in Nat /\ m \in Nat /\ m >= 1 /\ Units(p) \in Nat /\ c + m <= Uct0(p)
        /\ Uct0(p) \in Nat /\ Uct0(p) + 12 <= Root0(p) /\ Root0(p) + Cu(p) <= Units(p)
        /\ Root0(p) \in Nat /\ Cu(p) \in Nat
    BY Map
  <2> HIDE DEF c, m
  <2> QED
    BY <2>1
<1>3. n \in Nat /\ n <= m * BitCells /\ ClusterUnit(sb, 2) = c
  <2>1. n = Cm(p) - Ca(p) /\ n \in Nat
    BY TheSuper, Objects
  <2>2. Cm(p) - Ca(p) <= m * BitCells
    BY Regions
  <2>3. ClusterUnit(sb, 2) = (Ca(p) + 2 - 2) * Cu(p)
    BY TheSuper
  <2>4. Ca(p) + 2 - 2 = Ca(p)
    BY CbmPosIs
  <2> QED
    BY <2>1, <2>2, <2>3, <2>4 DEF Cbm0
<1>4. /\ \A u \in c..(c + m - 1) : u # c => d[u] = Zero
      /\ d[c].k = "bits"
      /\ \A b \in 0..(BitCells - 1) : (b \in DOMAIN d[c].c /\ d[c].c[b]) <=> b < a
  <2>1. c \in c..(c + m - 1)
    BY <1>2
  <2> QED
    BY <2>1 DEF FirstBits
<1>6. Zero.k # "bits"
  BY DEF Zero
<1>7. Marked(d, sb, x)
        = {b + 2 : b \in {b \in 0..(n - 1) : CellAt(d, c, "bits", BitCells, b, FALSE)}}
  BY <1>3 DEF Marked, FirstDataCluster
<1> HIDE DEF sb, n, c, m
<1>8. ASSUME NEW b \in 0..(n - 1)
      PROVE  CellAt(d, c, "bits", BitCells, b, FALSE) <=> b < a
  <2> DEFINE q == b \div BitCells
             u == c + q
             y == b % BitCells
  <2>1. q \in Nat /\ y \in Nat /\ b = q * BitCells + y /\ y < BitCells /\ b \in Nat /\ q < m
        /\ (q = 0 => y = b) /\ (q # 0 => b >= BitCells)
    BY <1>1, <1>2, <1>3 DEF BitCells
  <2>2. u \in c..(c + m - 1) /\ u \in DOMAIN d
    <3> HIDE DEF q
    <3>1. u \in c..(c + m - 1) /\ u \in 0..(Units(p) - 1)
      BY <1>2, <2>1
    <3> QED
      BY <3>1 DEF OnVolume
  <2>3. CellAt(d, c, "bits", BitCells, b, FALSE)
          = IF d[u].k = "bits" /\ y \in DOMAIN d[u].c THEN d[u].c[y] ELSE FALSE
    BY <2>2 DEF CellAt
  <2>4. CASE q = 0
    <3>1. u = c /\ y = b /\ b \in 0..(BitCells - 1)
      <4> HIDE DEF q, y
      <4>1. BitCells \in Nat
        BY DEF BitCells
      <4> QED
        BY <1>2, <2>1, <2>4, <4>1
    <3> HIDE DEF u, y, q
    <3> QED
      BY <1>4, <2>3, <3>1
  <2>5. CASE q # 0
    <3>1. u # c /\ ~(b < a)
      <4> HIDE DEF q, y
      <4>1. BitCells \in Nat
        BY DEF BitCells
      <4> QED
        BY <1>1, <1>2, <2>1, <2>5, <4>1
    <3>2. d[u] = Zero
      BY <1>4, <2>2, <3>1
    <3> HIDE DEF u, y, q
    <3> QED
      BY <1>6, <2>3, <3>1, <3>2
  <2> QED
    BY <2>4, <2>5
<1>9. {b \in 0..(n - 1) : CellAt(d, c, "bits", BitCells, b, FALSE)} = 0..(a - 1)
  <2>1. {b \in 0..(n - 1) : CellAt(d, c, "bits", BitCells, b, FALSE)} = {b \in 0..(n - 1) : b < a}
    BY <1>8
  <2>2. {b \in 0..(n - 1) : b < a} = 0..(a - 1)
    BY <1>1, <1>3
  <2> QED
    BY <2>1, <2>2
<1>10. {b + 2 : b \in 0..(a - 1)} = 2..(a + 1)
  <2>1. ASSUME NEW y \in 2..(a + 1) PROVE \E b \in 0..(a - 1) : y = b + 2
    <3>1. y - 2 \in 0..(a - 1) /\ y = (y - 2) + 2
      OBVIOUS
    <3> QED
      BY <3>1
  <2>2. \A b \in 0..(a - 1) : b + 2 \in 2..(a + 1)
    OBVIOUS
  <2> QED
    BY <2>1, <2>2
<1>11. Marked(d, sb, x) = 2..(a + 1)
  BY <1>7, <1>9, <1>10
<1> QED
  BY <1>11 DEF sb

\* The bitmap of the new volume.
LEMMA NewBits ==
  ASSUME NEW p, IsParam(p), CheckSize(p), NEW d, NEW i \in Nat, i > Rt(p) + 32,
         CbmStage(p, i, d)
  PROVE  FirstBits(p, d, Allocated(p)) /\ d[Cbm0(p)] = CbmBits(p)
<1> DEFINE a == Allocated(p)
           c == Cbm0(p)
           m == CbmUnits(p)
           z == RoundUp(a, 8)
<1>1. a \in Nat /\ a <= z /\ z \in Nat /\ Rt(p) \in Nat /\ c \in Nat /\ m \in Nat /\ m >= 1
  BY AllocatedIs, Map
<1>2. \A u \in c..(c + m - 1) : d[u] = IF u = c THEN CbmBits(p) ELSE Zero
  <2>1. i >= 5
    BY <1>1
  <2> QED
    BY <2>1 DEF CbmStage, CbmUnit
<1>3. /\ CbmBits(p).k = "bits" /\ DOMAIN CbmBits(p).c = 0..(z - 1)
      /\ \A b \in 0..(z - 1) : CbmBits(p).c[b] = (b < a)
  BY DEF CbmBits
<1> HIDE DEF a, c, m, z
<1>4. ASSUME NEW b \in 0..(BitCells - 1)
      PROVE  (b \in DOMAIN CbmBits(p).c /\ CbmBits(p).c[b]) <=> b < a
  <2>1. b < a => b \in 0..(z - 1)
    <3>1. b \in Nat
      BY DEF BitCells
    <3> QED
      BY <1>1, <3>1
  <2> QED
    BY <1>3, <2>1
<1>5. d[c] = CbmBits(p)
  <2>1. c \in c..(c + m - 1)
    BY <1>1
  <2> QED
    BY <1>2, <2>1
<1>6. FirstBits(p, d, a)
  BY <1>2, <1>3, <1>4, <1>5 DEF FirstBits, c, m
<1> QED
  BY <1>5, <1>6 DEF a, c

\* The root directory of the new volume.
LEMMA NewEntries ==
  ASSUME NEW p, IsParam(p), CheckSize(p), NEW d, OnVolume(p, d), Stage(p, Rt(p) + 37, d)
  PROVE  /\ d[0].k = "sb" /\ Super(d) = InitSb(p) /\ RootChain(d, InitSb(p)) = {Rt(p)}
         /\ EntriesIn(d, InitSb(p), {Rt(p)}) = {LabelEntry(p), BitmapEntry(p), UpcaseEntry(p)}
<1> DEFINE i == Rt(p) + 37
           sb == InitSb(p)
<1>1. Rt(p) \in Nat
  BY Map
<1>2. i \in Nat /\ i >= 8 /\ i >= Rt(p) + 35 /\ i >= Rt(p) + 32 /\ i - Rt(p) - 35 = 2
  BY <1>1
<1>3. SuperStage(p, i, d) /\ FatStage(p, i, d) /\ RootStage(p, i, d)
  BY DEF Stage
<1> HIDE DEF i
<1>4. d[0].k = "sb" /\ Super(d) = sb /\ RootChain(d, sb) = {Rt(p)}
  BY <1>2, <1>3, RootOf
<1>5. EntriesIn(d, sb, RootChain(d, sb)) = {RootEntry(p, j) : j \in 0..(i - Rt(p) - 35)}
  BY <1>2, <1>3, EntriesOf
<1>6. {RootEntry(p, j) : j \in 0..2} = {LabelEntry(p), BitmapEntry(p), UpcaseEntry(p)}
  <2>1. 0..2 = {0, 1, 2}
    OBVIOUS
  <2>2. RootEntry(p, 0) = LabelEntry(p) /\ RootEntry(p, 1) = BitmapEntry(p)
        /\ RootEntry(p, 2) = UpcaseEntry(p)
    BY DEF RootEntry
  <2> QED
    BY <2>1, <2>2
<1> QED
  BY <1>2, <1>4, <1>5, <1>6

\* The kinds of its entries.
LEMMA NewKinds ==
  ASSUME NEW p, NEW X, X = {LabelEntry(p), BitmapEntry(p), UpcaseEntry(p)}
  PROVE  /\ Of(X, "upcase") = {UpcaseEntry(p)} /\ Of(X, "bitmap") = {BitmapEntry(p)}
         /\ Of(X, "file") = {}
         /\ Of(X, "label") = IF Label(p.job) = "" THEN {} ELSE {LabelEntry(p)}
         /\ LabelEntry(p).size = 0 /\ LabelEntry(p).label = Label(p.job)
         /\ BitmapEntry(p).size = CbmSize(p) /\ BitmapEntry(p).start_cluster = 2
         /\ UpcaseEntry(p).size = UctSize /\ UpcaseEntry(p).start_cluster = Cb(p) + 2
<1> DEFINE a == LabelEntry(p)
           b == BitmapEntry(p)
           c == UpcaseEntry(p)
<1>1. /\ a.type = (IF Label(p.job) = "" THEN "none" ELSE "label")
      /\ b.type = "bitmap" /\ c.type = "upcase"
  BY DEF LabelEntry, NoEntry, BitmapEntry, UpcaseEntry
<1>2. LabelEntry(p).size = 0 /\ LabelEntry(p).label = Label(p.job)
  BY DEF LabelEntry, NoEntry
<1>3. BitmapEntry(p).size = CbmSize(p) /\ BitmapEntry(p).start_cluster = 2
  BY DEF BitmapEntry
<1>4. UpcaseEntry(p).size = UctSize /\ UpcaseEntry(p).start_cluster = Cb(p) + 2
  BY DEF UpcaseEntry
<1> HIDE DEF a, b, c
<1>5. X = {a, b, c}
  BY DEF a, b, c
<1>6. Of(X, "upcase") = {c} /\ Of(X, "bitmap") = {b} /\ Of(X, "file") = {}
  BY <1>1, <1>5 DEF Of
<1>7. Of(X, "label") = IF Label(p.job) = "" THEN {} ELSE {a}
  BY <1>1, <1>5 DEF Of
<1> QED
  BY <1>2, <1>3, <1>4, <1>6, <1>7 DEF a, b, c

\* What the new volume uses.
LEMMA OccupiedIs ==
  ASSUME NEW p, IsParam(p), CheckSize(p), NEW d, OnVolume(p, d), Stage(p, Rt(p) + 37, d)
  PROVE  Occupied(d) = 2..Rt(p)
<1> DEFINE sb == InitSb(p)
           a == LabelEntry(p)
           b == BitmapEntry(p)
           c == UpcaseEntry(p)
           X == {a, b, c}
           cs == p.cs
           span(x) == x.start_cluster..(x.start_cluster + DivRoundUp(x.size, cs) - 1)
<1>1. Super(d) = sb /\ RootChain(d, sb) = {Rt(p)} /\ EntriesIn(d, sb, {Rt(p)}) = X
  BY NewEntries
<1>2. ClusterUnits(sb) * UnitBytes = cs
  <2>1. ClusterUnits(sb) = Cu(p) /\ cs = 512 * Cu(p) /\ Cu(p) \in Nat
    BY TheSuper, ParamSizes
  <2> HIDE DEF sb, cs
  <2> QED
    BY <2>1 DEF UnitBytes
<1>3. Occupied(d) = {Rt(p)} \cup UNION {span(x) : x \in {x \in X : x.size > 0}}
  <2> HIDE DEF sb, cs, X
  <2> QED
    BY <1>1, <1>2 DEF Occupied
<1>4. /\ a.size = 0 /\ b.size = CbmSize(p) /\ b.start_cluster = 2
      /\ c.size = UctSize /\ c.start_cluster = Cb(p) + 2
  BY NewKinds
<1>5. /\ CbmSize(p) \in Nat /\ Cb(p) \in Nat /\ Uc(p) \in Nat /\ Uc(p) >= 1
      /\ Rt(p) = Cb(p) + Uc(p) + 2
  BY Objects DEF Rt
<1>6. span(b) = 2..(Cb(p) + 1) /\ span(c) = (Cb(p) + 2)..(Cb(p) + Uc(p) + 1)
  <2>1. span(b) = 2..(2 + Cb(p) - 1) /\ span(c) = (Cb(p) + 2)..(Cb(p) + 2 + Uc(p) - 1)
    <3> HIDE DEF b, c
    <3> QED
      BY <1>4 DEF Cb, Uc
  <2>2. 2 + Cb(p) - 1 = Cb(p) + 1 /\ Cb(p) + 2 + Uc(p) - 1 = Cb(p) + Uc(p) + 1
    BY <1>5
  <2> HIDE DEF span
  <2> QED
    BY <2>1, <2>2
<1>7. CbmSize(p) = 0 => Cb(p) = 0
  <2> DEFINE m == CbmSize(p)
             q == 0
  <2>1. m = 0 => m \in Nat /\ cs \in Nat /\ cs >= 1 /\ q \in Int /\ m <= q * cs /\ q * cs < m + cs
    BY ParamSizes
  <2>2. Cb(p) = DivRoundUp(m, cs)
    BY DEF Cb
  <2> HIDE DEF m, q, cs
  <2>3. m = 0 => DivRoundUp(m, cs) = q
    BY <2>1, CeilIs
  <2> QED
    BY <2>2, <2>3 DEF m, q
<1>8. UctSize > 0 /\ ~(0 > 0)
  BY DEF UctSize
<1> HIDE DEF a, b, c, span
<1>9. UNION {span(x) : x \in {x \in X : x.size > 0}} = span(b) \cup span(c)
  <2>1. c \in {x \in X : x.size > 0} /\ a \notin {x \in X : x.size > 0}
    BY <1>4, <1>8
  <2>2. CASE CbmSize(p) > 0
    <3>1. {x \in X : x.size > 0} = {b, c}
      BY <1>4, <2>1, <2>2
    <3> QED
      BY <3>1
  <2>3. CASE ~(CbmSize(p) > 0)
    <3>1. {x \in X : x.size > 0} = {c}
      BY <1>4, <2>1, <2>3
    <3>2. span(b) = {}
      <4>1. CbmSize(p) = 0
        BY <1>5, <2>3
      <4>2. Cb(p) = 0 /\ 2..(0 + 1) = {}
        BY <1>7, <4>1
      <4> QED
        BY <1>6, <4>2
    <3> QED
      BY <3>1, <3>2
  <2> QED
    BY <2>2, <2>3
<1>10. {Rt(p)} \cup ((2..(Cb(p) + 1)) \cup ((Cb(p) + 2)..(Cb(p) + Uc(p) + 1))) = 2..Rt(p)
  BY <1>5
<1> QED
  BY <1>3, <1>6, <1>9, <1>10

\* A format that is complete leaves a volume that holds together.
LEMMA NewHolds ==
  ASSUME NEW p, IsParam(p), CheckSize(p), Allocated(p) <= BitCells, NEW d, OnVolume(p, d),
         Stage(p, Rt(p) + 37, d)
  PROVE  HoldsTogether(d)
<1> DEFINE sb == InitSb(p)
           X == {LabelEntry(p), BitmapEntry(p), UpcaseEntry(p)}
           i == Rt(p) + 37
<1>1. Super(d) = sb /\ RootChain(d, sb) = {Rt(p)} /\ EntriesIn(d, sb, {Rt(p)}) = X
  BY NewEntries
<1>2. Rt(p) \in Nat /\ i \in Nat /\ i > Rt(p) + 32 /\ i > Rt(p) + 33
  BY Map
<1>3. Of(X, "bitmap") = {BitmapEntry(p)} /\ Of(X, "upcase") = {UpcaseEntry(p)}
      /\ Of(X, "file") = {} /\ BitmapEntry(p).start_cluster = 2
      /\ UpcaseEntry(p).start_cluster = Cb(p) + 2
  BY NewKinds
<1>4. Marked(d, sb, BitmapEntry(p)) = Occupied(d)
  <2> DEFINE x == BitmapEntry(p)
  <2>1. x.start_cluster = 2
    BY <1>3
  <2> HIDE DEF x, i
  <2>2. CbmStage(p, i, d)
    BY DEF Stage, i
  <2>3. Marked(d, sb, x) = 2..Rt(p)
    <3> DEFINE a == Allocated(p)
    <3>1. a \in Nat /\ a <= BitCells /\ a <= InitSb(p).cluster_count /\ Rt(p) = a + 1
      BY AllocatedIs
    <3>2. FirstBits(p, d, a)
      BY <1>2, <2>2, NewBits
    <3> HIDE DEF a
    <3> QED
      BY <2>1, <3>1, <3>2, MarkedBy
  <2> QED
    BY <2>3, OccupiedIs DEF x
<1>5. ASSUME NEW j \in DOMAIN UctUnits
      PROVE  LET u == ClusterUnit(sb, UpcaseEntry(p).start_cluster) + j - 1 IN
             u \in DOMAIN d /\ d[u].k = "uct" /\ d[u].c[0] = j
  <2> DEFINE u == Uct0(p) + j - 1
  <2>1. ClusterUnit(sb, UpcaseEntry(p).start_cluster) = Uct0(p)
    <3>1. Cb(p) \in Int /\ Ca(p) \in Int
      BY Objects, CbmPosIs
    <3>2. ClusterUnit(sb, Cb(p) + 2) = (Ca(p) + (Cb(p) + 2) - 2) * Cu(p)
      BY <3>1, TheSuper
    <3>3. Ca(p) + (Cb(p) + 2) - 2 = Ca(p) + Cb(p)
      BY <3>1
    <3> QED
      BY <1>3, <3>2, <3>3 DEF Uct0
  <2>2. j \in 1..12
    <3>1. DivRoundUp(UctSize, UnitBytes) = 12
      BY Starts
    <3> QED
      BY <3>1 DEF UctUnits
  <2>3. d[u] = Only("uct", 0, j)
    <3>1. UctStage(p, i, d)
      BY DEF Stage
    <3> HIDE DEF i
    <3> QED
      BY <1>2, <2>2, <3>1 DEF UctStage
  <2>4. u \in DOMAIN d
    <3>1. /\ Uct0(p) \in Nat /\ Uct0(p) + 12 <= Root0(p) /\ Root0(p) + Cu(p) <= Units(p)
          /\ Root0(p) \in Nat /\ Cu(p) \in Nat /\ Units(p) \in Nat
      BY Map
    <3>2. u \in 0..(Units(p) - 1)
      BY <2>2, <3>1
    <3> QED
      BY <3>2 DEF OnVolume
  <2> HIDE DEF u
  <2>5. d[u].k = "uct" /\ d[u].c[0] = j
    BY <2>3 DEF Only, Cell
  <2> QED
    BY <2>1, <2>4, <2>5 DEF u
<1> HIDE DEF X, sb
<1>6. \A e \in Of(X, "bitmap") : Marked(d, sb, e) = Occupied(d)
  BY <1>3, <1>4
<1>7. \A e \in Of(X, "upcase") : \A j \in DOMAIN UctUnits :
           LET u == ClusterUnit(sb, e.start_cluster) + j - 1 IN
           u \in DOMAIN d /\ d[u].k = "uct" /\ d[u].c[0] = j
  BY <1>3, <1>5
<1> DEFINE tb == Super(d)
           Y == EntriesIn(d, tb, RootChain(d, tb))
<1>8. tb = sb /\ Y = X
  BY <1>1
<1> HIDE DEF tb, Y
<1>9. \A e \in Of(Y, "bitmap") : Marked(d, tb, e) = Occupied(d)
  BY <1>6, <1>8
<1>10. \A e \in Of(Y, "upcase") : \A j \in DOMAIN UctUnits :
           LET u == ClusterUnit(tb, e.start_cluster) + j - 1 IN
           u \in DOMAIN d /\ d[u].k = "uct" /\ d[u].c[0] = j
  BY <1>7, <1>8
<1>11. Of(Y, "file") = {}
  BY <1>3, <1>8
<1> QED
  BY <1>9, <1>10, <1>11 DEF HoldsTogether, tb, Y

\* A device is as large as it has units.
LEMMA VolumeIs ==
  ASSUME NEW d, NEW n \in Nat, DOMAIN d = 0..(n - 1)
  PROVE  Cardinality(DOMAIN d) = n
<1>1. Cardinality(0..(n - 1)) = IF 0 > n - 1 THEN 0 ELSE (n - 1) - 0 + 1
  <2>1. 0 \in Int /\ n - 1 \in Int
    OBVIOUS
  <2> QED
    BY <2>1, FS_Interval
<1> QED
  BY <1>1

\* The boot checksum of a new volume with sectors of 512 bytes is right.
LEMMA NewSum ==
  ASSUME NEW p, IsParam(p), CheckSize(p), p.job.sector_bits = 9, NEW d,
         d[0].k = "sb", Super(d) = InitSb(p), NEW i, i > 18, i \in Nat, BootStage(p, i, d)
  PROVE  VerifyVbrChecksum(d, InitSb(p))
<1> DEFINE sb == InitSb(p)
           f == [u \in 1..10 |-> VbrUnit(p, u)]
<1>1. Su(p) = 1 /\ p.ss = 512 /\ SectorUnits(sb) = 1
  <2>1. 2 ^ (9 - 9) = 1
    OBVIOUS
  <2>2. Su(p) = 1
    BY <2>1 DEF Su
  <2> QED
    BY <2>2, ParamSizes, TheSuper
<1>2. \A j \in 1..11 : d[j] = VbrUnit(p, j)
  <2>1. \A j \in 1..11 : i > 7 + j
    OBVIOUS
  <2> QED
    BY <1>1, <2>1 DEF BootStage
<1> HIDE DEF sb
<1>3. VbrExpected(d, sb) = VbrChecksum(sb, f)
  <2>1. 11 * SectorUnits(sb) - 1 = 10
    BY <1>1
  <2>2. [u \in 1..10 |-> d[u]] = f
    BY <1>2
  <2> HIDE DEF f
  <2> QED
    BY <2>1, <2>2 DEF VbrExpected
<1>4. VbrSum(p) = VbrChecksum(sb, f)
  <2> DEFINE n == p.ss \div UnitBytes
             boot == [k |-> "boot", c |-> <<>>]
             body == VbrBody(p)
             g == [u \in 1..(10 * n) |-> body[((u - 1) \div n) + 1][((u - 1) % n) + 1]]
  <2>1. n = 1
    BY <1>1 DEF UnitBytes
  <2>2. VbrSum(p) = VbrChecksum(InitSb(p), g)
    BY DEF VbrSum
  <2>3. \A u \in 1..10 : body[u][1] = VbrUnit(p, u)
    <3>1. \A j \in 1..10 : body[j] = [k \in 1..n |-> IF k = n THEN (IF j <= 8 THEN boot ELSE Zero)
                                                     ELSE Zero]
      BY DEF VbrBody
    <3>2. 1 \in 1..n
      BY <2>1
    <3> HIDE DEF n, body, boot
    <3>3. \A j \in 1..10 : body[j][1] = IF j <= 8 THEN boot ELSE Zero
      BY <2>1, <3>1, <3>2
    <3>4. \A j \in 1..10 : VbrUnit(p, j) = IF j <= 8 THEN boot ELSE Zero
      BY DEF VbrUnit, boot
    <3> QED
      BY <3>3, <3>4
  <2>4. g = f
    <3>1. \A u \in 1..10 : ((u - 1) \div n) + 1 = u /\ ((u - 1) % n) + 1 = 1
      <4>1. \A u \in 1..10 : (u - 1) \div 1 = u - 1 /\ (u - 1) % 1 = 0
        OBVIOUS
      <4> QED
        BY <2>1, <4>1
    <3>2. 10 * n = 10
      BY <2>1
    <3> HIDE DEF n, body
    <3> QED
      BY <2>3, <3>1, <3>2
  <2> HIDE DEF g, f
  <2> QED
    BY <2>2, <2>4 DEF sb
<1>5. d[11].k = "sum" /\ d[11].c[0] = VbrSum(p)
  <2>1. d[11] = Only("sum", 0, VbrSum(p))
    BY <1>2 DEF VbrUnit
  <2> QED
    BY <2>1 DEF Only, Cell
<1>6. \A u \in (11 * SectorUnits(sb))..(12 * SectorUnits(sb) - 1) : u = 11
  BY <1>1
<1>7. VerifyVbrChecksum(d, sb)
  <2> HIDE DEF f
  <2> QED
    BY <1>3, <1>4, <1>5, <1>6 DEF VerifyVbrChecksum
<1> QED
  BY <1>7 DEF sb

\* A format that is complete leaves a volume that mounts.
LEMMA NewMounts ==
  ASSUME NEW p, IsParam(p), CheckSize(p), p.job.sector_bits = 9, p.spc_bits <= 16,
         NEW d, OnVolume(p, d), Stage(p, Rt(p) + 37, d)
  PROVE  Mounts(d, FALSE)
<1> DEFINE sb == InitSb(p)
           X == {LabelEntry(p), BitmapEntry(p), UpcaseEntry(p)}
           n == sb.cluster_count
<1>1. d[0].k = "sb" /\ Super(d) = sb /\ RootChain(d, sb) = {Rt(p)}
      /\ EntriesIn(d, sb, {Rt(p)}) = X
  BY NewEntries
<1>2. /\ Of(X, "bitmap") = {BitmapEntry(p)} /\ Of(X, "upcase") = {UpcaseEntry(p)}
      /\ BitmapEntry(p).size = CbmSize(p) /\ BitmapEntry(p).start_cluster = 2
      /\ UpcaseEntry(p).size = UctSize /\ UpcaseEntry(p).start_cluster = Cb(p) + 2
  BY NewKinds
<1>3. /\ sb.sector_bits = 9 /\ sb.spc_bits = p.spc_bits /\ sb.version = <<1, 0>>
      /\ sb.fat_count = 1 /\ n = Cm(p) - Ca(p) /\ SectorUnits(sb) = Su(p)
      /\ ClusterUnits(sb) = Cu(p)
  BY TheSuper DEF InitSb
<1>4. /\ Ca(p) \in Nat /\ Cm(p) \in Nat /\ Cb(p) \in Nat /\ Uc(p) \in Nat /\ Uc(p) >= 1
      /\ Ca(p) + Cb(p) + Uc(p) + 1 <= Cm(p) /\ CbmSize(p) = DivRoundUp(n, 8)
      /\ CbmSize(p) \in Nat
  BY <1>3, Objects, CbmPosIs, HeapInside
<1>5. Cardinality(DOMAIN d) = Units(p) /\ Units(p) \in Nat
  <2>1. Units(p) \in Nat
    BY Map
  <2> QED
    BY <2>1, VolumeIs DEF OnVolume
<1>6. Cm(p) * Cu(p) <= Units(p) /\ Cu(p) \in Nat /\ Su(p) \in Nat /\ 12 * Su(p) <= Units(p)
  <2> DEFINE c == Cm(p)
             k == Cu(p)
             v == p.volume
             q == Units(p)
  <2>1. c \in Nat /\ k \in Nat /\ v \in Nat /\ c * p.cs <= v /\ p.cs = 512 * k
    BY <1>4, ParamSizes, CbmPosIs
  <2>2. v = q * 512 /\ q \in Nat
    <3>1. PICK size \in Nat : v = size * 512
      BY DEF IsParam, UnitBytes
    <3>2. (size * 512) \div 512 = size
      OBVIOUS
    <3> QED
      BY <3>1, <3>2 DEF Units, UnitBytes
  <2>3. Su(p) \in Nat /\ 12 * Su(p) <= Units(p)
    <3> DEFINE a == 1
    <3>1. a \in 1..6 /\ Ob0(p)[a] = 0 /\ ObUnits(p)[a] = 12 * Su(p) /\ Su(p) \in {1, 2, 4, 8}
      BY ParamSizes DEF Ob0, ObUnits
    <3> HIDE DEF a
    <3>2. Ob0(p)[a] + ObUnits(p)[a] <= Units(p)
      BY <3>1, Apart
    <3> QED
      BY <3>1, <3>2
  <2>4. c * k <= q
    <3> HIDE DEF c, k, v, q
    <3>1. PICK m \in Nat : m = c * k
      BY <2>1
    <3>2. c * p.cs = m * 512
      BY <2>1, <3>1
    <3>3. m * 512 <= q * 512
      BY <2>1, <2>2, <3>2
    <3> QED
      BY <2>2, <3>1, <3>3
  <2> QED
    BY <2>1, <2>3, <2>4
<1>7. n * Cu(p) <= Units(p)
  <2> DEFINE c == Cm(p)
             k == Cu(p)
             a == Ca(p)
             q == Units(p)
  <2>1. c \in Nat /\ k \in Nat /\ a \in Nat /\ q \in Nat /\ c * k <= q /\ n = c - a
    BY <1>3, <1>4, <1>5, <1>6
  <2> HIDE DEF c, k, a, q, n
  <2>2. (c - a) * k = c * k - a * k /\ a * k \in Nat /\ c * k \in Nat
    BY <2>1
  <2>3. n * k <= q
    BY <2>1, <2>2
  <2> QED
    BY <2>3 DEF k, q
<1>8. SuperAccepted(d)
  <2>1. IsSuper(sb)
    BY TheSuper
  <2>2. sb.spc_bits \in Int
    BY <2>1 DEF IsSuper
  <2> HIDE DEF sb
  <2> QED
    BY <1>1, <1>3, <1>5, <1>6, <2>2 DEF SuperAccepted
<1>9. UpcaseAccepted(sb, UpcaseEntry(p))
  <2>1. UctSize \in 1..UpcaseMax /\ UctSize % 2 = 0
    BY SMT DEF UctSize, UpcaseMax
  <2>2. ~ClusterInvalid(sb, Cb(p) + 2)
    <3> HIDE DEF sb
    <3> QED
      BY <1>3, <1>4 DEF ClusterInvalid, FirstDataCluster
  <2> HIDE DEF sb
  <2> QED
    BY <1>2, <2>1, <2>2 DEF UpcaseAccepted
<1>10. BitmapAccepted(sb, BitmapEntry(p))
  <2>1. ~ClusterInvalid(sb, 2)
    <3> HIDE DEF sb
    <3> QED
      BY <1>3, <1>4 DEF ClusterInvalid, FirstDataCluster
  <2>2. CbmSize(p) >= DivRoundUp(n, 8)
    <3> HIDE DEF n
    <3> QED
      BY <1>4
  <2> HIDE DEF sb
  <2> QED
    BY <1>2, <2>1, <2>2 DEF BitmapAccepted
<1>11. VerifyVbrChecksum(d, sb)
  <2> DEFINE i == Rt(p) + 37
  <2>1. i \in Nat /\ i > 18
    BY Map
  <2>2. BootStage(p, i, d)
    BY DEF Stage
  <2> HIDE DEF i
  <2> QED
    BY <1>1, <2>1, <2>2, NewSum
<1> DEFINE tb == Super(d)
           Y == EntriesIn(d, tb, RootChain(d, tb))
<1>12. tb = sb /\ Y = X
  BY <1>1
<1>13. RootChain(d, tb) # {}
  BY <1>1
<1>14. sb.cluster_count * ClusterUnits(sb) <= Cardinality(DOMAIN d)
  BY <1>3, <1>5, <1>7
<1> HIDE DEF sb, X, tb, Y, n
<1>15. Of(Y, "upcase") # {} /\ Of(Y, "bitmap") # {}
  BY <1>2, <1>12
<1>16. \A e \in Of(Y, "upcase") : UpcaseAccepted(tb, e)
  BY <1>2, <1>9, <1>12
<1>17. \A e \in Of(Y, "bitmap") : BitmapAccepted(tb, e)
  BY <1>2, <1>10, <1>12
<1>18. VerifyVbrChecksum(d, tb) /\ tb.version = <<1, 0>> /\ tb.fat_count = 1
       /\ tb.cluster_count * ClusterUnits(tb) <= Cardinality(DOMAIN d)
  BY <1>3, <1>11, <1>12, <1>14
<1> QED
  BY <1>8, <1>13, <1>15, <1>16, <1>17, <1>18 DEF Mounts, tb, Y

-----------------------------------------------------------------------------
(* What a mount changes *)

\* A super block with another state of the volume.
LEMMA SuperState ==
  ASSUME NEW sb, IsSuper(sb), NEW v
  PROVE  LET tb == [sb EXCEPT !.volume_state = v] IN
         /\ IsSuper(tb) /\ SameSuper(sb, tb) /\ tb.allocated_percent = sb.allocated_percent
         /\ tb.serial = sb.serial /\ tb.volume_state = v
<1> DEFINE tb == [sb EXCEPT !.volume_state = v]
<1>1. sb = [serial |-> sb.serial, sector_bits |-> sb.sector_bits,
           spc_bits |-> sb.spc_bits, version |-> sb.version, fat_count |-> sb.fat_count,
           volume_state |-> sb.volume_state, allocated_percent |-> sb.allocated_percent,
           fat_sector_start |-> sb.fat_sector_start,
           cluster_sector_start |-> sb.cluster_sector_start,
           cluster_count |-> sb.cluster_count, rootdir_cluster |-> sb.rootdir_cluster]
  BY DEF IsSuper
<1>2. SameSuper(sb, tb) /\ tb.allocated_percent = sb.allocated_percent
      /\ tb.serial = sb.serial /\ tb.volume_state = v
  BY <1>1 DEF SameSuper
<1>3. IsSuper(tb)
  BY <1>1 DEF IsSuper
<1> QED
  BY <1>2, <1>3

\* A super block with another share of clusters in use.
LEMMA SuperPercent ==
  ASSUME NEW sb, IsSuper(sb), NEW v
  PROVE  LET tb == [sb EXCEPT !.allocated_percent = v] IN
         /\ IsSuper(tb) /\ SameSuper(sb, tb) /\ tb.volume_state = sb.volume_state
         /\ tb.serial = sb.serial /\ tb.allocated_percent = v
<1> DEFINE tb == [sb EXCEPT !.allocated_percent = v]
<1>1. sb = [serial |-> sb.serial, sector_bits |-> sb.sector_bits,
           spc_bits |-> sb.spc_bits, version |-> sb.version, fat_count |-> sb.fat_count,
           volume_state |-> sb.volume_state, allocated_percent |-> sb.allocated_percent,
           fat_sector_start |-> sb.fat_sector_start,
           cluster_sector_start |-> sb.cluster_sector_start,
           cluster_count |-> sb.cluster_count, rootdir_cluster |-> sb.rootdir_cluster]
  BY DEF IsSuper
<1>2. SameSuper(sb, tb) /\ tb.volume_state = sb.volume_state
      /\ tb.serial = sb.serial /\ tb.allocated_percent = v
  BY <1>1 DEF SameSuper
<1>3. IsSuper(tb)
  BY <1>1 DEF IsSuper
<1> QED
  BY <1>2, <1>3

\* The part of a super block that the boot checksum covers.
Covered(sb) == [sb EXCEPT !.volume_state = {}, !.allocated_percent = 0]

SameCovered(sb, tb) == Covered(tb) = Covered(sb)

\* The state of the volume is not covered.
LEMMA CoveredState ==
  ASSUME NEW sb, IsSuper(sb), NEW v
  PROVE  SameCovered(sb, [sb EXCEPT !.volume_state = v])
<1>1. sb = [serial |-> sb.serial, sector_bits |-> sb.sector_bits,
           spc_bits |-> sb.spc_bits, version |-> sb.version, fat_count |-> sb.fat_count,
           volume_state |-> sb.volume_state, allocated_percent |-> sb.allocated_percent,
           fat_sector_start |-> sb.fat_sector_start,
           cluster_sector_start |-> sb.cluster_sector_start,
           cluster_count |-> sb.cluster_count, rootdir_cluster |-> sb.rootdir_cluster]
  BY DEF IsSuper
<1> QED
  BY <1>1 DEF SameCovered, Covered

\* Nor is the percentage in use.
LEMMA CoveredPercent ==
  ASSUME NEW sb, IsSuper(sb), NEW v
  PROVE  SameCovered(sb, [sb EXCEPT !.allocated_percent = v])
<1>1. sb = [serial |-> sb.serial, sector_bits |-> sb.sector_bits,
           spc_bits |-> sb.spc_bits, version |-> sb.version, fat_count |-> sb.fat_count,
           volume_state |-> sb.volume_state, allocated_percent |-> sb.allocated_percent,
           fat_sector_start |-> sb.fat_sector_start,
           cluster_sector_start |-> sb.cluster_sector_start,
           cluster_count |-> sb.cluster_count, rootdir_cluster |-> sb.rootdir_cluster]
  BY DEF IsSuper
<1> QED
  BY <1>1 DEF SameCovered, Covered

\* A super block with both.
LEMMA SuperBoth ==
  ASSUME NEW sb, IsSuper(sb), NEW v, NEW q
  PROVE  LET tb == [sb EXCEPT !.volume_state = v, !.allocated_percent = q] IN
         IsSuper(tb) /\ SameSuper(sb, tb) /\ SameCovered(sb, tb)
<1> DEFINE tb == [sb EXCEPT !.volume_state = v, !.allocated_percent = q]
           sv == [sb EXCEPT !.volume_state = v]
           sq == [sv EXCEPT !.allocated_percent = q]
<1>1. IsSuper(sv) /\ SameSuper(sb, sv) /\ SameCovered(sb, sv)
  BY SuperState, CoveredState
<1>2. IsSuper(sq) /\ SameSuper(sv, sq) /\ SameCovered(sv, sq)
  <2> HIDE DEF sv
  <2> QED
    BY <1>1, SuperPercent, CoveredPercent
<1>3. tb = sq
  OBVIOUS
<1> HIDE DEF tb, sv, sq
<1>4. SameSuper(sb, sq) /\ SameCovered(sb, sq)
  BY <1>1, <1>2 DEF SameSuper, SameCovered
<1> QED
  BY <1>2, <1>3, <1>4 DEF tb

\* A super block tb replaces that of d, and nothing else changes.
OnlySuper(d, e, tb) ==
  /\ Device(e) /\ SameVolume(d, e) /\ Super(e) = tb /\ e[0].k = "sb"
  /\ DOMAIN e = DOMAIN d /\ \A u \in DOMAIN d : u # 0 => e[u] = d[u]

\* A device with another super block of the same volume.
LEMMA NewSuper ==
  ASSUME NEW d, Device(d), d[0].k = "sb", NEW tb, IsSuper(tb), SameSuper(Super(d), tb),
         NEW e, e = [d EXCEPT ![0] = Only("sb", 0, tb)]
  PROVE  OnlySuper(d, e, tb)
<1> DEFINE x == Only("sb", 0, tb)
<1>1. PICK size \in Nat : size > 0 /\ DOMAIN d = 0..(size - 1)
  BY DEF Device
<1>2. 0 \in DOMAIN d
  BY <1>1
<1>3. x.k = "sb" /\ x.c[0] = tb
  BY DEF Only, Cell
<1>4. UnitTyped(x)
  BY <1>3 DEF UnitTyped
<1> HIDE DEF x
<1>5. d = [u \in DOMAIN d |-> d[u]]
  BY DEF Device
<1>6. e = [d EXCEPT ![0] = x]
  BY DEF x
<1>7. e[0] = x /\ DOMAIN e = DOMAIN d /\ \A u \in DOMAIN d : u # 0 => e[u] = d[u]
  BY <1>2, <1>6
<1>8. e = [u \in DOMAIN e |-> e[u]]
  BY <1>6
<1>9. CellsTyped(e)
  BY <1>4, <1>7 DEF CellsTyped, Device
<1>10. Super(e) = tb /\ e[0].k = "sb"
  BY <1>3, <1>7 DEF Super
<1>11. Device(e)
  BY <1>1, <1>7, <1>8, <1>9, <1>10 DEF Device
<1>12. \A u \in DOMAIN d : u >= 12 * SectorUnits(Super(d)) => e[u] = d[u]
  <2>2. \A u \in DOMAIN d : u >= 12 * SectorUnits(Super(d)) => u # 0
    <3> DEFINE s == SectorUnits(Super(d))
    <3>1. s \in Nat /\ s >= 1
      BY SuperSizes DEF Device
    <3> HIDE DEF s
    <3>2. \A u \in DOMAIN d : u >= 12 * s => u # 0
      BY <1>1, <3>1
    <3> QED
      BY <3>2 DEF s
  <2> QED
    BY <1>7, <2>2
<1>13. SameVolume(d, e)
  BY <1>7, <1>10, <1>12 DEF SameVolume
<1> QED
  BY <1>7, <1>10, <1>11, <1>13 DEF OnlySuper

\* The boot checksum stays right with it.
LEMMA SumKept ==
  ASSUME NEW d, Device(d), d[0].k = "sb", NEW tb, IsSuper(tb), SameSuper(Super(d), tb),
         SameCovered(Super(d), tb), NEW e, DOMAIN e = DOMAIN d,
         \A u \in DOMAIN d : u # 0 => e[u] = d[u],
         Cardinality(DOMAIN d) >= 12 * SectorUnits(Super(d)), VerifyVbrChecksum(d, Super(d))
  PROVE  VerifyVbrChecksum(e, tb)
<1> DEFINE sb == Super(d)
           s == SectorUnits(sb)
<1>1. IsSuper(sb)
  BY DEF Device
<1>2. s \in Nat /\ s >= 1 /\ SectorUnits(tb) = s
  BY <1>1, SuperSizes DEF SameSuper, SectorUnits
<1>3. PICK size \in Nat : size > 0 /\ DOMAIN d = 0..(size - 1)
  BY DEF Device
<1>4. size >= 12 * s
  <2>1. Cardinality(DOMAIN d) = size
    BY <1>3, VolumeIs
  <2> QED
    BY <2>1
<1> HIDE DEF sb, s
<1>5. \A u \in 1..(12 * s - 1) : u \in DOMAIN d /\ e[u] = d[u]
  <2> TAKE u \in 1..(12 * s - 1)
  <2>1. u \in 0..(size - 1) /\ u # 0
    BY <1>2, <1>4
  <2> QED
    BY <1>3, <2>1
<1>6. [u \in 1..(11 * s - 1) |-> e[u]] = [u \in 1..(11 * s - 1) |-> d[u]]
  <2>1. \A u \in 1..(11 * s - 1) : u \in 1..(12 * s - 1)
    BY <1>2
  <2> QED
    BY <1>5, <2>1
<1>7. VbrExpected(e, tb) = VbrExpected(d, sb)
  <2> DEFINE f == [u \in 1..(11 * s - 1) |-> e[u]]
             g == [u \in 1..(11 * s - 1) |-> d[u]]
             K(h) == [i \in DOMAIN h |-> h[i].k]
  <2>1. VbrExpected(e, tb) = <<Covered(tb), K(f)>>
    BY <1>2 DEF VbrExpected, VbrChecksum, Covered
  <2>2. VbrExpected(d, sb) = <<Covered(sb), K(g)>>
    BY DEF VbrExpected, VbrChecksum, Covered, s
  <2>3. Covered(tb) = Covered(sb)
    BY DEF SameCovered, sb
  <2> HIDE DEF f, g, K
  <2>4. f = g
    BY <1>6 DEF f, g
  <2> QED
    BY <2>1, <2>2, <2>3, <2>4
<1>8. \A u \in (11 * s)..(12 * s - 1) : d[u].k = "sum" /\ d[u].c[0] = VbrExpected(d, sb)
  BY DEF VerifyVbrChecksum, sb, s
<1>9. \A u \in (11 * s)..(12 * s - 1) : e[u] = d[u]
  <2>1. \A u \in (11 * s)..(12 * s - 1) : u \in 1..(12 * s - 1)
    BY <1>2
  <2> QED
    BY <1>5, <2>1
<1> QED
  BY <1>2, <1>7, <1>8, <1>9 DEF VerifyVbrChecksum

\* The super block is another, and what mounted still mounts.
Touched(d, e) ==
  /\ Device(e) /\ SameVolume(d, e) /\ e[0].k = "sb"
  /\ Mounts(d, FALSE) => Mounts(e, FALSE)

\* Replacing the fields that are not covered does that.
LEMMA TouchedBy ==
  ASSUME NEW d, Device(d), d[0].k = "sb", NEW tb, IsSuper(tb), SameSuper(Super(d), tb),
         SameCovered(Super(d), tb), NEW e, e = [d EXCEPT ![0] = Only("sb", 0, tb)]
  PROVE  Touched(d, e)
<1>1. /\ Device(e) /\ SameVolume(d, e) /\ Super(e) = tb /\ e[0].k = "sb"
      /\ DOMAIN e = DOMAIN d /\ \A u \in DOMAIN d : u # 0 => e[u] = d[u]
  <2>1. OnlySuper(d, e, tb)
    BY ONLY Device(d), d[0].k = "sb", IsSuper(tb), SameSuper(Super(d), tb),
            e = [d EXCEPT ![0] = Only("sb", 0, tb)], NewSuper
  <2> QED
    BY ONLY <2>1 DEF OnlySuper
<1>2. ASSUME Mounts(d, FALSE) PROVE Mounts(e, FALSE)
  <2>1. Mounts(d, TRUE) /\ VerifyVbrChecksum(d, Super(d))
        /\ Cardinality(DOMAIN d) >= 12 * SectorUnits(Super(d))
    BY <1>2 DEF Mounts, SuperAccepted
  <2>2. Mounts(e, TRUE)
    BY <1>1, <2>1, MountsSame
  <2>3. VerifyVbrChecksum(e, tb)
    BY <1>1, <2>1, SumKept
  <2> QED
    BY <1>1, <2>2, <2>3 DEF Mounts
<1> QED
  BY <1>1, <1>2 DEF Touched

\* exfat_soil_super_block() does that.
LEMMA SoiledTouched ==
  ASSUME NEW d, Device(d), d[0].k = "sb"
  PROVE  Touched(d, Soiled(d))
<1> DEFINE sb == Super(d)
           v == sb.volume_state \cup {"mounted"}
           tb == [sb EXCEPT !.volume_state = v]
           e == Soiled(d)
<1>1. IsSuper(sb)
  BY DEF Device
<1>2. e = [d EXCEPT ![0] = Only("sb", 0, [sb EXCEPT !.volume_state = @ \cup {"mounted"}])]
  BY DEF Soiled
<1>3. [sb EXCEPT !.volume_state = @ \cup {"mounted"}] = tb
  OBVIOUS
<1>4. IsSuper(tb) /\ SameSuper(sb, tb) /\ SameCovered(sb, tb)
  <2> HIDE DEF sb, v
  <2> QED
    BY <1>1, SuperState, CoveredState
<1>5. e = [d EXCEPT ![0] = Only("sb", 0, tb)]
  BY <1>2, <1>3
<1> HIDE DEF tb, e
<1>6. Touched(d, e)
  BY <1>4, <1>5, TouchedBy
<1> QED
  BY <1>6 DEF e

\* finalize_super_block() does that.
LEMMA FinalizedTouched ==
  ASSUME NEW d, Device(d), d[0].k = "sb"
  PROVE  Touched(d, Finalized(d))
<1> DEFINE sb == Super(d)
           map == CHOOSE e \in Of(EntriesIn(d, sb, RootChain(d, sb)), "bitmap") : TRUE
           v == sb.volume_state \ {"mounted"}
           q == IF sb.allocated_percent = 255 THEN sb.allocated_percent
                ELSE Percent(Cardinality(Marked(d, sb, map)), sb.cluster_count)
           tb == [sb EXCEPT !.volume_state = v, !.allocated_percent = q]
           e == Finalized(d)
<1>1. IsSuper(sb)
  BY DEF Device
<1>2. e = [d EXCEPT ![0] = Only("sb", 0, tb)]
  BY DEF Finalized
<1>3. IsSuper(tb) /\ SameSuper(sb, tb) /\ SameCovered(sb, tb)
  <2> HIDE DEF sb, v, q
  <2> QED
    BY <1>1, SuperBoth
<1> HIDE DEF tb, e
<1>4. Touched(d, e)
  BY <1>2, <1>3, TouchedBy
<1> QED
  BY <1>4 DEF e

\* exfat_fix_invalid_vbr_checksum().
LEMMA FixedSame ==
  ASSUME NEW d, Device(d), d[0].k = "sb"
  PROVE  LET e == FixVbrChecksum(d, Super(d)) IN Device(e) /\ SameVolume(d, e)
<1> DEFINE sb == Super(d)
           s == SectorUnits(sb)
           x == Only("sum", 0, VbrExpected(d, sb))
           e == FixVbrChecksum(d, sb)
<1>1. IsSuper(sb)
  BY DEF Device
<1>2. s \in {1, 2, 4, 8}
  BY <1>1, Powers DEF IsSuper, SectorUnits
<1>3. e = [u \in DOMAIN d |-> IF u \div s = 11 THEN x ELSE d[u]]
  BY DEF FixVbrChecksum
<1>4. PICK size \in Nat : size > 0 /\ DOMAIN d = 0..(size - 1)
  BY DEF Device
<1>5. x.k = "sum"
  BY DEF Only
<1> HIDE DEF sb, s, x, e
<1>6. UnitTyped(x)
  BY <1>5 DEF UnitTyped
<1>7. DOMAIN e = DOMAIN d /\ e = [u \in DOMAIN e |-> e[u]]
      /\ \A u \in DOMAIN d : e[u] = IF u \div s = 11 THEN x ELSE d[u]
  BY <1>3
<1>8. e[0] = d[0]
  <2>1. 0 \in DOMAIN d /\ 0 \div s # 11
    BY <1>2, <1>4
  <2> QED
    BY <1>7, <2>1
<1>9. CellsTyped(e)
  BY <1>6, <1>7 DEF CellsTyped, Device
<1>10. Super(e) = sb /\ e[0].k = "sb"
  BY <1>8 DEF Super, sb
<1>11. Device(e)
  BY <1>1, <1>4, <1>7, <1>9, <1>10 DEF Device
<1>12. \A u \in DOMAIN d : u >= 12 * s => e[u] = d[u]
  <2>1. \A u \in DOMAIN d : u >= 12 * s => u \div s # 11
    BY <1>2, <1>4
  <2> QED
    BY <1>7, <2>1
<1>13. SameSuper(sb, sb)
  BY DEF SameSuper
<1>14. SameVolume(d, e)
  BY <1>7, <1>10, <1>12, <1>13 DEF SameVolume, sb, s
<1> QED
  BY <1>11, <1>14 DEF e, sb

\* Devices with the same volume, the other way round.
LEMMA SameSymmetric ==
  ASSUME NEW d, NEW e, SameVolume(d, e)
  PROVE  SameVolume(e, d)
<1>1. SameSuper(Super(d), Super(e))
  BY DEF SameVolume
<1>2. SameSuper(Super(e), Super(d)) /\ SectorUnits(Super(e)) = SectorUnits(Super(d))
  BY <1>1 DEF SameSuper, SectorUnits
<1> QED
  BY <1>2 DEF SameVolume

\* What mounts holds together.
Good(d) == Mounts(d, TRUE) => HoldsTogether(d)

\* Devices with the same volume are both good or both not.
LEMMA GoodSame ==
  ASSUME NEW d, NEW e, Device(d), Device(e), SameVolume(d, e), Good(d)
  PROVE  Good(e)
<1> SUFFICES ASSUME Mounts(e, TRUE) PROVE HoldsTogether(e)
  BY DEF Good
<1>1. SameVolume(e, d)
  BY SameSymmetric
<1>2. Mounts(d, TRUE)
  BY <1>1, MountsSame
<1>3. HoldsTogether(d)
  BY <1>2 DEF Good
<1> QED
  BY <1>2, <1>3, HoldsSame

\* A mount with repair.
LEMMA RepairedIs ==
  ASSUME NEW d, Device(d), NEW e, e = Repaired(d, TRUE)
  PROVE  /\ Device(e) /\ DOMAIN e = DOMAIN d /\ (Good(d) => Good(e))
         /\ d[0].k = "sb" => e[0].k = "sb"
         /\ Mounts(d, FALSE) => e = d
<1>1. CASE SuperAccepted(d) /\ ~VerifyVbrChecksum(d, Super(d))
  <2>1. e = FixVbrChecksum(d, Super(d)) /\ d[0].k = "sb"
    BY <1>1 DEF Repaired, SuperAccepted
  <2>2. Device(e) /\ SameVolume(d, e)
    BY <2>1, FixedSame
  <2>3. Good(d) => Good(e)
    BY <2>2, GoodSame
  <2>4. ~Mounts(d, FALSE)
    BY <1>1 DEF Mounts
  <2> QED
    BY <2>2, <2>3, <2>4 DEF SameVolume
<1>2. CASE ~(SuperAccepted(d) /\ ~VerifyVbrChecksum(d, Super(d)))
  <2>1. e = d
    BY <1>2 DEF Repaired
  <2> QED
    BY <2>1
<1> QED
  BY <1>1, <1>2

-----------------------------------------------------------------------------
(* The formats *)

\* setup_spc_bits() and choose_spc_bits().
LEMMA DefaultSpc ==
  ASSUME NEW b \in 9..12, NEW kb \in Nat
  PROVE  DefaultSpcBits(b, kb) \in 0..8
<1> DEFINE z(n) == IF n > 0 THEN n ELSE 0
<1>1. z(12 - b) \in 0..8 /\ z(15 - b) \in 0..8 /\ z(17 - b) \in 0..8
  BY SMT
<1>2. \/ DefaultSpcBits(b, kb) = z(12 - b) \/ DefaultSpcBits(b, kb) = z(15 - b)
      \/ DefaultSpcBits(b, kb) = z(17 - b)
  BY SMT DEF DefaultSpcBits
<1> QED
  BY <1>1, <1>2

\* The parameters of a format.
LEMMA ParamIs ==
  ASSUME NEW j, NEW size, size \in Nat, j.sector_bits \in 9..12, j.spc_bits \in -1..21
  PROVE  /\ IsParam(Param(j, size)) /\ Param(j, size).job = j /\ Units(Param(j, size)) = size
         /\ Param(j, size).spc_bits = SpcBits(j, size)
         /\ j.spc_bits <= 16 => SpcBits(j, size) <= 16
<1> DEFINE p == Param(j, size)
<1>1. SpcBits(j, size) \in 0..21 /\ (j.spc_bits <= 16 => SpcBits(j, size) <= 16)
  <2>1. CASE j.spc_bits >= 0
    BY <2>1 DEF SpcBits
  <2>2. CASE ~(j.spc_bits >= 0)
    <3>1. size \div 2 \in Nat
      OBVIOUS
    <3>2. DefaultSpcBits(j.sector_bits, size \div 2) \in 0..8
      BY <3>1, DefaultSpc
    <3> QED
      BY <2>2, <3>2 DEF SpcBits
  <2> QED
    BY <2>1, <2>2
<1>2. /\ p.job = j /\ p.ss = 2 ^ j.sector_bits /\ p.spc_bits = SpcBits(j, size)
      /\ p.cs = 2 ^ j.sector_bits * 2 ^ SpcBits(j, size) /\ p.volume = size * UnitBytes
  BY DEF Param
<1> HIDE DEF p
<1>3. IsParam(p)
  BY <1>1, <1>2 DEF IsParam
<1>4. Units(p) = size
  <2>1. (size * 512) \div 512 = size
    OBVIOUS
  <2> QED
    BY <1>2, <2>1 DEF Units, UnitBytes
<1> QED
  BY <1>1, <1>2, <1>3, <1>4 DEF p

\* A format, once it has started.
Formats(p, d) ==
  IsParam(p) /\ CheckSize(p) /\ Allocated(p) <= BitCells /\ OnVolume(p, d)

\* A device is good at every stage, and a write that stops leaves it good.
LEMMA StageGood ==
  ASSUME NEW p, NEW d, Formats(p, d), NEW i \in 2..(Rt(p) + 37), Stage(p, i, d)
  PROVE  Good(d)
<1>1. Rt(p) \in Nat
  BY Map DEF Formats
<1>2. CASE i = Rt(p) + 37
  BY <1>2, NewHolds DEF Formats, Good
<1>3. CASE i # Rt(p) + 37
  <2>1. i \in 2..(Rt(p) + 36)
    BY <1>1, <1>3
  <2>2. SuperStage(p, i, d) /\ FatStage(p, i, d) /\ RootStage(p, i, d)
    BY DEF Stage
  <2>3. ~Mounts(d, TRUE)
    BY <2>1, <2>2, NotYet DEF Formats
  <2> QED
    BY <2>3 DEF Good
<1> QED
  BY <1>2, <1>3

\* A write that is cut short leaves a device that does not mount, or one whose
\* volume holds together.
LEMMA TornGood ==
  ASSUME NEW p, NEW d, Formats(p, d), NEW i \in 1..(Rt(p) + 36), NEW w, w = Writes(p)[i],
         NEW n \in Nat, n < Len(w.data), Stage(p, i, d), Good(d)
  PROVE  Good(Apply(d, w, n)) /\ OnVolume(p, Apply(d, w, n))
<1> DEFINE e == Apply(d, w, n)
<1>1. IsParam(p) /\ CheckSize(p) /\ OnVolume(p, d)
  BY DEF Formats
<1>2. Rt(p) \in Nat /\ w.u \in Nat /\ Len(w.data) \in Nat /\ WriteIs(p, i, w)
  BY <1>1, WriteNamed
<1>3. n \in 0..Len(w.data)
  BY <1>2
<1>4. OnVolume(p, e)
  BY <1>1, <1>3, StillVolume
<1>5. CASE i >= 2
  <2>1. i \in 2..(Rt(p) + 36)
    BY <1>2, <1>5
  <2>2. SuperStage(p, i, e) /\ (i >= 8 => FatStage(p, i, e) /\ RootStage(p, i, e))
    BY <1>1, <1>3, <2>1, TornStage
  <2> HIDE DEF e
  <2>3. ~Mounts(e, TRUE)
    BY <1>1, <1>4, <2>1, <2>2, NotYet
  <2>4. Good(e)
    BY <2>3 DEF Good
  <2> QED
    BY <1>4, <2>4 DEF e
<1>6. CASE i = 1
  <2>1. EraseAt(p, i, w)
    BY <1>2, <1>6, EarlyWrites
  <2>2. w.whole = TRUE /\ w.u = 0 /\ \A j \in 1..Len(w.data) : w.data[j] = Zero
    BY <1>6, <2>1 DEF EraseAt, Ob0
  <2>3. CASE n = 0
    <3>1. \A u : u \notin w.u..(w.u + n - 1)
      BY <1>2, <2>3
    <3>2. DOMAIN e = DOMAIN d /\ (\A u \in DOMAIN d : e[u] = d[u]) /\ e = [u \in DOMAIN e |-> e[u]]
      <4>1. e = [u \in DOMAIN e |-> e[u]]
        BY DEF Apply
      <4> QED
        BY <3>1, <4>1, ApplyOff
    <3>3. d = [u \in DOMAIN d |-> d[u]]
      BY <1>1 DEF OnVolume, Device
    <3> HIDE DEF e
    <3>4. e = d
      BY <3>2, <3>3
    <3> QED
      BY <1>4, <3>4 DEF e
  <2>4. CASE n >= 1
    <3> DEFINE u == 0
    <3>1. u \in DOMAIN d /\ u \in Nat /\ w.u = u
      BY <1>1, <2>2 DEF OnVolume, Device
    <3>2. 1 \in 1..Len(w.data) /\ w.whole = TRUE
      BY <1>2, <2>2, <2>4
    <3>3. e[0] = Zero
      <4> HIDE DEF u
      <4>1. w.whole = TRUE
        BY <3>2
      <4>2. FirstHit(d, w, n, u)
        BY ONLY n \in Nat, <2>4, <3>1, <4>1, HitFirst
      <4> HIDE DEF e
      <4> QED
        BY <2>2, <3>2, <4>2 DEF FirstHit, u, e
    <3> HIDE DEF e
    <3>4. e[0].k # "sb"
      BY <3>3 DEF Zero
    <3>5. Good(e)
      BY <3>4 DEF Good, Mounts, SuperAccepted
    <3> QED
      BY <1>4, <3>5 DEF e
  <2> QED
    BY <2>3, <2>4
<1> QED
  BY <1>2, <1>5, <1>6

-----------------------------------------------------------------------------
(* What was on the device before *)

\* The devices that a sequence of writes leaves, one behind the other.
Later(ws, d, f, i) == IF i = 0 THEN d ELSE Apply(f[i - 1], ws[i], Len(ws[i].data))

IsRun(ws, d, f, n) == f = [i \in 0..n |-> Later(ws, d, f, i)]

TheRun(ws, d, n) == CHOOSE f : IsRun(ws, d, f, n)

\* There is a run of every length.
LEMMA RunExists ==
  ASSUME NEW ws, NEW d, NEW n \in Nat
  PROVE  IsRun(ws, d, TheRun(ws, d, n), n)
<1> DEFINE S == {m \in Nat : ~\E f : IsRun(ws, d, f, m)}
<1>1. ASSUME S # {} PROVE FALSE
  <2>1. PICK m \in S : \A k \in S : m <= k
    <3>1. S \in SUBSET Nat
      OBVIOUS
    <3> HIDE DEF S
    <3> QED
      BY <1>1, <3>1, LeastIndex
  <2>2. m \in Nat /\ ~\E f : IsRun(ws, d, f, m)
    OBVIOUS
  <2>3. CASE m = 0
    <3> DEFINE f == [i \in 0..0 |-> d]
    <3>1. \A i \in 0..0 : Later(ws, d, f, i) = d
      BY DEF Later
    <3>2. IsRun(ws, d, f, 0)
      BY <3>1 DEF IsRun
    <3> QED
      BY <2>2, <2>3, <3>2
  <2>4. CASE m # 0
    <3>1. m - 1 \in Nat /\ m - 1 \notin S
      <4> HIDE DEF S
      <4> QED
        BY <2>1, <2>2, <2>4
    <3>2. PICK f : IsRun(ws, d, f, m - 1)
      BY <3>1
    <3>3. \A i \in 0..(m - 1) : f[i] = Later(ws, d, f, i)
      BY <3>2 DEF IsRun
    <3> DEFINE g == [i \in 0..m |-> Later(ws, d, f, i)]
    <3>4. \A i \in 0..(m - 1) : g[i] = f[i]
      BY <2>2, <3>3
    <3>5. \A i \in 0..m : g[i] = Later(ws, d, g, i)
      <4> SUFFICES ASSUME NEW i \in 0..m PROVE g[i] = Later(ws, d, g, i)
        OBVIOUS
      <4>1. g[i] = Later(ws, d, f, i)
        OBVIOUS
      <4>2. i # 0 => i - 1 \in 0..(m - 1)
        BY <2>2
      <4> HIDE DEF g
      <4> QED
        BY <3>4, <4>1, <4>2 DEF Later
    <3>6. g = [i \in 0..m |-> g[i]]
      OBVIOUS
    <3> HIDE DEF g
    <3>7. IsRun(ws, d, g, m)
      BY <3>5, <3>6 DEF IsRun
    <3> QED
      BY <2>2, <3>7
  <2> QED
    BY <2>3, <2>4
<1>2. \E f : IsRun(ws, d, f, n)
  BY <1>1
<1> QED
  BY <1>2 DEF TheRun

\* A complete format of a device.
LEMMA MadeIs ==
  ASSUME NEW p, NEW d, Formats(p, d)
  PROVE  LET e == Made(d, p) IN Formats(p, e) /\ Stage(p, Rt(p) + 37, e)
<1> DEFINE ws == Writes(p)
           n == Len(ws)
           f == TheRun(ws, d, n)
           r == Rt(p)
<1>1. IsParam(p) /\ CheckSize(p) /\ OnVolume(p, d)
  BY DEF Formats
<1>2. n = r + 36 /\ r \in Nat
  BY <1>1, WritesAre
<1>3. Made(d, p) = f[n]
  BY DEF Made, TheRun, IsRun, Later
<1>4. IsRun(ws, d, f, n)
  <2>1. n \in Nat
    BY <1>2
  <2> HIDE DEF n, ws
  <2> QED
    BY <2>1, RunExists
<1> HIDE DEF f, n, r
<1>5. \A i \in 0..n : f[i] = Later(ws, d, f, i)
  BY <1>4 DEF IsRun
<1> DEFINE Done(i) == OnVolume(p, f[i]) /\ Stage(p, i + 1, f[i])
           S == {i \in 0..n : ~Done(i)}
<1>6. S = {}
  <2> SUFFICES ASSUME S # {} PROVE FALSE
    OBVIOUS
  <2>1. PICK m \in S : \A k \in S : m <= k
    <3>1. S \in SUBSET Nat
      OBVIOUS
    <3> HIDE DEF S
    <3> QED
      BY <3>1, LeastIndex
  <2>2. m \in 0..n /\ ~Done(m)
    OBVIOUS
  <2>3. CASE m = 0
    <3>1. f[0] = d
      BY <1>5, <2>2, <2>3 DEF Later
    <3>2. Stage(p, 1, d)
      BY <1>1, FirstStage
    <3>3. 0 + 1 = 1
      OBVIOUS
    <3> QED
      BY <1>1, <2>2, <2>3, <3>1, <3>2, <3>3
  <2>4. CASE m # 0
    <3>1. m - 1 \in 0..n /\ m - 1 \notin S /\ m \in 1..(Rt(p) + 36) /\ (m - 1) + 1 = m
      <4> HIDE DEF S
      <4> QED
        BY <1>2, <2>1, <2>2, <2>4 DEF r
    <3> DEFINE x == f[m - 1]
               w == ws[m]
               l == Len(w.data)
    <3>2. OnVolume(p, x) /\ Stage(p, m, x)
      BY <3>1
    <3>3. f[m] = Apply(x, w, l)
      BY <1>5, <2>2, <2>4 DEF Later
    <3> HIDE DEF x
    <3>4. Stage(p, m + 1, Apply(x, w, l))
      BY <1>1, <3>1, <3>2, StageStep
    <3>5. OnVolume(p, Apply(x, w, l))
      <4>1. l \in 0..Len(w.data)
        <5>1. l \in Nat
          BY <1>1, <3>1, WriteNamed
        <5> QED
          BY <5>1
      <4> HIDE DEF l
      <4> QED
        BY <1>1, <3>1, <3>2, <4>1, StillVolume
    <3> HIDE DEF w, l
    <3> QED
      BY <2>2, <3>3, <3>4, <3>5
  <2> QED
    BY <2>3, <2>4
<1>7. OnVolume(p, f[n]) /\ Stage(p, n + 1, f[n])
  <2>1. n \in 0..n
    BY <1>2
  <2> HIDE DEF S
  <2>2. Done(n)
    BY <1>6, <2>1 DEF S
  <2> QED
    BY <2>2
<1>8. n + 1 = Rt(p) + 37
  BY <1>2 DEF r
<1> QED
  BY <1>3, <1>7, <1>8 DEF Formats

FileEntry(p) ==
  [type |-> "file", start_cluster |-> Rt(p) + 1, size |-> p.cs, label |-> ""]
DataUnits(p) == [i \in 1..Cu(p) |-> Only("data", 0, i)]

\* The units behind the root directory are those of the file.
Data0(p) == Root0(p) + Cu(p)

\* A device with a file more.
FileAdded(p, d, e) ==
  /\ OnVolume(p, e)
  /\ e[Cbm0(p)] = Mix([k |-> "bits", c |-> Cell(Allocated(p), TRUE)], d[Cbm0(p)])
  /\ e[Root0(p)] = Mix([k |-> "dir", c |-> Cell(3, FileEntry(p))], d[Root0(p)])
  /\ \A u \in Data0(p)..(Data0(p) + Cu(p) - 1) : u \in DOMAIN e /\ e[u].k = "data"
  /\ \A u \in DOMAIN d : u < Data0(p) /\ u # Cbm0(p) /\ u # Root0(p) => e[u] = d[u]

\* The cluster behind the root directory, if there is room for it.
LEMMA FileCluster ==
  ASSUME NEW p, IsParam(p), HasRoom(p)
  PROVE  /\ ClusterUnit(InitSb(p), Rt(p) + 1) = Data0(p) /\ Data0(p) \in Nat
         /\ Data0(p) + Cu(p) <= Units(p) /\ ~ClusterInvalid(InitSb(p), Rt(p) + 1)
<1> DEFINE a == Ca(p)
           b == Cb(p)
           u == Uc(p)
           k == Cu(p)
           m == Cm(p)
           q == Units(p)
           r == Rt(p)
           sb == InitSb(p)
<1>1. CheckSize(p) /\ sb.cluster_count > Allocated(p)
  BY DEF HasRoom
<1>2. /\ a \in Nat /\ b \in Nat /\ u \in Nat /\ k \in Nat /\ m \in Nat /\ q \in Nat
      /\ r = b + u + 2 /\ Allocated(p) = b + u + 1 /\ sb.cluster_count = m - a
      /\ Root0(p) = (a + b + u) * k /\ m * p.cs <= p.volume /\ p.cs = 512 * k
  BY <1>1, Objects, CbmPosIs, ParamSizes, Map, AllocatedIs, TheSuper DEF Rt, Root0
<1>3. p.volume = q * 512
  <2>1. PICK size \in Nat : p.volume = size * 512
    BY DEF IsParam, UnitBytes
  <2>2. (size * 512) \div 512 = size
    OBVIOUS
  <2> QED
    BY <2>1, <2>2 DEF Units, UnitBytes
<1>4. ClusterUnit(sb, r + 1) = (a + (r + 1) - 2) * k
  <2>1. r + 1 \in Int
    BY <1>2
  <2> QED
    BY <1>1, <2>1, TheSuper
<1> HIDE DEF a, b, u, k, m, q, r, sb
<1> DEFINE n == a + b + u
<1>5. n \in Nat /\ a + (r + 1) - 2 = n + 1 /\ n + 2 <= m
  BY <1>1, <1>2
<1>6. Root0(p) = n * k
  BY <1>2
<1> HIDE DEF n
<1>7. n * k \in Nat /\ (n + 1) * k = n * k + k /\ (n + 2) * k = n * k + k + k
  BY <1>2, <1>5
<1>8. (n + 2) * k <= q
  <2>1. (n + 2) * k <= m * k
    <3> DEFINE y == n + 2
    <3>1. y \in Nat /\ y <= m
      BY <1>5
    <3> HIDE DEF y
    <3>2. y * k <= m * k
      BY <1>2, <3>1, TimesOrder
    <3> QED
      BY <3>2 DEF y
  <2>2. PICK z \in Nat : z = m * k
    BY <1>2
  <2>3. m * p.cs = z * 512
    BY <1>2, <2>2
  <2>4. z * 512 <= q * 512
    BY <1>2, <1>3, <2>3
  <2>5. (n + 2) * k \in Nat
    BY <1>2, <1>7
  <2> QED
    BY <1>2, <2>1, <2>2, <2>4, <2>5
<1>9. ~ClusterInvalid(sb, r + 1)
  BY <1>1, <1>2 DEF ClusterInvalid, FirstDataCluster
<1>10. Data0(p) = n * k + k
  BY <1>6 DEF Data0, k
<1>11. ClusterUnit(sb, r + 1) = Data0(p) /\ Data0(p) \in Nat /\ Data0(p) + k <= q
  BY <1>2, <1>4, <1>5, <1>7, <1>8, <1>10
<1> QED
  BY <1>9, <1>11 DEF sb, r, k, q

\* The writes that make the file.
LEMMA WithFileIs ==
  ASSUME NEW p, IsParam(p), HasRoom(p), NEW d, OnVolume(p, d)
  PROVE  FileAdded(p, d, WithFile(d, p))
<1> DEFINE a == Allocated(p)
           sb == InitSb(p)
           c == FirstDataCluster + a
           file == [type |-> "file", start_cluster |-> c, size |-> p.cs, label |-> ""]
           w1 == Part(Unit(CbmPos(p)), "bits", Cell(a, TRUE))
           w2 == Part(Unit(RootPos(p)), "dir", Cell(3, file))
           w3 == Whole(ClusterUnit(sb, c), [i \in 1..ClusterUnits(sb) |-> Only("data", 0, i)])
           ws == <<w1, w2, w3>>
           f == TheRun(ws, d, 3)
<1>1. CheckSize(p)
  BY DEF HasRoom
<1>2. WithFile(d, p) = f[3]
  BY DEF WithFile, TheRun, IsRun, Later
<1>3. /\ Unit(CbmPos(p)) = Cbm0(p) /\ Unit(RootPos(p)) = Root0(p) /\ ClusterUnits(sb) = Cu(p)
      /\ Cbm0(p) \in Nat /\ Root0(p) \in Nat /\ Cu(p) \in Nat /\ Cu(p) >= 1 /\ Units(p) \in Nat
      /\ Cbm0(p) + CbmUnits(p) <= Uct0(p) /\ CbmUnits(p) >= 1 /\ Uct0(p) + 12 <= Root0(p)
      /\ Root0(p) + Cu(p) <= Units(p) /\ CbmUnits(p) \in Nat /\ Uct0(p) \in Nat
  BY <1>1, Starts, Map, TheSuper
<1>4. c = Rt(p) + 1 /\ a \in Nat
  <2>1. a \in Nat /\ Rt(p) = a + 1
    BY <1>1, AllocatedIs
  <2> QED
    BY <2>1 DEF FirstDataCluster
<1>5. file = FileEntry(p)
  BY <1>4 DEF FileEntry
<1>6. ClusterUnit(sb, c) = Data0(p) /\ Data0(p) \in Nat /\ Data0(p) + Cu(p) <= Units(p)
  BY <1>4, FileCluster
<1>7. Data0(p) = Root0(p) + Cu(p)
  BY DEF Data0
<1> HIDE DEF a, sb, c, file
<1>8. IsPart(w1, Cbm0(p), "bits", Cell(a, TRUE)) /\ IsPart(w2, Root0(p), "dir", Cell(3, FileEntry(p)))
  BY <1>3, <1>5, PartIs
<1>9. w3 = Whole(Data0(p), DataUnits(p))
  BY <1>3, <1>6 DEF DataUnits
<1>10. w3.whole = TRUE /\ w3.u = Data0(p) /\ w3.data = DataUnits(p)
  BY <1>9 DEF Whole
<1>11. Len(w3.data) = Cu(p) /\ \A i \in 1..Cu(p) : w3.data[i] = Only("data", 0, i)
  <2> DEFINE g == DataUnits(p)
             k == Cu(p)
  <2>1. g = [i \in 1..k |-> g[i]] /\ k \in Nat /\ \A i \in 1..k : g[i] = Only("data", 0, i)
    BY <1>3 DEF DataUnits
  <2> HIDE DEF g, k
  <2>2. Len(g) = k
    BY <2>1, FunSeq
  <2> QED
    BY <1>10, <2>1, <2>2 DEF g, k
<1> HIDE DEF w1, w2, w3
<1>12. ws[1] = w1 /\ ws[2] = w2 /\ ws[3] = w3
  OBVIOUS
<1> DEFINE d1 == Apply(d, w1, Len(w1.data))
           d2 == Apply(d1, w2, Len(w2.data))
           d3 == Apply(d2, w3, Len(w3.data))
<1>13. f[3] = d3
  <2>1. IsRun(ws, d, f, 3)
    <3> DEFINE n == 3
    <3>1. n \in Nat
      OBVIOUS
    <3> HIDE DEF n, ws
    <3>2. IsRun(ws, d, TheRun(ws, d, n), n)
      BY <3>1, RunExists
    <3> QED
      BY <3>2 DEF n
  <2> HIDE DEF f, ws
  <2>2. \A i \in 0..3 : f[i] = Later(ws, d, f, i)
    BY <2>1 DEF IsRun
  <2>3. f[0] = d
    BY <2>2 DEF Later
  <2>4. f[1] = d1
    <3>1. Later(ws, d, f, 1) = Apply(f[0], ws[1], Len(ws[1].data))
      BY DEF Later
    <3> QED
      BY <1>12, <2>2, <2>3, <3>1
  <2>5. f[2] = d2
    <3>1. Later(ws, d, f, 2) = Apply(f[1], ws[2], Len(ws[2].data))
      BY DEF Later
    <3> HIDE DEF d1
    <3> QED
      BY <1>12, <2>2, <2>4, <3>1
  <2>6. Later(ws, d, f, 3) = Apply(f[2], ws[3], Len(ws[3].data))
    BY DEF Later
  <2> HIDE DEF d2
  <2> QED
    BY <1>12, <2>2, <2>5, <2>6
<1> HIDE DEF f, ws
<1>14. /\ w1.whole = FALSE /\ w1.u = Cbm0(p) /\ Len(w1.data) = 1
       /\ w1.data[1] = [k |-> "bits", c |-> Cell(a, TRUE)]
       /\ w2.whole = FALSE /\ w2.u = Root0(p) /\ Len(w2.data) = 1
       /\ w2.data[1] = [k |-> "dir", c |-> Cell(3, FileEntry(p))]
  BY <1>8 DEF IsPart
<1>15. WriteTyped(w1) /\ WriteTyped(w2) /\ WriteTyped(w3)
  <2>1. WriteTyped(w1)
    BY <1>3, <1>14 DEF WriteTyped, UnitTyped
  <2>2. WriteTyped(w2)
    <3> DEFINE x == FileEntry(p)
               y == [k |-> "dir", c |-> Cell(3, x)]
    <3>1. x.start_cluster \in Int /\ x.start_cluster >= 2
      <4>1. Rt(p) \in Nat /\ Rt(p) + 1 >= 2
        BY <1>1, AllocatedIs
      <4> QED
        BY <4>1 DEF FileEntry
    <3> HIDE DEF x
    <3>2. UnitTyped(y)
      BY <3>1 DEF UnitTyped, Cell
    <3>3. y = [k |-> y.k, c |-> y.c] /\ y.k # "sb"
      OBVIOUS
    <3>4. w2.data[1] = y
      BY <1>14 DEF x
    <3> HIDE DEF y
    <3> QED
      BY <1>3, <1>14, <3>2, <3>3, <3>4 DEF WriteTyped
  <2>3. WriteTyped(w3)
    <3>1. \A i \in 1..Cu(p) : LET x == Only("data", 0, i) IN
            UnitTyped(x) /\ x = [k |-> x.k, c |-> x.c] /\ x.k # "sb"
      BY DEF UnitTyped, Only
    <3> QED
      BY <1>3, <1>6, <1>10, <1>11, <3>1 DEF WriteTyped
  <2> QED
    BY <2>1, <2>2, <2>3
<1>16. DOMAIN d1 = DOMAIN d /\ DOMAIN d2 = DOMAIN d /\ DOMAIN d3 = DOMAIN d
  BY ApplyOff
<1>17. OnVolume(p, d3)
  <2>1. Device(d1)
    <3> DEFINE n == Len(w1.data)
    <3>1. n \in 0..Len(w1.data)
      BY <1>14
    <3> HIDE DEF n
    <3>2. Device(Apply(d, w1, n))
      BY <1>15, <3>1, ApplyDevice DEF OnVolume
    <3> QED
      BY <3>2 DEF n
  <2>2. Device(d2)
    <3> DEFINE n == Len(w2.data)
    <3>1. n \in 0..Len(w2.data)
      BY <1>14
    <3> HIDE DEF n, d1
    <3>2. Device(Apply(d1, w2, n))
      BY <1>15, <2>1, <3>1, ApplyDevice
    <3> QED
      BY <3>2 DEF n
  <2>3. Device(d3)
    <3> DEFINE n == Len(w3.data)
    <3>1. n \in 0..Len(w3.data)
      BY <1>3, <1>11
    <3> HIDE DEF n, d2
    <3>2. Device(Apply(d2, w3, n))
      BY <1>15, <2>2, <3>1, ApplyDevice
    <3> QED
      BY <3>2 DEF n
  <2> HIDE DEF d3
  <2> QED
    BY <1>16, <2>3 DEF OnVolume
<1>18. DOMAIN d = 0..(Units(p) - 1)
  BY DEF OnVolume
<1>19. \A u \in DOMAIN d : u # Cbm0(p) => d1[u] = d[u]
  <2> TAKE u \in DOMAIN d
  <2> HAVE u # Cbm0(p)
  <2>1. u \notin w1.u..(w1.u + Len(w1.data) - 1)
    BY <1>3, <1>14, <1>18
  <2> QED
    BY <2>1, ApplyOff
<1>20. \A u \in DOMAIN d : u # Root0(p) => d2[u] = d1[u]
  <2> TAKE u \in DOMAIN d
  <2> HAVE u # Root0(p)
  <2>1. u \notin w2.u..(w2.u + Len(w2.data) - 1)
    BY <1>3, <1>14, <1>18
  <2> HIDE DEF d1
  <2> QED
    BY <1>16, <2>1, ApplyOff
<1>21. \A u \in DOMAIN d : u < Data0(p) => d3[u] = d2[u]
  <2> TAKE u \in DOMAIN d
  <2> HAVE u < Data0(p)
  <2>1. u \notin w3.u..(w3.u + Len(w3.data) - 1)
    BY <1>3, <1>6, <1>10, <1>11, <1>18
  <2> HIDE DEF d2
  <2> QED
    BY <1>16, <2>1, ApplyOff
<1>22. Cbm0(p) \in DOMAIN d /\ Root0(p) \in DOMAIN d /\ Cbm0(p) < Data0(p)
       /\ Root0(p) < Data0(p) /\ Cbm0(p) # Root0(p)
  BY <1>3, <1>7, <1>18
<1>23. d1[Cbm0(p)] = Mix(w1.data[1], d[Cbm0(p)])
  <2> DEFINE n == Len(w1.data)
             u == Cbm0(p)
  <2>1. w1.whole = FALSE
    BY <1>14
  <2>2. n = 1 /\ u \in DOMAIN d /\ u \in Int /\ w1.u \in Nat /\ u = w1.u
    BY <1>3, <1>14, <1>22
  <2> HIDE DEF n, u
  <2>3. PartHit(d, w1, n, u)
    BY ONLY <2>1, <2>2, HitPart
  <2> QED
    BY <2>3 DEF PartHit, n, u
<1>24. d2[Root0(p)] = Mix(w2.data[1], d1[Root0(p)])
  <2> DEFINE n == Len(w2.data)
             u == Root0(p)
  <2>1. w2.whole = FALSE
    BY <1>14
  <2>2. n = 1 /\ u \in DOMAIN d1 /\ u \in Int /\ w2.u \in Nat /\ u = w2.u
    BY <1>3, <1>14, <1>16, <1>22
  <2> HIDE DEF n, u, d1
  <2>3. PartHit(d1, w2, n, u)
    BY ONLY <2>1, <2>2, HitPart
  <2> QED
    BY <2>3 DEF PartHit, n, u
<1>25. \A u \in Data0(p)..(Data0(p) + Cu(p) - 1) : u \in DOMAIN d3 /\ d3[u].k = "data"
  <2> TAKE u \in Data0(p)..(Data0(p) + Cu(p) - 1)
  <2> DEFINE n == Len(w3.data)
  <2>1. u \in DOMAIN d
    BY <1>3, <1>6, <1>18
  <2>2. w3.whole = TRUE
    BY <1>10
  <2>3. u \in DOMAIN d2 /\ u \in Int /\ w3.u \in Nat /\ n \in Nat /\ u >= w3.u /\ u < w3.u + n
        /\ u - w3.u + 1 \in 1..Cu(p)
    <3> DEFINE a0 == Data0(p)
               k == Cu(p)
    <3>1. a0 \in Nat /\ k \in Nat /\ w3.u = a0 /\ n = k /\ u \in a0..(a0 + k - 1)
      BY <1>3, <1>6, <1>10, <1>11
    <3>2. u \in DOMAIN d2
      BY <1>16, <2>1
    <3> HIDE DEF a0, k, n, d2
    <3>3. u \in Int /\ w3.u \in Nat /\ n \in Nat /\ u >= w3.u /\ u < w3.u + n
          /\ u - w3.u + 1 \in 1..k
      BY ONLY <3>1
    <3> QED
      BY <3>2, <3>3 DEF k
  <2> HIDE DEF d2, n
  <2>4. WholeHit(d2, w3, n, u)
    BY ONLY <2>2, <2>3, HitWhole
  <2>5. d3[u] = Only("data", 0, u - w3.u + 1)
    BY <1>11, <2>3, <2>4 DEF WholeHit, n
  <2> HIDE DEF d3
  <2>6. d3[u].k = "data"
    BY <2>5 DEF Only
  <2> QED
    BY <1>16, <2>1, <2>6
<1> HIDE DEF d1, d2, d3
<1>26. FileAdded(p, d, d3)
  <2>1. d3[Cbm0(p)] = Mix([k |-> "bits", c |-> Cell(Allocated(p), TRUE)], d[Cbm0(p)])
    BY <1>14, <1>20, <1>21, <1>22, <1>23 DEF a
  <2>2. d3[Root0(p)] = Mix([k |-> "dir", c |-> Cell(3, FileEntry(p))], d[Root0(p)])
    BY <1>14, <1>19, <1>21, <1>22, <1>24
  <2>3. \A u \in DOMAIN d : u < Data0(p) /\ u # Cbm0(p) /\ u # Root0(p) => d3[u] = d[u]
    BY <1>19, <1>20, <1>21
  <2> QED
    BY <1>17, <1>25, <2>1, <2>2, <2>3 DEF FileAdded
<1> QED
  BY <1>2, <1>13, <1>26

\* What the file leaves alone: the super block, the FAT and the upcase table.
LEMMA FileKeeps ==
  ASSUME NEW p, IsParam(p), CheckSize(p), NEW d, OnVolume(p, d), Stage(p, Rt(p) + 37, d),
         NEW e, FileAdded(p, d, e)
  PROVE  /\ Super(e) = InitSb(p) /\ RootChain(e, InitSb(p)) = {Rt(p)}
         /\ \A j \in 1..12 : Uct0(p) + j - 1 \in DOMAIN e /\ e[Uct0(p) + j - 1] = Only("uct", 0, j)
<1> DEFINE i == Rt(p) + 37
           c == Cbm0(p)
           t == Root0(p)
           z == Data0(p)
<1>1. /\ Rt(p) \in Nat /\ c \in Nat /\ t \in Nat /\ Uct0(p) \in Nat /\ Cu(p) \in Nat /\ Cu(p) >= 1
      /\ CbmUnits(p) \in Nat /\ Units(p) \in Nat /\ c + CbmUnits(p) <= Uct0(p) /\ CbmUnits(p) >= 1
      /\ Uct0(p) + 12 <= t /\ t + Cu(p) <= Units(p) /\ z = t + Cu(p)
      /\ 128 * Su(p) + FatUnits(p) <= c /\ FatUnits(p) \in Nat /\ Su(p) \in {1, 2, 4, 8}
  BY Map DEF Data0
<1>2. i \in Nat /\ i >= 8 /\ i >= Rt(p) + 32 /\ i > Rt(p) + 33
  BY <1>1
<1>3. SuperStage(p, i, d) /\ FatStage(p, i, d) /\ UctStage(p, i, d)
  BY DEF Stage
<1>4. OnVolume(p, e) /\ DOMAIN d = 0..(Units(p) - 1) /\ DOMAIN e = DOMAIN d
  BY DEF FileAdded, OnVolume
<1>5. \A u \in DOMAIN d : u < z /\ u # c /\ u # t => e[u] = d[u]
  BY DEF FileAdded
<1> HIDE DEF i, c, t, z
<1>6. SuperStage(p, i, e)
  <2>1. 0 \in 0..(Units(p) - 1) /\ 0 < z /\ 0 # c /\ 0 # t
    BY <1>1
  <2>2. e[0] = d[0]
    BY <1>4, <1>5, <2>1
  <2> QED
    BY <1>3, <2>2 DEF SuperStage
<1>7. FatStage(p, i, e)
  <2>1. PICK x \in Nat : /\ x = 128 * Su(p) + Rt(p) \div FatCells /\ x \in DOMAIN d
                         /\ Ob0(p)[3] <= x /\ x < Ob0(p)[3] + ObUnits(p)[3]
    BY RootCellAt
  <2>2. Ob0(p)[3] = 128 * Su(p) /\ ObUnits(p)[3] = FatUnits(p)
    BY DEF Ob0, ObUnits
  <2>3. x < z /\ x # c /\ x # t
    <3>1. x < 128 * Su(p) + FatUnits(p)
      BY <2>1, <2>2
    <3> QED
      BY <1>1, <3>1
  <2>4. e[x] = d[x]
    BY <1>5, <2>1, <2>3
  <2>5. RootCellSame(p, d, e)
    BY <1>4, <2>1, <2>4, RootCellUnit
  <2> QED
    BY <1>3, <2>5 DEF FatStage, RootCellSame
<1>8. Super(e) = InitSb(p) /\ RootChain(e, InitSb(p)) = {Rt(p)}
  BY <1>2, <1>4, <1>6, <1>7, RootOf
<1>9. ASSUME NEW j \in 1..12
      PROVE  Uct0(p) + j - 1 \in DOMAIN e /\ e[Uct0(p) + j - 1] = Only("uct", 0, j)
  <2> DEFINE u == Uct0(p) + j - 1
  <2>1. u \in 0..(Units(p) - 1) /\ u < z /\ u # c /\ u # t
    BY <1>1
  <2>2. d[u] = Only("uct", 0, j)
    BY <1>2, <1>3 DEF UctStage
  <2> HIDE DEF u
  <2>3. u \in DOMAIN e /\ e[u] = Only("uct", 0, j)
    BY <1>4, <1>5, <2>1, <2>2
  <2> QED
    BY <2>3 DEF u
<1> QED
  BY <1>8, <1>9

\* The cells of two units of one kind, one over the other.
LEMMA MixSame ==
  ASSUME NEW k, NEW i, NEW v, NEW old, old.k = k
  PROVE  LET x == Mix([k |-> k, c |-> Cell(i, v)], old) IN
         /\ x.k = k /\ DOMAIN x.c = DOMAIN old.c \cup {i} /\ x.c[i] = v
         /\ \A j \in DOMAIN old.c : j # i => x.c[j] = old.c[j]
<1> DEFINE new == [k |-> k, c |-> Cell(i, v)]
           x == Mix(new, old)
           y == Over(new.c, old.c)
<1>1. new.k = k /\ new.c = Cell(i, v)
  OBVIOUS
<1>2. x = [new EXCEPT !.c = y]
  BY <1>1 DEF Mix
<1>3. x.k = k /\ x.c = y
  BY <1>2
<1>4. DOMAIN new.c = {i} /\ new.c[i] = v
  BY <1>1 DEF Cell
<1> HIDE DEF new, x
<1>5. DOMAIN y = DOMAIN old.c \cup {i} /\ y[i] = v /\ \A j \in DOMAIN old.c : j # i => y[j] = old.c[j]
  BY <1>4 DEF Over
<1> HIDE DEF y
<1>6. DOMAIN x.c = DOMAIN old.c \cup {i} /\ x.c[i] = v /\ \A j \in DOMAIN old.c : j # i => x.c[j] = old.c[j]
  BY <1>3, <1>5
<1> QED
  BY <1>3, <1>6 DEF x, new

\* The bitmap with the cluster of the file.
LEMMA FileBits ==
  ASSUME NEW p, IsParam(p), CheckSize(p), Allocated(p) < BitCells, NEW d, OnVolume(p, d),
         Stage(p, Rt(p) + 37, d), NEW e, FileAdded(p, d, e)
  PROVE  FirstBits(p, e, Allocated(p) + 1)
<1> DEFINE a == Allocated(p)
           c == Cbm0(p)
           m == CbmUnits(p)
           i == Rt(p) + 37
           x == e[c]
<1>1. /\ Rt(p) \in Nat /\ c \in Nat /\ Root0(p) \in Nat /\ Uct0(p) \in Nat /\ Cu(p) \in Nat
      /\ m \in Nat /\ m >= 1 /\ Units(p) \in Nat /\ c + m <= Uct0(p)
      /\ Uct0(p) + 12 <= Root0(p) /\ Root0(p) + Cu(p) <= Units(p) /\ Data0(p) = Root0(p) + Cu(p)
      /\ a \in Nat
  BY Map, AllocatedIs DEF Data0
<1>2. FirstBits(p, d, a)
  <2>1. i \in Nat /\ i > Rt(p) + 32 /\ CbmStage(p, i, d)
    BY <1>1 DEF Stage
  <2> HIDE DEF i
  <2> QED
    BY <2>1, NewBits
<1>3. d[c].k = "bits" /\ \A b \in 0..(BitCells - 1) : (b \in DOMAIN d[c].c /\ d[c].c[b]) <=> b < a
  <2>1. c \in c..(c + m - 1)
    BY <1>1
  <2> QED
    BY <1>2, <2>1 DEF FirstBits
<1>4. /\ x.k = "bits" /\ DOMAIN x.c = DOMAIN d[c].c \cup {a} /\ x.c[a] = TRUE
      /\ \A b \in DOMAIN d[c].c : b # a => x.c[b] = d[c].c[b]
  <2> DEFINE old == d[c]
             k == "bits"
             v == TRUE
  <2>1. x = Mix([k |-> k, c |-> Cell(a, v)], old) /\ old.k = k
    BY <1>3 DEF FileAdded
  <2> HIDE DEF old, k, v, x, a
  <2>2. /\ x.k = k /\ DOMAIN x.c = DOMAIN old.c \cup {a} /\ x.c[a] = v
        /\ \A b \in DOMAIN old.c : b # a => x.c[b] = old.c[b]
    BY <2>1, MixSame
  <2> QED
    BY <2>2 DEF old, k, v
<1> HIDE DEF x, a
<1>5. ASSUME NEW b \in 0..(BitCells - 1)
      PROVE  (b \in DOMAIN x.c /\ x.c[b]) <=> b < a + 1
  <2>0. b \in Int
    BY DEF BitCells
  <2>1. CASE b = a
    BY <1>1, <1>4, <2>1
  <2>2. CASE b # a
    <3>1. (b \in DOMAIN x.c /\ x.c[b]) <=> (b \in DOMAIN d[c].c /\ d[c].c[b])
      BY <1>4, <2>2
    <3>2. b < a <=> b < a + 1
      BY <1>1, <2>0, <2>2
    <3> QED
      BY <1>3, <3>1, <3>2
  <2> QED
    BY <2>1, <2>2
<1>6. ASSUME NEW u \in c..(c + m - 1), u # c PROVE e[u] = Zero
  <2>1. u \in 0..(Units(p) - 1) /\ u < Data0(p) /\ u # Root0(p)
    BY <1>1
  <2>2. e[u] = d[u]
    BY <1>6, <2>1 DEF FileAdded, OnVolume
  <2> QED
    BY <1>2, <1>6, <2>2 DEF FirstBits
<1> HIDE DEF c, m
<1>7. x = e[c]
  BY DEF x
<1> QED
  BY <1>4, <1>5, <1>6, <1>7 DEF FirstBits, c, m, a

\* The root directory with the file.
LEMMA FileListed ==
  ASSUME NEW p, IsParam(p), CheckSize(p), NEW d, OnVolume(p, d), Stage(p, Rt(p) + 37, d),
         NEW e, FileAdded(p, d, e)
  PROVE  EntriesIn(e, InitSb(p), {Rt(p)})
           = {LabelEntry(p), BitmapEntry(p), UpcaseEntry(p), FileEntry(p)}
<1> DEFINE sb == InitSb(p)
           r == Rt(p)
           i == r + 37
           c == Root0(p)
           m == Cu(p)
           x == e[c]
           g == [j \in 0..2 |-> RootEntry(p, j)]
           X == EntriesIn(e, sb, {r})
           E == {LabelEntry(p), BitmapEntry(p), UpcaseEntry(p), FileEntry(p)}
<1>1. /\ r \in Nat /\ c \in Nat /\ m \in Nat /\ m >= 1 /\ Units(p) \in Nat /\ c + m <= Units(p)
      /\ Data0(p) = c + m /\ Cbm0(p) \in Nat /\ CbmUnits(p) >= 1 /\ CbmUnits(p) \in Nat
      /\ Cbm0(p) + CbmUnits(p) <= Uct0(p) /\ Uct0(p) \in Nat /\ Uct0(p) + 12 <= c
  BY Map DEF Data0
<1>2. ClusterRange(sb, r) = c..(c + m - 1)
  <2>1. i \in Nat /\ i >= 8 /\ SuperStage(p, i, d) /\ FatStage(p, i, d)
    BY <1>1 DEF Stage
  <2> HIDE DEF i
  <2> QED
    BY <2>1, RootOf
<1>3. \A u \in c..(c + m - 1) : d[u] = IF u = c THEN [k |-> "dir", c |-> g] ELSE Zero
  <2>1. i >= 7 /\ i > r + 34 /\ i - r - 35 = 2 /\ RootStage(p, i, d)
    BY <1>1 DEF Stage
  <2>2. \A u : RootUnit(p, i, u) = IF u = c THEN [k |-> "dir", c |-> g] ELSE Zero
    BY <2>1 DEF RootUnit
  <2> HIDE DEF i, g
  <2> QED
    BY <2>1, <2>2 DEF RootStage
<1>4. DOMAIN e = 0..(Units(p) - 1) /\ DOMAIN d = DOMAIN e
  BY DEF FileAdded, OnVolume
<1>5. DOMAIN g = 0..2 /\ g[0] = LabelEntry(p) /\ g[1] = BitmapEntry(p) /\ g[2] = UpcaseEntry(p)
  BY DEF RootEntry
<1> HIDE DEF g
<1>6. /\ x.k = "dir" /\ DOMAIN x.c = 0..3 /\ x.c[0] = LabelEntry(p) /\ x.c[1] = BitmapEntry(p)
      /\ x.c[2] = UpcaseEntry(p) /\ x.c[3] = FileEntry(p)
  <2> DEFINE old == d[c]
             k == "dir"
             v == FileEntry(p)
             n == 3
  <2>1. old = [k |-> "dir", c |-> g]
    <3>1. c \in c..(c + m - 1)
      BY <1>1
    <3> QED
      BY <1>3, <3>1
  <2>2. x = Mix([k |-> k, c |-> Cell(n, v)], old) /\ old.k = k /\ old.c = g
    BY <2>1 DEF FileAdded
  <2> HIDE DEF old, k, v, n, x
  <2>3. /\ x.k = k /\ DOMAIN x.c = DOMAIN old.c \cup {n} /\ x.c[n] = v
        /\ \A b \in DOMAIN old.c : b # n => x.c[b] = old.c[b]
    BY <2>2, MixSame
  <2>4. 0 \in 0..2 /\ 1 \in 0..2 /\ 2 \in 0..2 /\ (0..2) \cup {3} = 0..3 /\ 0 # n /\ 1 # n /\ 2 # n
    BY DEF n
  <2>5. x.c[0] = g[0] /\ x.c[1] = g[1] /\ x.c[2] = g[2]
    BY <1>5, <2>2, <2>3, <2>4
  <2> QED
    BY <1>5, <2>2, <2>3, <2>4, <2>5 DEF k, n, v
<1> HIDE DEF x, sb, c, m, r
<1>7. \A u \in c..(c + m - 1) : u # c => e[u].k # "dir"
  <2> TAKE u \in c..(c + m - 1)
  <2> HAVE u # c
  <2>1. u \in 0..(Units(p) - 1) /\ u < Data0(p) /\ u # Cbm0(p)
    BY <1>1
  <2>2. e[u] = d[u]
    BY <1>4, <2>1 DEF FileAdded, c
  <2>3. d[u] = Zero
    BY <1>3
  <2> QED
    BY <2>2, <2>3 DEF Zero
<1>8. c \in DOMAIN e /\ c \in ClusterRange(sb, r) /\ x = e[c]
  <2>1. c \in 0..(Units(p) - 1) /\ c \in c..(c + m - 1)
    BY <1>1
  <2> QED
    BY <1>2, <1>4, <2>1 DEF x
<1>9. X = {x.c[j] : j \in DOMAIN x.c}
  <2> DEFINE W == {u \in DOMAIN e \cap UNION {ClusterRange(sb, y) : y \in {r}} : e[u].k = "dir"}
  <2>1. UNION {ClusterRange(sb, y) : y \in {r}} = ClusterRange(sb, r)
    OBVIOUS
  <2>2. W = {c}
    BY <1>2, <1>6, <1>7, <1>8, <2>1
  <2>3. X = UNION {{e[u].c[j] : j \in DOMAIN e[u].c} : u \in W}
    BY DEF EntriesIn
  <2> HIDE DEF W, X
  <2>4. X = {e[c].c[j] : j \in DOMAIN e[c].c}
    BY <2>2, <2>3
  <2> QED
    BY <1>8, <2>4
<1>10. 0..3 = {0, 1, 2, 3}
  OBVIOUS
<1>11. {x.c[j] : j \in DOMAIN x.c} = E
  <2> DEFINE f == x.c
  <2>1. DOMAIN f = {0, 1, 2, 3}
    BY <1>6, <1>10
  <2> HIDE DEF f
  <2>2. {f[j] : j \in DOMAIN f} = {f[0], f[1], f[2], f[3]}
    BY <2>1
  <2> QED
    BY <1>6, <2>2 DEF f
<1> QED
  BY <1>9, <1>11 DEF sb, r

\* The kinds of its entries.
LEMMA FileKinds ==
  ASSUME NEW p, NEW X, X = {LabelEntry(p), BitmapEntry(p), UpcaseEntry(p), FileEntry(p)}
  PROVE  /\ Of(X, "upcase") = {UpcaseEntry(p)} /\ Of(X, "bitmap") = {BitmapEntry(p)}
         /\ Of(X, "file") = {FileEntry(p)}
         /\ FileEntry(p).start_cluster = Rt(p) + 1 /\ FileEntry(p).size = p.cs
<1> DEFINE f == FileEntry(p)
           W == {LabelEntry(p), BitmapEntry(p), UpcaseEntry(p)}
<1>1. Of(W, "upcase") = {UpcaseEntry(p)} /\ Of(W, "bitmap") = {BitmapEntry(p)} /\ Of(W, "file") = {}
  BY NewKinds
<1>2. f.type = "file" /\ f.start_cluster = Rt(p) + 1 /\ f.size = p.cs
  BY DEF FileEntry
<1>3. X = W \cup {f}
  OBVIOUS
<1> HIDE DEF f, W
<1>4. Of(X, "upcase") = Of(W, "upcase") /\ Of(X, "bitmap") = Of(W, "bitmap")
      /\ Of(X, "file") = Of(W, "file") \cup {f}
  BY <1>2, <1>3 DEF Of
<1> QED
  BY <1>1, <1>2, <1>4 DEF f

\* What a volume with the file uses.
LEMMA FileOccupied ==
  ASSUME NEW p, IsParam(p), CheckSize(p), NEW d, OnVolume(p, d), Stage(p, Rt(p) + 37, d),
         NEW e, FileAdded(p, d, e)
  PROVE  Occupied(e) = 2..(Rt(p) + 1)
<1> DEFINE sb == InitSb(p)
           W == {LabelEntry(p), BitmapEntry(p), UpcaseEntry(p)}
           f == FileEntry(p)
           X == {LabelEntry(p), BitmapEntry(p), UpcaseEntry(p), FileEntry(p)}
           r == Rt(p)
           cs == p.cs
           span(x) == x.start_cluster..(x.start_cluster + DivRoundUp(x.size, cs) - 1)
           U(Y) == UNION {span(x) : x \in {x \in Y : x.size > 0}}
<1>1. Super(e) = sb /\ RootChain(e, sb) = {r} /\ EntriesIn(e, sb, {r}) = X
  BY FileKeeps, FileListed
<1>2. Super(d) = sb /\ RootChain(d, sb) = {r} /\ EntriesIn(d, sb, {r}) = W
  BY NewEntries
<1>3. ClusterUnits(sb) * UnitBytes = cs
  <2>1. ClusterUnits(sb) = Cu(p) /\ cs = 512 * Cu(p) /\ Cu(p) \in Nat
    BY TheSuper, ParamSizes
  <2> HIDE DEF sb, cs
  <2> QED
    BY <2>1 DEF UnitBytes
<1>4. Occupied(e) = {r} \cup U(X) /\ Occupied(d) = {r} \cup U(W)
  <2> HIDE DEF sb, cs, X, W, r
  <2> QED
    BY <1>1, <1>2, <1>3 DEF Occupied
<1>5. Occupied(d) = 2..r
  BY OccupiedIs
<1>6. f.start_cluster = r + 1 /\ f.size = cs
  BY DEF FileEntry
<1>7. X = W \cup {f}
  OBVIOUS
<1>8. cs \in Nat /\ cs >= 1 /\ r \in Nat /\ r >= 1
  <2>1. Rt(p) = Allocated(p) + 1 /\ Allocated(p) \in Nat
    BY AllocatedIs
  <2> QED
    BY <2>1, ParamSizes
<1>9. DivRoundUp(cs, cs) = 1
  <2> DEFINE q == 1
  <2>1. q \in Int /\ cs <= q * cs /\ q * cs < cs + cs
    BY <1>8
  <2> HIDE DEF q, cs
  <2>2. DivRoundUp(cs, cs) = q
    BY <1>8, <2>1, CeilIs
  <2> QED
    BY <2>2 DEF q
<1> HIDE DEF f, X, W, cs, r
<1>10. span(f) = {r + 1} /\ f.size > 0
  BY <1>6, <1>8, <1>9
<1>11. {x \in X : x.size > 0} = {x \in W : x.size > 0} \cup {f}
  BY <1>7, <1>10
<1> DEFINE B == {x \in W : x.size > 0}
<1> HIDE DEF span, B
<1>12. UNION {span(x) : x \in B \cup {f}} = (UNION {span(x) : x \in B}) \cup span(f)
  OBVIOUS
<1>13. U(X) = U(W) \cup {r + 1}
  BY <1>10, <1>11, <1>12 DEF B
<1> HIDE DEF U
<1>14. Occupied(e) = (2..r) \cup {r + 1}
  BY <1>4, <1>5, <1>13
<1>15. (2..r) \cup {r + 1} = 2..(r + 1)
  BY <1>8
<1> QED
  BY <1>14, <1>15 DEF r

\* A volume with a file holds together.
LEMMA FileHolds ==
  ASSUME NEW p, IsParam(p), HasRoom(p), Allocated(p) < BitCells, NEW d, OnVolume(p, d),
         Stage(p, Rt(p) + 37, d), NEW e, FileAdded(p, d, e)
  PROVE  HoldsTogether(e)
<1> DEFINE sb == InitSb(p)
           X == {LabelEntry(p), BitmapEntry(p), UpcaseEntry(p), FileEntry(p)}
           r == Rt(p)
<1>1. CheckSize(p) /\ sb.cluster_count > Allocated(p)
  BY DEF HasRoom
<1>2. Super(e) = sb /\ RootChain(e, sb) = {r} /\ EntriesIn(e, sb, {r}) = X
  BY <1>1, FileKeeps, FileListed
<1>3. Of(X, "bitmap") = {BitmapEntry(p)} /\ Of(X, "upcase") = {UpcaseEntry(p)}
      /\ Of(X, "file") = {FileEntry(p)} /\ FileEntry(p).start_cluster = r + 1
      /\ BitmapEntry(p).start_cluster = 2 /\ UpcaseEntry(p).start_cluster = Cb(p) + 2
  BY FileKinds, NewKinds
<1>4. Marked(e, sb, BitmapEntry(p)) = Occupied(e)
  <2> DEFINE x == BitmapEntry(p)
             a == Allocated(p) + 1
  <2>1. x.start_cluster = 2
    BY <1>3
  <2>2. a \in Nat /\ a <= BitCells /\ a <= sb.cluster_count /\ r = a
    <3>1. Allocated(p) \in Nat /\ BitCells \in Nat /\ sb.cluster_count \in Nat /\ r = Allocated(p) + 1
      BY <1>1, AllocatedIs, TheSuper, Objects DEF BitCells
    <3> HIDE DEF sb, r
    <3> QED
      BY <1>1, <3>1
  <2>3. FirstBits(p, e, a) /\ OnVolume(p, e)
    BY <1>1, FileBits DEF FileAdded
  <2> HIDE DEF x, a
  <2>4. Marked(e, sb, x) = 2..(a + 1)
    BY <1>1, <2>1, <2>2, <2>3, MarkedBy
  <2>5. Occupied(e) = 2..(r + 1)
    BY <1>1, FileOccupied
  <2> QED
    BY <2>2, <2>4, <2>5 DEF x
<1>5. ASSUME NEW j \in DOMAIN UctUnits
      PROVE  LET u == ClusterUnit(sb, UpcaseEntry(p).start_cluster) + j - 1 IN
             u \in DOMAIN e /\ e[u].k = "uct" /\ e[u].c[0] = j
  <2> DEFINE u == Uct0(p) + j - 1
  <2>1. ClusterUnit(sb, UpcaseEntry(p).start_cluster) = Uct0(p)
    <3>1. Cb(p) \in Int /\ Ca(p) \in Int
      BY <1>1, Objects, CbmPosIs
    <3>2. ClusterUnit(sb, Cb(p) + 2) = (Ca(p) + (Cb(p) + 2) - 2) * Cu(p)
      BY <1>1, <3>1, TheSuper
    <3>3. Ca(p) + (Cb(p) + 2) - 2 = Ca(p) + Cb(p)
      BY <3>1
    <3> QED
      BY <1>3, <3>2, <3>3 DEF Uct0
  <2>2. j \in 1..12
    <3>1. DivRoundUp(UctSize, UnitBytes) = 12
      BY <1>1, Starts
    <3> QED
      BY <3>1 DEF UctUnits
  <2>3. u \in DOMAIN e /\ e[u] = Only("uct", 0, j)
    BY <1>1, <2>2, FileKeeps
  <2> HIDE DEF u
  <2>4. e[u].k = "uct" /\ e[u].c[0] = j
    BY <2>3 DEF Only, Cell
  <2> QED
    BY <2>1, <2>3, <2>4 DEF u
<1>6. \A u \in ClusterRange(sb, r + 1) : u \in DOMAIN e /\ e[u].k = "data"
  <2>1. ClusterUnit(sb, r + 1) = Data0(p) /\ ClusterUnits(sb) = Cu(p)
    BY <1>1, FileCluster, TheSuper
  <2>2. ClusterRange(sb, r + 1) = Data0(p)..(Data0(p) + Cu(p) - 1)
    BY <2>1 DEF ClusterRange
  <2> QED
    BY <2>2 DEF FileAdded
<1> DEFINE tb == Super(e)
           Y == EntriesIn(e, tb, RootChain(e, tb))
<1> HIDE DEF X, sb, r
<1>7. tb = sb /\ Y = X
  BY <1>2
<1> HIDE DEF tb, Y
<1>8. \A y \in Of(Y, "bitmap") : Marked(e, tb, y) = Occupied(e)
  BY <1>3, <1>4, <1>7
<1>9. \A y \in Of(Y, "upcase") : \A j \in DOMAIN UctUnits :
           LET u == ClusterUnit(tb, y.start_cluster) + j - 1 IN
           u \in DOMAIN e /\ e[u].k = "uct" /\ e[u].c[0] = j
  BY <1>3, <1>5, <1>7
<1>10. \A y \in Of(Y, "file") : \A u \in ClusterRange(tb, y.start_cluster) :
           u \in DOMAIN e /\ e[u].k = "data"
  BY <1>3, <1>6, <1>7
<1> QED
  BY <1>8, <1>9, <1>10 DEF HoldsTogether, tb, Y

-----------------------------------------------------------------------------
(* The states of a device *)

\* A device that mounts only what holds together, even with repair.
SoundDisk(d) == (\E size \in Sizes : DOMAIN d = 0..(size - 1)) /\ Device(d) /\ Good(d)

\* The format of a device, which has got to its i-th write.
ParamOf(j, d) == Param(j, Volume(d))

Formatting(d, j, i) ==
  /\ j \in Jobs /\ Formats(ParamOf(j, d), d)
  /\ i \in 1..(Rt(ParamOf(j, d)) + 37) /\ Stage(ParamOf(j, d), i, d)

\* What was on the device holds together: nothing, or a volume with a file.
LEMMA OldSound ==
  ASSUME NEW size \in Sizes, NEW o \in Old, o # NoJob => HasRoom(Param(o, size))
  PROVE  SoundDisk(OldDisk(size, o))
<1> DEFINE blank == [u \in 0..(size - 1) |-> Junk]
           p == Param(o, size)
<1>1. size \in Nat /\ size > 0
  BY MkfsAssumption
<1>2. Device(blank) /\ DOMAIN blank = 0..(size - 1) /\ blank[0].k # "sb"
  <2>1. DOMAIN blank = 0..(size - 1) /\ \A u \in 0..(size - 1) : blank[u] = Junk
    OBVIOUS
  <2>2. blank = [u \in DOMAIN blank |-> blank[u]]
    OBVIOUS
  <2>3. UnitTyped(Junk) /\ Junk.k # "sb"
    BY DEF UnitTyped, Junk
  <2>4. 0 \in 0..(size - 1)
    BY <1>1
  <2> HIDE DEF blank
  <2>5. CellsTyped(blank)
    BY <2>1, <2>3 DEF CellsTyped
  <2>6. blank[0].k # "sb"
    BY <2>1, <2>3, <2>4
  <2> QED
    BY <1>1, <2>1, <2>2, <2>5, <2>6 DEF Device
<1> HIDE DEF blank, p
<1>3. CASE o = NoJob
  <2>1. OldDisk(size, o) = blank
    BY <1>3 DEF OldDisk, blank
  <2>2. Good(blank)
    BY <1>2 DEF Good, Mounts, SuperAccepted
  <2> QED
    BY <1>2, <2>1, <2>2 DEF SoundDisk
<1>4. CASE o # NoJob
  <2>1. OldDisk(size, o) = WithFile(Made(blank, p), p)
    BY <1>4 DEF OldDisk, blank, p
  <2>2. HasRoom(p) /\ CheckSize(p)
    BY <1>4 DEF HasRoom, p
  <2>3. IsParam(p) /\ Units(p) = size
    <3>1. o.sector_bits \in 9..12 /\ o.spc_bits \in -1..21
      BY <1>4, MkfsAssumption
    <3> QED
      BY <1>1, <3>1, ParamIs DEF p
  <2>4. Allocated(p) < BitCells
    <3>1. CheckSize(Param(o, size)) => Allocated(Param(o, size)) < BitCells
      BY <1>4, MkfsAssumption
    <3> QED
      BY <2>2, <3>1 DEF p
  <2>5. Allocated(p) <= BitCells
    BY <2>2, <2>3, <2>4, AllocatedIs DEF BitCells
  <2> DEFINE d == Made(blank, p)
             e == WithFile(d, p)
  <2>6. Formats(p, blank)
    BY <1>2, <2>2, <2>3, <2>5 DEF Formats, OnVolume
  <2>7. Formats(p, d) /\ Stage(p, Rt(p) + 37, d)
    BY <2>6, MadeIs
  <2> HIDE DEF d
  <2>8. OnVolume(p, d)
    BY <2>7 DEF Formats
  <2>9. FileAdded(p, d, e)
    BY <2>2, <2>3, <2>8, WithFileIs
  <2> HIDE DEF e
  <2>10. HoldsTogether(e)
    BY <2>2, <2>3, <2>4, <2>7, <2>8, <2>9, FileHolds
  <2>11. Device(e) /\ DOMAIN e = 0..(size - 1)
    BY <2>3, <2>9 DEF FileAdded, OnVolume
  <2>12. SoundDisk(e)
    BY <2>10, <2>11 DEF SoundDisk, Good
  <2> QED
    BY <2>1, <2>12 DEF e, d
<1> QED
  BY <1>3, <1>4

\* A format that starts.
LEMMA StartsAt ==
  ASSUME NEW d, SoundDisk(d), NEW j \in Jobs, j.sector_bits \in 9..12, CheckSize(ParamOf(j, d))
  PROVE  Formatting(d, j, 1)
<1> DEFINE p == ParamOf(j, d)
<1>1. PICK size \in Sizes : DOMAIN d = 0..(size - 1)
  BY DEF SoundDisk
<1>2. size \in Nat /\ Volume(d) = size
  <2>1. size \in Nat
    BY MkfsAssumption
  <2> QED
    BY <1>1, <2>1, VolumeIs DEF Volume
<1>3. p = Param(j, size)
  BY <1>2 DEF ParamOf
<1>4. j.spc_bits \in -1..21 /\ (CheckSize(Param(j, size)) => Allocated(Param(j, size)) < BitCells)
  BY MkfsAssumption
<1>5. IsParam(p) /\ Units(p) = size
  BY <1>2, <1>3, <1>4, ParamIs
<1>6. CheckSize(p)
  OBVIOUS
<1> HIDE DEF p
<1>7. Allocated(p) <= BitCells
  <2>1. Allocated(p) \in Nat /\ Allocated(p) < BitCells
    BY <1>3, <1>4, <1>5, <1>6, AllocatedIs
  <2> QED
    BY <2>1 DEF BitCells
<1>8. Formats(p, d)
  BY <1>1, <1>5, <1>6, <1>7 DEF Formats, OnVolume, SoundDisk
<1>9. Stage(p, 1, d) /\ 1 \in 1..(Rt(p) + 37)
  BY <1>5, <1>6, FirstStage, Map
<1> QED
  BY <1>8, <1>9 DEF Formatting, p

\* Its program.
LEMMA ProgramIs ==
  ASSUME NEW d, SoundDisk(d), NEW j, NEW i, Formatting(d, j, i)
  PROVE  LET p == ParamOf(j, d) IN
         /\ Program[j][Volume(d)] = Writes(p) /\ Len(Writes(p)) = Rt(p) + 36 /\ Rt(p) \in Nat
         /\ i \in Nat /\ i >= 1
<1> DEFINE p == ParamOf(j, d)
<1>1. PICK size \in Sizes : DOMAIN d = 0..(size - 1)
  BY DEF SoundDisk
<1>2. Volume(d) = size
  <2>1. size \in Nat
    BY MkfsAssumption
  <2> QED
    BY <1>1, <2>1, VolumeIs DEF Volume
<1>3. Program[j][size] = Writes(Param(j, size))
  BY DEF Program, Formatting
<1>4. IsParam(p) /\ CheckSize(p)
  BY DEF Formatting, Formats
<1>5. Len(Writes(p)) = Rt(p) + 36 /\ Rt(p) \in Nat
  BY <1>4, WritesAre
<1>6. i \in Nat /\ i >= 1
  BY <1>5 DEF Formatting
<1> QED
  BY <1>2, <1>3, <1>5, <1>6 DEF ParamOf

\* A write of a format.
LEMMA WriteKeeps ==
  ASSUME NEW d, SoundDisk(d), NEW j, NEW i, Formatting(d, j, i),
         i <= Len(Program[j][Volume(d)]), NEW w, w = Program[j][Volume(d)][i]
  PROVE  /\ LET e == Apply(d, w, Len(w.data)) IN SoundDisk(e) /\ Formatting(e, j, i + 1)
         /\ \A n \in Nat : n < Len(w.data) => SoundDisk(Apply(d, w, n))
<1> DEFINE p == ParamOf(j, d)
           e == Apply(d, w, Len(w.data))
<1>1. w = Writes(p)[i] /\ Rt(p) \in Nat /\ i \in 1..(Rt(p) + 36)
  <2>1. /\ Program[j][Volume(d)] = Writes(p) /\ Len(Writes(p)) = Rt(p) + 36 /\ Rt(p) \in Nat
        /\ i \in Nat /\ i >= 1
    BY ProgramIs
  <2> QED
    BY <2>1
<1>2. /\ IsParam(p) /\ CheckSize(p) /\ OnVolume(p, d) /\ Formats(p, d) /\ Stage(p, i, d)
      /\ Allocated(p) <= BitCells /\ j \in Jobs
  BY DEF Formatting, Formats
<1>3. \A x : OnVolume(p, x) => DOMAIN x = DOMAIN d /\ Volume(x) = Volume(d) /\ ParamOf(j, x) = p
  BY <1>2 DEF OnVolume, Volume, ParamOf
<1>4. \A x : OnVolume(p, x) /\ Good(x) => SoundDisk(x)
  BY <1>2, <1>3 DEF SoundDisk, OnVolume
<1> HIDE DEF p
<1>5. ASSUME NEW n \in Nat, n < Len(w.data) PROVE SoundDisk(Apply(d, w, n))
  <2>1. Good(d)
    BY DEF SoundDisk
  <2>2. Good(Apply(d, w, n)) /\ OnVolume(p, Apply(d, w, n))
    BY <1>1, <1>2, <1>5, <2>1, TornGood
  <2> QED
    BY <1>4, <2>2
<1>6. OnVolume(p, e)
  <2> DEFINE n == Len(w.data)
  <2>1. n \in 0..Len(w.data)
    <3>1. Len(w.data) \in Nat
      BY <1>1, <1>2, WriteNamed
    <3> QED
      BY <3>1
  <2> HIDE DEF n
  <2>2. OnVolume(p, Apply(d, w, n))
    BY <1>1, <1>2, <2>1, StillVolume
  <2> QED
    BY <2>2 DEF n
<1>7. Stage(p, i + 1, e)
  BY <1>1, <1>2, StageStep
<1> HIDE DEF e
<1>8. Formats(p, e) /\ ParamOf(j, e) = p
  BY <1>2, <1>3, <1>6 DEF Formats
<1>9. i + 1 \in 2..(Rt(p) + 37) /\ i + 1 \in 1..(Rt(p) + 37)
  BY <1>1
<1>10. Good(e)
  <2> DEFINE k == i + 1
  <2>1. k \in 2..(Rt(p) + 37) /\ Stage(p, k, e)
    BY <1>7, <1>9
  <2> HIDE DEF k
  <2> QED
    BY <1>8, <2>1, StageGood
<1>11. SoundDisk(e) /\ Formatting(e, j, i + 1)
  BY <1>2, <1>4, <1>6, <1>7, <1>8, <1>9, <1>10 DEF Formatting
<1> QED
  BY <1>5, <1>11 DEF e

\* What a mount and an unmount do to a device.
LEMMA TouchedSound ==
  ASSUME NEW d, SoundDisk(d), NEW e, Touched(d, e)
  PROVE  SoundDisk(e)
<1>1. DOMAIN e = DOMAIN d /\ Device(e) /\ SameVolume(d, e) /\ Device(d) /\ Good(d)
  BY DEF Touched, SameVolume, SoundDisk
<1>2. Good(e)
  BY <1>1, GoodSame
<1> QED
  BY <1>1, <1>2 DEF SoundDisk

\* The repair of the boot checksum.
LEMMA RepairSound ==
  ASSUME NEW d, SoundDisk(d)
  PROVE  SoundDisk(Repaired(d, TRUE)) /\ (d[0].k = "sb" => Repaired(d, TRUE)[0].k = "sb")
<1> DEFINE e == Repaired(d, TRUE)
<1>1. /\ Device(e) /\ DOMAIN e = DOMAIN d /\ (Good(d) => Good(e))
      /\ d[0].k = "sb" => e[0].k = "sb"
  BY RepairedIs DEF SoundDisk
<1> HIDE DEF e
<1>2. SoundDisk(e)
  BY <1>1 DEF SoundDisk
<1> QED
  BY <1>1, <1>2 DEF e

-----------------------------------------------------------------------------
(* The invariant *)

\* The device is sound; while it is being formatted, it is at the stage of
\* the next write; while it is mounted, it has a super block.
MkfsInv ==
  /\ SoundDisk(disk)
  /\ phase \in {"idle", "format", "mounted", "ok"}
  /\ phase = "format" => Formatting(disk, job, pc)
  /\ phase = "mounted" => disk[0].k = "sb"

\* The devices that mkexfatfs starts with are sound.
LEMMA MkfsInvInit == MkfsInit => MkfsInv
<1> SUFFICES ASSUME MkfsInit PROVE MkfsInv
  OBVIOUS
<1>1. PICK size \in Sizes, o \in Old :
        (o # NoJob => HasRoom(Param(o, size))) /\ disk = OldDisk(size, o)
  BY DEF MkfsInit
<1>2. SoundDisk(disk)
  BY <1>1, OldSound
<1>3. phase = "idle"
  BY DEF MkfsInit
<1> QED
  BY <1>2, <1>3 DEF MkfsInv

\* A device that mounts has a super block.
LEMMA MountsSuper ==
  ASSUME NEW d, NEW repair, Mounts(d, repair)
  PROVE  d[0].k = "sb"
  BY DEF Mounts, SuperAccepted

\* What Start() asks for.
LEMMA StartKeeps ==
  ASSUME MkfsInv, NEW j \in Jobs, NEW refused, Start(j, refused),
         refused \/ j.sector_bits \in 9..12
  PROVE  MkfsInv'
<1>1. disk' = disk /\ job' = j /\ pc' = 1
  BY DEF Start
<1>2. phase' = IF refused \/ ~CheckSize(ParamOf(j, disk)) THEN "idle" ELSE "format"
  BY DEF Start, ParamOf
<1>3. SoundDisk(disk')
  BY <1>1 DEF MkfsInv
<1>4. CASE refused \/ ~CheckSize(ParamOf(j, disk))
  <2>1. phase' = "idle"
    BY <1>2, <1>4
  <2> QED
    BY <1>3, <2>1 DEF MkfsInv
<1>5. CASE ~(refused \/ ~CheckSize(ParamOf(j, disk)))
  <2>1. phase' = "format"
    BY <1>2, <1>5
  <2>2. Formatting(disk, j, 1)
    BY <1>5, StartsAt DEF MkfsInv
  <2>3. Formatting(disk', job', pc')
    BY <1>1, <2>2
  <2> QED
    BY <1>3, <2>1, <2>3 DEF MkfsInv
<1> QED
  BY <1>4, <1>5

\* Every step keeps the invariant.
LEMMA MkfsInvNext == MkfsInv /\ [MkfsNext]_mkfs_vars => MkfsInv'
<1> SUFFICES ASSUME MkfsInv, [MkfsNext]_mkfs_vars PROVE MkfsInv'
  OBVIOUS
<1>0. SoundDisk(disk) /\ Device(disk)
  BY DEF MkfsInv, SoundDisk
<1>1. ASSUME NEW j \in Jobs, Setup(j) PROVE MkfsInv'
  <2>1. PICK refused : Start(j, refused)
    BY <1>1 DEF Setup
  <2>2. j.sector_bits \in 9..12
    <3>1. j.sector_bits = 9
      BY <1>1, MkfsAssumption DEF Setup
    <3> QED
      BY <3>1
  <2> QED
    BY <2>1, <2>2, StartKeeps
<1>2. ASSUME NEW j \in Jobs, AmigaFormat(j) PROVE MkfsInv'
  <2> DEFINE refused == j.sector_bits \notin 9..12
  <2>1. Start(j, refused) /\ (refused \/ j.sector_bits \in 9..12)
    BY <1>2 DEF AmigaFormat
  <2> HIDE DEF refused
  <2> QED
    BY <2>1, StartKeeps
<1>3. CASE Write
  <2> DEFINE w == Now
             e == Apply(disk, w, Len(w.data))
  <2>1. phase = "format" /\ pc <= Len(Program[job][Volume(disk)]) /\ disk' = e /\ pc' = pc + 1
        /\ job' = job /\ phase' = phase /\ w = Program[job][Volume(disk)][pc]
    BY <1>3 DEF Write, Now
  <2>2. Formatting(disk, job, pc)
    BY <2>1 DEF MkfsInv
  <2> HIDE DEF w
  <2>3. SoundDisk(e) /\ Formatting(e, job, pc + 1)
    BY <1>0, <2>1, <2>2, WriteKeeps
  <2> HIDE DEF e
  <2>4. SoundDisk(disk') /\ Formatting(disk', job', pc')
    BY <2>1, <2>3
  <2> QED
    BY <2>1, <2>4 DEF MkfsInv
<1>4. ASSUME NEW n \in 0..MaxTorn, Interrupt(n) PROVE MkfsInv'
  <2> DEFINE w == Now
             e == Apply(disk, w, n)
  <2>1. phase = "format" /\ pc <= Len(Program[job][Volume(disk)]) /\ disk' = e
        /\ phase' = "idle" /\ w = Program[job][Volume(disk)][pc] /\ n < Len(w.data)
    BY <1>4 DEF Interrupt, Now
  <2>2. Formatting(disk, job, pc)
    BY <2>1 DEF MkfsInv
  <2>3. n \in Nat
    BY MkfsAssumption
  <2> HIDE DEF w
  <2>4. SoundDisk(e)
    BY <1>0, <2>1, <2>2, <2>3, WriteKeeps
  <2> HIDE DEF e
  <2>5. SoundDisk(disk')
    BY <2>1, <2>4
  <2> QED
    BY <2>1, <2>5 DEF MkfsInv
<1>5. CASE Sync
  <2>1. disk' = disk /\ phase' \in {"ok", "idle"}
    BY <1>5 DEF Sync
  <2> QED
    BY <1>0, <2>1 DEF MkfsInv
<1>6. CASE MountRepair
  <2> DEFINE e == Repaired(disk, TRUE)
  <2>1. SoundDisk(e) /\ (disk[0].k = "sb" => e[0].k = "sb")
    BY <1>0, RepairSound
  <2>2. phase \in {"ok", "idle"}
    BY <1>6 DEF MountRepair, Rest
  <2>3. CASE disk' = e /\ phase' = phase
    <3> HIDE DEF e
    <3>1. SoundDisk(disk')
      BY <2>1, <2>3
    <3> QED
      BY <2>2, <2>3, <3>1 DEF MkfsInv
  <2>4. CASE Mounts(disk, TRUE) /\ disk' \in {e, Soiled(e)} /\ phase' = "mounted"
    <3> DEFINE s == Soiled(e)
    <3>1. e[0].k = "sb"
      BY <2>1, <2>4, MountsSuper
    <3>2. Device(e)
      BY <2>1 DEF SoundDisk
    <3> HIDE DEF e
    <3>3. Touched(e, s)
      BY <3>1, <3>2, SoiledTouched
    <3>4. s[0].k = "sb"
      BY <3>3 DEF Touched
    <3> HIDE DEF s
    <3>5. SoundDisk(s)
      BY <2>1, <3>3, TouchedSound
    <3>6. SoundDisk(disk') /\ disk'[0].k = "sb"
      BY <2>1, <2>4, <3>1, <3>4, <3>5 DEF s
    <3> QED
      BY <2>4, <3>6 DEF MkfsInv
  <2> HIDE DEF e
  <2>5. \/ disk' = e /\ phase' = phase
        \/ Mounts(disk, TRUE) /\ disk' \in {e, Soiled(e)} /\ phase' = "mounted"
    BY <1>6 DEF MountRepair, e
  <2> QED
    BY <2>3, <2>4, <2>5
<1>7. CASE MountPlain
  <2> DEFINE s == Soiled(disk)
  <2>1. Mounts(disk, FALSE) /\ disk' \in {disk, s} /\ phase' = "mounted"
    BY <1>7 DEF MountPlain
  <2>2. disk[0].k = "sb"
    BY <2>1, MountsSuper
  <2>3. Touched(disk, s)
    BY <1>0, <2>2, SoiledTouched
  <2>4. s[0].k = "sb"
    BY <2>3 DEF Touched
  <2> HIDE DEF s
  <2>5. SoundDisk(s)
    BY <1>0, <2>3, TouchedSound
  <2>6. SoundDisk(disk') /\ disk'[0].k = "sb"
    BY <1>0, <2>1, <2>2, <2>4, <2>5
  <2> QED
    BY <2>1, <2>6 DEF MkfsInv
<1>8. CASE Unmount
  <2> DEFINE s == Finalized(disk)
  <2>1. disk' \in {disk, s} /\ phase' = "idle" /\ disk[0].k = "sb"
    BY <1>8 DEF Unmount, MkfsInv
  <2>2. Touched(disk, s)
    BY <1>0, <2>1, FinalizedTouched
  <2> HIDE DEF s
  <2>3. SoundDisk(s)
    BY <1>0, <2>2, TouchedSound
  <2>4. SoundDisk(disk')
    BY <1>0, <2>1, <2>3
  <2> QED
    BY <2>1, <2>4 DEF MkfsInv
<1>9. CASE UNCHANGED mkfs_vars
  <2>1. disk' = disk /\ job' = job /\ pc' = pc /\ phase' = phase
    BY <1>9 DEF mkfs_vars
  <2> QED
    BY <2>1 DEF MkfsInv
<1> QED
  BY <1>1, <1>2, <1>3, <1>4, <1>5, <1>6, <1>7, <1>8, <1>9 DEF MkfsNext

\* Wherever a format stops - erase_object(), vbr_write(), fat_write(),
\* cbm_write(), uct_write() or rootdir_write(), between two writes or in the
\* middle of one - what exfat_mount() then accepts, also after exfatfsck has
\* put the boot checksum right, is a volume that holds together.
THEOREM NeverHalfAVolume == MkfsSpec => []NoHalfVolume
<1>1. MkfsInv => NoHalfVolume
  <2> SUFFICES ASSUME MkfsInv, NEW repair \in BOOLEAN, Mounts(disk, repair)
               PROVE  HoldsTogether(disk)
    BY DEF NoHalfVolume
  <2>1. Good(disk)
    BY DEF MkfsInv, SoundDisk
  <2>2. Mounts(disk, TRUE)
    BY DEF Mounts
  <2> QED
    BY <2>1, <2>2 DEF Good
<1> QED
  BY <1>1, MkfsInvInit, MkfsInvNext, PTL DEF MkfsSpec

\* A volume that exfat_mount() accepts is accepted ever after, as long as
\* nobody formats: exfat_soil_super_block(), finalize_super_block() and
\* exfat_fix_invalid_vbr_checksum() do not invalidate the boot checksum.
THEOREM MountableStays == MkfsSpec => StaysMountable
<1> DEFINE A == phase # "format" /\ Mounts(disk, FALSE) => Mounts(disk, FALSE)'
<1>1. MkfsInv /\ [MkfsNext]_mkfs_vars => [A]_mkfs_vars
  <2> SUFFICES ASSUME MkfsInv, MkfsNext, phase # "format", Mounts(disk, FALSE)
               PROVE  Mounts(disk', FALSE)
    OBVIOUS
  <2>0. Device(disk) /\ disk[0].k = "sb" /\ Mounts(disk, TRUE)
    <3>1. Mounts(disk, TRUE)
      BY DEF Mounts
    <3> QED
      BY <3>1, MountsSuper DEF MkfsInv, SoundDisk
  <2>1. disk' \in {disk, Soiled(disk), Finalized(disk)}
    <3>1. Repaired(disk, TRUE) = disk
      BY <2>0, RepairedIs
    <3>2. ASSUME NEW j \in Jobs, Setup(j) \/ AmigaFormat(j) PROVE disk' = disk
      BY <3>2 DEF Setup, AmigaFormat, Start
    <3>3. CASE MountRepair
      BY <2>0, <3>1, <3>3 DEF MountRepair
    <3>4. CASE MountPlain
      BY <3>4 DEF MountPlain
    <3>5. CASE Unmount
      BY <3>5 DEF Unmount
    <3> QED
      BY <3>2, <3>3, <3>4, <3>5 DEF MkfsNext, Write, Interrupt, Sync
  <2>2. Mounts(Soiled(disk), FALSE) /\ Mounts(Finalized(disk), FALSE)
    BY <2>0, SoiledTouched, FinalizedTouched DEF Touched
  <2> QED
    BY <2>1, <2>2
<1> QED
  BY <1>1, MkfsInvInit, MkfsInvNext, PTL DEF MkfsSpec, StaysMountable

\* Formats of sectors of 512 bytes and of clusters that exfat_mount() accepts
\* (mount.c: sectors and clusters together at most 25 bits; mkexfatfs.8 names
\* the same limit of 32 MB).
SmallSectors == \A j \in Jobs : j.sector_bits = 9 /\ j.spc_bits <= 16

\* A format that has come to its end.
Complete(d, j) == Formatting(d, j, Rt(ParamOf(j, d)) + 37)

\* What a complete format of this kind leaves.
LEMMA CompleteMounts ==
  ASSUME SmallSectors, NEW d, SoundDisk(d), NEW j, Complete(d, j)
  PROVE  /\ Mounts(d, FALSE) /\ Super(d).serial = j.serial
         /\ LET entries == EntriesIn(d, Super(d), RootChain(d, Super(d))) IN
              /\ Of(entries, "file") = {}
              /\ {e.label : e \in Of(entries, "label")} = {Label(j)} \ {""}
<1> DEFINE p == ParamOf(j, d)
<1>1. /\ j \in Jobs /\ IsParam(p) /\ CheckSize(p) /\ OnVolume(p, d) /\ Stage(p, Rt(p) + 37, d)
  BY DEF Complete, Formatting, Formats
<1>2. PICK size \in Sizes : DOMAIN d = 0..(size - 1)
  BY DEF SoundDisk
<1>3. size \in Nat /\ Volume(d) = size
  <2>1. size \in Nat
    BY MkfsAssumption
  <2> QED
    BY <1>2, <2>1, VolumeIs DEF Volume
<1>4. p.job = j /\ p.spc_bits <= 16 /\ p.job.sector_bits = 9
  <2>1. j.spc_bits \in -1..21
    BY <1>1, MkfsAssumption
  <2>2. j.sector_bits = 9 /\ j.spc_bits <= 16 /\ 9 \in 9..12
    BY <1>1 DEF SmallSectors
  <2>3. Param(j, size).job = j /\ Param(j, size).spc_bits = SpcBits(j, size) /\ SpcBits(j, size) <= 16
    BY <1>3, <2>1, <2>2, ParamIs
  <2> QED
    BY <1>3, <2>2, <2>3 DEF ParamOf
<1> HIDE DEF p
<1>5. Mounts(d, FALSE)
  BY <1>1, <1>4, NewMounts
<1> DEFINE sb == InitSb(p)
           a == LabelEntry(p)
           X == {a, BitmapEntry(p), UpcaseEntry(p)}
<1>6. Super(d) = sb /\ RootChain(d, sb) = {Rt(p)} /\ EntriesIn(d, sb, {Rt(p)}) = X
  BY <1>1, NewEntries
<1>7. sb.serial = j.serial
  BY <1>4 DEF InitSb
<1>8. Of(X, "file") = {} /\ Of(X, "label") = (IF Label(j) = "" THEN {} ELSE {a}) /\ a.label = Label(j)
  BY <1>4, NewKinds
<1> HIDE DEF sb, a, X
<1>9. {e.label : e \in Of(X, "label")} = {Label(j)} \ {""}
  <2>1. CASE Label(j) = ""
    BY <1>8, <2>1
  <2>2. CASE Label(j) # ""
    <3>1. Of(X, "label") = {a}
      BY <1>8, <2>2
    <3>2. {e.label : e \in {a}} = {a.label}
      OBVIOUS
    <3> QED
      BY <1>8, <2>2, <3>1, <3>2
  <2> QED
    BY <2>1, <2>2
<1> DEFINE tb == Super(d)
           Y == EntriesIn(d, tb, RootChain(d, tb))
<1>10. tb = sb /\ Y = X
  BY <1>6
<1> HIDE DEF tb, Y
<1>11. tb.serial = j.serial /\ Of(Y, "file") = {} /\ {e.label : e \in Of(Y, "label")} = {Label(j)} \ {""}
  BY <1>7, <1>8, <1>9, <1>10
<1> QED
  BY <1>5, <1>11 DEF tb, Y

\* A format that has returned 0 is complete.
CompleteInv == MkfsInv /\ (phase = "ok" => Complete(disk, job))

\* The format returns 0 after its last write, and the volume is then complete.
LEMMA CompleteInvNext ==
  ASSUME SmallSectors
  PROVE  CompleteInv /\ [MkfsNext]_mkfs_vars => CompleteInv'
<1> SUFFICES ASSUME CompleteInv, [MkfsNext]_mkfs_vars, phase' = "ok"
             PROVE  Complete(disk', job')
  BY MkfsInvNext DEF CompleteInv
<1>0. MkfsInv /\ SoundDisk(disk)
  BY DEF CompleteInv, MkfsInv
<1>1. CASE Sync
  <2> DEFINE p == ParamOf(job, disk)
             n == Len(Program[job][Volume(disk)])
  <2>1. phase = "format" /\ pc > n /\ disk' = disk /\ job' = job
    BY <1>1 DEF Sync
  <2>2. Formatting(disk, job, pc)
    BY <1>0, <2>1 DEF MkfsInv
  <2>3. n = Rt(p) + 36 /\ Rt(p) \in Nat /\ pc \in Nat
    BY <1>0, <2>2, ProgramIs
  <2>4. pc \in 1..(Rt(p) + 37)
    BY <2>2 DEF Formatting
  <2> HIDE DEF n, p
  <2>5. pc = Rt(p) + 37
    BY <2>1, <2>3, <2>4
  <2> QED
    BY <2>1, <2>2, <2>5 DEF Complete, p
<1>2. CASE MountRepair
  <2>1. phase' = "mounted" \/ (phase' = phase /\ ~Mounts(disk, TRUE))
    BY <1>2 DEF MountRepair
  <2>2. CASE phase = "ok"
    <3>1. Complete(disk, job)
      BY <2>2 DEF CompleteInv
    <3>2. Mounts(disk, FALSE)
      BY <1>0, <3>1, CompleteMounts
    <3>3. Mounts(disk, TRUE)
      BY <3>2 DEF Mounts
    <3> QED
      BY <2>1, <3>3
  <2> QED
    BY <2>1, <2>2
<1>3. ASSUME NEW j \in Jobs, Setup(j) \/ AmigaFormat(j) PROVE FALSE
  BY <1>3 DEF Setup, AmigaFormat, Start
<1>4. CASE Write
  BY <1>4 DEF Write
<1>5. ASSUME NEW n \in 0..MaxTorn, Interrupt(n) PROVE FALSE
  BY <1>5 DEF Interrupt
<1>6. CASE MountPlain
  BY <1>6 DEF MountPlain
<1>7. CASE Unmount
  BY <1>7 DEF Unmount
<1>8. CASE UNCHANGED mkfs_vars
  BY <1>8 DEF mkfs_vars, CompleteInv
<1> QED
  BY <1>1, <1>2, <1>3, <1>4, <1>5, <1>6, <1>7, <1>8 DEF MkfsNext

\* A format of 512-byte sectors that has returned 0 - mkfs() and then
\* exfat_fsync() - leaves a volume that exfat_mount() accepts without repair,
\* with the serial number and the label that were asked for and no file.  Of
\* larger sectors it does not hold: the run MkfsLarge refutes it.
THEOREM FormatMounts ==
  ASSUME SmallSectors
  PROVE  MkfsSpec => []FormattedMounts
<1>1. MkfsInit => CompleteInv
  BY MkfsInvInit DEF CompleteInv, MkfsInit
<1>2. CompleteInv /\ [MkfsNext]_mkfs_vars => CompleteInv'
  BY CompleteInvNext
<1>3. CompleteInv => FormattedMounts
  <2> SUFFICES ASSUME CompleteInv, phase = "ok"
               PROVE  /\ Mounts(disk, FALSE) /\ Super(disk).serial = job.serial
                      /\ LET entries == EntriesIn(disk, Super(disk), RootChain(disk, Super(disk))) IN
                           /\ Of(entries, "file") = {}
                           /\ {e.label : e \in Of(entries, "label")} = {Label(job)} \ {""}
    BY DEF FormattedMounts
  <2>1. SoundDisk(disk) /\ Complete(disk, job)
    BY DEF CompleteInv, MkfsInv
  <2> QED
    BY <2>1, CompleteMounts
<1> QED
  BY <1>1, <1>2, <1>3, PTL DEF MkfsSpec

=============================================================================
