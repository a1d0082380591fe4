----------------------------- MODULE FileIOProofs -----------------------------
(* Theorems about files: about FileIO, for every cluster size, every bound on *)
(* the size of the file and any number of handles, and about Exchange, for    *)
(* every time that AmigaDOS and exFAT both have.                              *)
EXTENDS FileIO, Exchange, FiniteSetTheorems, SequenceTheorems, TLAPS

FileState == [size: 0..MaxSize, valid: 0..MaxSize, raw: [Bytes -> Values \cup {Stale}]]

\* The two sizes of any file.
Sound(f) == f.valid <= f.size

\* What a byte may be.
Byte == Values \cup {Stale}

\* Content, of any file.
View(f) == [i \in 1..f.size |-> IF i <= f.valid THEN f.raw[i] ELSE 0]

Sized(s, n) == Abstract!Sized(s, n)
Overlay(s, o, n, v) == Abstract!Overlay(s, o, n, v)

-----------------------------------------------------------------------------
(* Numbers and sequences *)

\* A set of numbers that is not empty has a least element.
LEMMA LeastNatural ==
  ASSUME NEW S \in SUBSET Nat, S # {}
  PROVE  \E m \in S : \A k \in S : m <= k
<1> DEFINE Less == {p \in Nat \X Nat : p[1] < p[2]}
<1>1. OpToRel(<, Nat) = Less
  BY Zenon DEF OpToRel
<1>2. IsWellFoundedOn(Less, Nat)
  BY <1>1, NatLessThanWellFounded
<1>3. \E m \in S : \A k \in S : <<k, m>> \notin Less
  BY <1>2, WFMin
<1>4. \A k, m \in Nat : <<k, m>> \notin Less => m <= k
  OBVIOUS
<1> HIDE DEF Less
<1> QED
  BY <1>3, <1>4

\* The length of a file's content.
LEMMA LengthOf ==
  ASSUME NEW S, NEW n \in Nat, NEW s \in [1..n -> S]
  PROVE  s \in Seq(S) /\ Len(s) = n
<1>1. s \in Seq(S)
  BY SeqDef
<1>2. Len(s) \in Nat /\ DOMAIN s = 1..Len(s)
  BY <1>1, LenProperties
<1> QED
  BY <1>1, <1>2

\* The clusters of a file hold all of its bytes.
LEMMA AllocatedCovers ==
  ASSUME NEW n \in Nat
  PROVE  Allocated(n) \in Nat /\ n <= Allocated(n)
<1> DEFINE q == (n + ClusterSize - 1) \div ClusterSize
           r == (n + ClusterSize - 1) % ClusterSize
<1>1. ClusterSize \in Nat /\ ClusterSize > 0 /\ n + ClusterSize - 1 \in Nat
  BY FileIOAssumption
<1>2. q \in Nat /\ r \in 0..(ClusterSize - 1) /\ n + ClusterSize - 1 = ClusterSize * q + r
  BY <1>1
<1>3. Allocated(n) = ClusterSize * q
  BY <1>1, <1>2 DEF Allocated
<1> HIDE DEF q, r
<1>4. ClusterSize * q \in Nat
  BY <1>1, <1>2
<1> QED
  BY <1>1, <1>2, <1>3, <1>4

-----------------------------------------------------------------------------
(* What the operators of libexfat do to a file *)

\* What a client sees of a file are bytes, as many as its size.
LEMMA ViewType ==
  ASSUME NEW f \in FileState
  PROVE  View(f) \in [1..f.size -> Byte] /\ View(f) \in Seq(Byte) /\ Len(View(f)) = f.size
<1>1. f.size \in Nat /\ f.size \in 0..MaxSize /\ MaxSize \in Nat /\ f.raw \in [Bytes -> Byte]
  BY FileIOAssumption DEF FileState, Byte
<1>2. ASSUME NEW i \in 1..f.size
      PROVE  (IF i <= f.valid THEN f.raw[i] ELSE 0) \in Byte
  <2>1. i \in Bytes /\ 0 \in Byte
    BY <1>1, FileIOAssumption DEF Bytes, Byte
  <2> QED
    BY <1>1, <2>1
<1>3. View(f) \in [1..f.size -> Byte]
  BY <1>2 DEF View
<1> QED
  BY <1>1, <1>3, LengthOf

\* exfat_truncate() of a sound file: it is done as a whole, on the content as
\* well, or not at all.
LEMMA TruncateEffect ==
  ASSUME NEW f \in FileState, Sound(f), NEW n \in 0..MaxSize, NEW erase \in BOOLEAN,
         NEW r \in Truncate(f, n, erase)
  PROVE  /\ r.ok \in BOOLEAN
         /\ ~r.ok => r.f = f
         /\ r.ok => /\ r.f \in FileState /\ Sound(r.f)
                    /\ r.f.size = n
                    /\ n = f.size => r.f = f
                    /\ n # f.size /\ erase => r.f.valid = n
                    /\ n # f.size /\ ~erase => r.f.valid = Minimum(f.valid, n)
                    /\ View(r.f) = Sized(View(f), n)
<1> DEFINE raw == [i \in Bytes |->
             IF i <= Minimum(Allocated(f.size), Allocated(n)) THEN f.raw[i] ELSE Stale]
           kept == [f EXCEPT !.raw = raw]
           valid == IF erase THEN n ELSE Minimum(f.valid, n)
           bytes == IF erase THEN Erased(kept, n) ELSE raw
           done == [size |-> n, valid |-> valid, raw |-> bytes]
<1>1. /\ f.size \in Nat /\ f.valid \in Nat /\ n \in Nat /\ MaxSize \in Nat
      /\ f.size <= MaxSize /\ f.valid <= f.size /\ n <= MaxSize
      /\ f.raw \in [Bytes -> Values \cup {Stale}]
  BY FileIOAssumption DEF FileState, Sound
<1>2. /\ Allocated(f.size) \in Nat /\ f.size <= Allocated(f.size)
      /\ Allocated(n) \in Nat /\ n <= Allocated(n)
  BY <1>1, AllocatedCovers
<1>3. kept.raw = raw /\ kept.valid = f.valid /\ kept.size = f.size
  BY DEF FileState
<1>4. raw \in [Bytes -> Values \cup {Stale}]
  BY <1>1
<1>5. \A i \in Bytes : bytes[i] = IF erase /\ i \in (f.valid + 1)..n THEN 0 ELSE raw[i]
  BY <1>3 DEF Erased
<1>6. bytes \in [Bytes -> Values \cup {Stale}]
  BY <1>3, <1>4, FileIOAssumption DEF Erased
<1>7. valid \in 0..n /\ (valid <= f.valid \/ erase)
  BY <1>1 DEF Minimum
<1>8. done \in FileState
  BY <1>1, <1>6, <1>7 DEF FileState
<1>9. \A i \in 1..n : i <= f.valid => bytes[i] = f.raw[i] /\ i \in Bytes
  BY <1>1, <1>2, <1>5 DEF Minimum, Bytes
<1>10. \A i \in 1..n : erase /\ i > f.valid => bytes[i] = 0
  BY <1>1, <1>5 DEF Bytes
<1>12. Sound(done)
  BY <1>1, <1>7 DEF Sound
<1>13. Len(View(f)) = f.size
  BY ViewType
<1>14. ASSUME NEW i \in 1..n
       PROVE  (IF i <= valid THEN bytes[i] ELSE 0) = IF i <= f.size THEN View(f)[i] ELSE 0
  <2>1. CASE i <= f.valid
    <3>1. i <= valid /\ i <= f.size
      BY <1>1, <2>1 DEF Minimum
    <3> QED
      BY <1>1, <1>9, <2>1, <3>1 DEF View
  <2>2. CASE i > f.valid
    <3>1. (IF i <= valid THEN bytes[i] ELSE 0) = 0
      BY <1>1, <1>7, <1>10, <2>2
    <3>2. i <= f.size => View(f)[i] = 0
      BY <1>1, <2>2 DEF View
    <3> QED
      BY <3>1, <3>2
  <2> QED
    BY <1>1, <2>1, <2>2
<1>15. View(done) = Sized(View(f), n)
  BY <1>13, <1>14 DEF View, Sized, Abstract!Sized
<1>16. View(f) = Sized(View(f), f.size)
  <2>1. View(f) = [i \in 1..f.size |-> View(f)[i]]
    BY ViewType
  <2>2. \A i \in 1..f.size : i <= Len(View(f))
    BY <1>1, <1>13
  <2> QED
    BY <2>1, <2>2 DEF Sized, Abstract!Sized
<1>17. r = [ok |-> FALSE, f |-> f] \/ r = [ok |-> TRUE, f |-> IF n = f.size THEN f ELSE done]
  BY DEF Truncate
<1>18. done.size = n /\ done.valid = valid
  OBVIOUS
<1> HIDE DEF done
<1>19. CASE r = [ok |-> FALSE, f |-> f]
  BY <1>19
<1>20. CASE r = [ok |-> TRUE, f |-> f] /\ n = f.size
  BY <1>16, <1>20
<1>21. CASE r = [ok |-> TRUE, f |-> done] /\ n # f.size
  <2>1. r.ok /\ r.f = done
    BY <1>21
  <2> QED
    BY <1>8, <1>12, <1>15, <1>18, <1>21, <2>1
<1> QED
  BY <1>17, <1>19, <1>20, <1>21

\* t is s with m bytes of value v at o; if there are any, what lies between
\* sure and o may be anything.
Laid(s, t, sure, o, m, v) ==
  \A i \in 1..Len(s) : t[i] = Overlay(s, o, m, v)[i] \/ (m > 0 /\ i \in (sure + 1)..o)

\* The data of a write: what a client sees is a prefix of it laid over the
\* content, also when a chunk fails half way.
LEMMA StoredEffect ==
  ASSUME NEW f \in FileState, Sound(f), NEW o \in 0..f.size, NEW n \in Nat,
         o + n <= f.size, NEW v \in Values, NEW r \in Stored(f, o, n, v)
  PROVE  /\ r.f \in FileState /\ Sound(r.f) /\ r.f.size = f.size /\ f.valid <= r.f.valid
         /\ \E m \in 0..n : /\ m > 0 => o + m <= r.f.valid
                            /\ Laid(View(f), View(r.f), f.valid, o, m, v)
<1> DEFINE valid(k) == IF k > 0 THEN Maximum(f.valid, o + k) ELSE f.valid
           raw(m) == [i \in Bytes |-> IF i \in (o + 1)..(o + m) THEN v ELSE f.raw[i]]
           after(k, m) == [f EXCEPT !.valid = valid(k), !.raw = raw(m)]
           next(k) == CHOOSE m \in Cuts(o, n) : m > k /\ \A j \in Cuts(o, n) : j > k => m <= j
<1>1. /\ f.size \in Nat /\ f.valid \in Nat /\ o \in Nat /\ MaxSize \in Nat
      /\ f.size <= MaxSize /\ f.valid <= f.size /\ o <= f.size
      /\ f.raw \in [Bytes -> Values \cup {Stale}]
  BY FileIOAssumption DEF FileState, Sound
<1>2. ASSUME NEW k \in Cuts(o, n) \ {n}
      PROVE  k \in 0..n /\ next(k) \in 0..n /\ next(k) > k
  <2> DEFINE later == {m \in Cuts(o, n) : m > k}
  <2>1. k \in 0..n /\ k < n /\ n \in later
    BY DEF Cuts
  <2>2. later \in SUBSET Nat
    BY DEF Cuts
  <2>3. \E m \in later : \A j \in later : m <= j
    <3> HIDE DEF later
    <3> QED
      BY <2>1, <2>2, LeastNatural
  <2>4. \E m \in Cuts(o, n) : m > k /\ \A j \in Cuts(o, n) : j > k => m <= j
    BY <2>3
  <2>5. next(k) \in Cuts(o, n) /\ next(k) > k
    BY <2>4
  <2> QED
    BY <2>1, <2>5 DEF Cuts
<1>3. PICK k \in 0..n, m \in 0..n : k <= m /\ r.f = after(k, m)
  <2>1. CASE r = [ok |-> TRUE, f |-> after(n, n)]
    <3>1. r.f = after(n, n) /\ n \in 0..n /\ n <= n
      BY <2>1
    <3> HIDE DEF after
    <3> QED
      BY <3>1
  <2>2. CASE \E k \in Cuts(o, n) \ {n} :
               r \in {[ok |-> FALSE, f |-> after(k, k)], [ok |-> FALSE, f |-> after(k, next(k))]}
    <3>1. PICK k \in Cuts(o, n) \ {n} :
            r \in {[ok |-> FALSE, f |-> after(k, k)], [ok |-> FALSE, f |-> after(k, next(k))]}
      BY <2>2
    <3>2. k \in 0..n /\ next(k) \in k..n
      BY <1>2
    <3>3. r.f = after(k, k) \/ r.f = after(k, next(k))
      BY <3>1
    <3> HIDE DEF next, after
    <3> QED
      BY <3>2, <3>3
  <2> QED
    BY <2>1, <2>2 DEF Stored
<1>4. r.f.size = f.size /\ r.f.valid = valid(k) /\ r.f.raw = raw(m)
  BY <1>3 DEF FileState
<1>5. /\ valid(k) \in Nat /\ f.valid <= valid(k) /\ valid(k) <= f.size
      /\ k > 0 => o + k <= valid(k)
      /\ valid(k) = f.valid \/ (valid(k) = o + k /\ k > 0)
  BY <1>1 DEF Maximum
<1>6. raw(m) \in [Bytes -> Values \cup {Stale}]
  BY <1>1
<1>7. r.f \in FileState
  <2>1. valid(k) \in 0..MaxSize
    BY <1>1, <1>5
  <2> HIDE DEF valid, raw
  <2> QED
    BY <1>3, <1>6, <2>1 DEF FileState
<1>8. ASSUME NEW i \in 1..f.size
      PROVE  raw(m)[i] = IF i \in (o + 1)..(o + m) THEN v ELSE f.raw[i]
  BY <1>1 DEF Bytes
<1> HIDE DEF raw, valid, after
<1>le. k <= m
  BY <1>3
<1>9. Sound(r.f)
  BY <1>4, <1>5 DEF Sound
<1> DEFINE seen == IF o + m <= valid(k) THEN m ELSE IF o <= valid(k) THEN valid(k) - o ELSE 0
<1>10. seen \in 0..n /\ (seen > 0 => o + seen <= valid(k))
  BY <1>1, <1>5
<1>11. Laid(View(f), View(r.f), f.valid, o, seen, v)
  <2>1. Len(View(f)) = f.size
    BY ViewType
  <2>2. ASSUME NEW i \in 1..f.size
        PROVE  \/ (IF i <= valid(k) THEN raw(m)[i] ELSE 0)
                    = IF i \in (o + 1)..(o + seen) THEN v
                      ELSE IF i <= f.valid THEN f.raw[i] ELSE 0
               \/ seen > 0 /\ i \in (f.valid + 1)..o
    <3>1. CASE i \in (o + 1)..(o + m)
      BY <1>le, <1>1, <1>5, <1>8, <3>1
    <3>2. CASE i \notin (o + 1)..(o + m)
      BY <1>le, <1>1, <1>5, <1>8, <3>2
    <3> QED
      BY <3>1, <3>2
  <2>3. \A i \in 1..f.size : View(f)[i] = IF i <= f.valid THEN f.raw[i] ELSE 0
    BY DEF View
  <2> HIDE DEF seen
  <2>4. View(r.f) = [i \in 1..f.size |-> IF i <= valid(k) THEN raw(m)[i] ELSE 0]
    BY <1>4 DEF View
  <2>5. Overlay(View(f), o, seen, v)
          = [i \in 1..f.size |-> IF i \in (o + 1)..(o + seen) THEN v ELSE View(f)[i]]
    BY <2>1 DEF Overlay, Abstract!Overlay
  <2> QED
    BY <2>1, <2>2, <2>3, <2>4, <2>5 DEF Laid
<1> HIDE DEF seen
<1> QED
  BY <1>4, <1>5, <1>7, <1>9, <1>10, <1>11

\* Cutting off and extending compose, as long as nothing is cut off first.
LEMMA SizedTwice ==
  ASSUME NEW s \in Seq(Byte), NEW a \in Nat, NEW b \in Nat, Len(s) <= a
  PROVE  /\ Sized(Sized(s, a), b) = Sized(s, b)
         /\ Sized(s, a) \in Seq(Byte) /\ Len(Sized(s, a)) = a
<1>1. /\ Len(s) \in Nat
      /\ s \in [1..Len(s) -> Byte]
  BY LenProperties
<1>2. Sized(s, a) \in [1..a -> Byte]
  BY <1>1, FileIOAssumption DEF Byte, Sized, Abstract!Sized
<1>3. Sized(s, a) \in Seq(Byte) /\ Len(Sized(s, a)) = a
  BY <1>2, LengthOf
<1>4. \A i \in 1..a : Sized(s, a)[i] = IF i <= Len(s) THEN s[i] ELSE 0
  BY DEF Sized, Abstract!Sized
<1>5. \A i \in 1..b : (IF i <= a THEN Sized(s, a)[i] ELSE 0) = IF i <= Len(s) THEN s[i] ELSE 0
  BY <1>1, <1>4
<1> HIDE DEF Sized
<1>6. Sized(Sized(s, a), b) = [i \in 1..b |-> IF i <= a THEN Sized(s, a)[i] ELSE 0]
  BY <1>3 DEF Sized, Abstract!Sized
<1>7. Sized(s, b) = [i \in 1..b |-> IF i <= Len(s) THEN s[i] ELSE 0]
  BY DEF Sized, Abstract!Sized
<1> QED
  BY <1>3, <1>5, <1>6, <1>7

\* Laying nothing over a content leaves it.
LEMMA OverlayNothing ==
  ASSUME NEW s \in Seq(Byte), NEW v
  PROVE  Overlay(s, 0, 0, v) = s
<1>1. s = [i \in 1..Len(s) |-> s[i]] /\ Len(s) \in Nat
  BY LenProperties
<1>2. \A i \in 1..Len(s) : i \notin (0 + 1)..(0 + 0)
  BY <1>1
<1> QED
  BY <1>1, <1>2 DEF Overlay, Abstract!Overlay

\* What Write of module File allows a write at o to do with a content.
Written(s, t, sure, sure1, o, v) ==
  LET z == Len(t) IN
  /\ z >= Len(s) /\ sure <= sure1 /\ sure1 <= z
  /\ \E p \in 0..z : \E m \in 0..(z - p) :
       /\ m > 0 => p = o /\ sure1 >= p + m
       /\ \A i \in 1..z :
            \/ t[i] = Overlay(Sized(s, z), p, m, v)[i]
            \/ m > 0 /\ p <= Len(s) /\ i \in (sure + 1)..p

\* exfat_generic_pwrite(): the content changes as that of a file.
LEMMA PwriteEffect ==
  ASSUME NEW f \in FileState, Sound(f), NEW o \in Nat, NEW n \in Nat, NEW v \in Values,
         o + n <= MaxSize, NEW r \in Pwrite(f, o, n, v)
  PROVE  r.f \in FileState /\ Sound(r.f) /\ Written(View(f), View(r.f), f.valid, r.f.valid, o, v)
<1> DEFINE hole == IF o > f.size THEN Truncate(f, o, TRUE) ELSE {[ok |-> TRUE, f |-> f]}
           grow(g) == IF o + n > g.size THEN Truncate(g, o + n, FALSE)
                      ELSE {[ok |-> TRUE, f |-> g]}
           \* g is f after it has been extended.
           Extended(g) == /\ g \in FileState /\ Sound(g) /\ g.size >= f.size
                          /\ View(g) = Sized(View(f), g.size)
                          /\ g.valid = f.valid \/ (o > f.size /\ g.valid = o)
<1>1. /\ f.size \in Nat /\ f.valid \in Nat /\ MaxSize \in Nat
      /\ f.size <= MaxSize /\ f.valid <= f.size
      /\ o \in 0..MaxSize /\ o + n \in 0..MaxSize
  BY FileIOAssumption DEF FileState, Sound
<1>2. /\ View(f) \in Seq(Byte) /\ Len(View(f)) = f.size
      /\ View(f) = Sized(View(f), f.size)
  <2>1. View(f) \in [1..f.size -> Byte] /\ View(f) \in Seq(Byte) /\ Len(View(f)) = f.size
    BY ViewType
  <2>2. \A i \in 1..f.size : i <= Len(View(f))
    BY <1>1, <2>1
  <2> QED
    BY <2>1, <2>2 DEF Sized, Abstract!Sized
<1>num. ASSUME NEW g, Extended(g)
        PROVE  /\ g.size \in Nat /\ g.valid \in Nat /\ g.size <= MaxSize
               /\ f.valid <= g.valid /\ g.valid <= g.size
  BY <1>1, <1>num DEF FileState, Sound
\* A file that has only been extended.
<1>3. ASSUME NEW g, Extended(g)
      PROVE  g \in FileState /\ Sound(g) /\ Written(View(f), View(g), f.valid, g.valid, o, v)
  <2>1. View(g) \in Seq(Byte) /\ Len(View(g)) = g.size
    BY <1>3, ViewType
  <2>2. View(g) = Overlay(Sized(View(f), g.size), 0, 0, v)
    BY <1>3, <2>1, OverlayNothing
  <2>3. 0 \in 0..g.size /\ 0 \in 0..(g.size - 0) /\ ~(0 > 0)
    BY <1>3, <1>num
  <2> QED
    BY <1>2, <1>3, <1>num, <2>1, <2>2, <2>3 DEF Written
\* After the hole.
<1>4. ASSUME NEW h \in hole
      PROVE  /\ h.ok \in BOOLEAN
             /\ Extended(h.f)
             /\ h.ok => o <= h.f.size /\ (o > f.size => o <= h.f.valid)
  <2>1. CASE o > f.size
    <3>1. h \in Truncate(f, o, TRUE)
      BY <1>4, <2>1
    <3> HIDE DEF hole
    <3>2. /\ h.ok \in BOOLEAN
          /\ ~h.ok => h.f = f
          /\ h.ok => /\ h.f \in FileState /\ Sound(h.f)
                     /\ h.f.size = o
                     /\ o # f.size => h.f.valid = o
                     /\ View(h.f) = Sized(View(f), o)
      <4>1. o \in 0..MaxSize /\ TRUE \in BOOLEAN
        BY <1>1
      <4> QED
        BY ZenonT(30), <3>1, <4>1, TruncateEffect
    <3> QED
      BY <1>1, <1>2, <2>1, <3>2
  <2>2. CASE ~(o > f.size)
    <3>1. h = [ok |-> TRUE, f |-> f]
      BY <1>4, <2>2
    <3> HIDE DEF hole
    <3> QED
      BY <1>1, <1>2, <2>2, <3>1
  <2> QED
    BY <2>1, <2>2
\* After the growth.
<1>5. ASSUME NEW g, Extended(g), o <= g.size, o > f.size => o <= g.valid, NEW t \in grow(g)
      PROVE  /\ t.ok \in BOOLEAN
             /\ Extended(t.f)
             /\ t.ok => o + n <= t.f.size /\ (o > f.size => o <= t.f.valid)
  <2>1. /\ g.size \in Nat /\ g.valid \in Nat /\ g.size <= MaxSize /\ g.valid <= g.size
        /\ g \in FileState /\ Sound(g) /\ g.size >= f.size
        /\ View(g) = Sized(View(f), g.size)
    BY <1>5, <1>num
  <2>2. CASE o + n > g.size
    <3>1. t \in Truncate(g, o + n, FALSE)
      BY <1>5, <2>2
    <3> HIDE DEF grow
    <3>2. /\ t.ok \in BOOLEAN
          /\ ~t.ok => t.f = g
          /\ t.ok => /\ t.f \in FileState /\ Sound(t.f)
                     /\ t.f.size = o + n
                     /\ o + n # g.size => t.f.valid = Minimum(g.valid, o + n)
                     /\ View(t.f) = Sized(View(g), o + n)
      BY ZenonT(30), <1>1, <2>1, <3>1, TruncateEffect
    <3>3. Sized(View(g), o + n) = Sized(View(f), o + n)
      BY <1>1, <1>2, <2>1, SizedTwice
    <3>4. t.ok => t.f.valid = g.valid
      BY <1>1, <2>1, <2>2, <3>2 DEF Minimum
    <3> QED
      BY <1>1, <1>5, <2>1, <2>2, <3>2, <3>3, <3>4
  <2>3. CASE ~(o + n > g.size)
    <3>1. t = [ok |-> TRUE, f |-> g]
      BY <1>5, <2>3
    <3> HIDE DEF grow
    <3> QED
      BY <1>1, <1>5, <2>1, <2>3, <3>1
  <2> QED
    BY <2>2, <2>3
\* After the data.
<1>6. ASSUME NEW g, Extended(g), o + n <= g.size, o > f.size => o <= g.valid,
             r \in Stored(g, o, n, v)
      PROVE  /\ r.f \in FileState /\ Sound(r.f)
             /\ Written(View(f), View(r.f), f.valid, r.f.valid, o, v)
  <2>1. /\ g.size \in Nat /\ g.valid \in Nat /\ g.size <= MaxSize /\ g.valid <= g.size
        /\ f.valid <= g.valid /\ g \in FileState /\ Sound(g) /\ g.size >= f.size
        /\ View(g) = Sized(View(f), g.size)
        /\ o > f.size \/ g.valid = f.valid
    BY <1>6, <1>1, <1>num
  <2>2. o \in 0..g.size
    BY <1>1, <1>6, <2>1
  <2>3. /\ r.f \in FileState /\ Sound(r.f) /\ r.f.size = g.size /\ g.valid <= r.f.valid
        /\ \E m \in 0..n : /\ m > 0 => o + m <= r.f.valid
                           /\ Laid(View(g), View(r.f), g.valid, o, m, v)
    BY <1>6, <2>1, <2>2, StoredEffect
  <2>4. PICK m \in 0..n : /\ m > 0 => o + m <= r.f.valid
                          /\ Laid(View(g), View(r.f), g.valid, o, m, v)
    BY <2>3
  <2>5. Len(View(r.f)) = g.size /\ Len(View(g)) = g.size
    BY <2>1, <2>3, ViewType
  <2>6. o \in 0..g.size /\ m \in 0..(g.size - o)
    BY <1>1, <1>6, <2>1
  <2>7. ASSUME NEW i \in 1..g.size
        PROVE  \/ View(r.f)[i] = Overlay(Sized(View(f), g.size), o, m, v)[i]
               \/ m > 0 /\ o <= Len(View(f)) /\ i \in (f.valid + 1)..o
    <3>1. \/ View(r.f)[i] = Overlay(Sized(View(f), g.size), o, m, v)[i]
          \/ m > 0 /\ i \in (g.valid + 1)..o
      BY <2>1, <2>4, <2>5 DEF Laid
    <3>2. CASE m > 0 /\ i \in (g.valid + 1)..o
      <4>1. ~(o <= g.valid)
        BY <1>1, <2>1, <3>2
      <4>2. ~(o > f.size)
        BY <1>6, <4>1
      <4>3. g.valid = f.valid /\ o <= Len(View(f))
        BY <1>1, <1>2, <2>1, <4>2
      <4> QED
        BY <3>2, <4>3
    <3> QED
      BY <3>1, <3>2
  <2>8. r.f.valid \in Nat /\ f.valid <= r.f.valid /\ r.f.valid <= g.size
    BY <1>1, <2>1, <2>3 DEF FileState, Sound
  <2> QED
    BY <1>2, <2>1, <2>3, <2>4, <2>5, <2>6, <2>7, <2>8 DEF Written
<1>7. PICK h \in hole : \E t \in IF h.ok THEN grow(h.f) ELSE {h} :
                          r \in IF t.ok THEN Stored(t.f, o, n, v) ELSE {t}
  <2>1. Pwrite(f, o, n, v) =
          UNION {IF t.ok THEN Stored(t.f, o, n, v) ELSE {t} :
                   t \in UNION {IF h.ok THEN grow(h.f) ELSE {h} : h \in hole}}
    BY DEF Pwrite
  <2> HIDE DEF hole, grow
  <2> QED
    BY <2>1
<1>8. PICK t \in IF h.ok THEN grow(h.f) ELSE {h} :
             r \in IF t.ok THEN Stored(t.f, o, n, v) ELSE {t}
  BY <1>7
<1> HIDE DEF hole, grow, Extended
<1>9. /\ h.ok \in BOOLEAN
      /\ Extended(h.f)
      /\ h.ok => o <= h.f.size /\ (o > f.size => o <= h.f.valid)
  BY <1>4
<1>10. CASE ~h.ok
  <2>1. t = h /\ r = t
    BY <1>8, <1>10
  <2> QED
    BY <1>3, <1>9, <2>1
<1>11. CASE h.ok
  <2>1. t \in grow(h.f)
    BY <1>8, <1>11
  <2>2. /\ t.ok \in BOOLEAN
        /\ Extended(t.f)
        /\ t.ok => o + n <= t.f.size /\ (o > f.size => o <= t.f.valid)
    BY <1>5, <1>9, <1>11, <2>1
  <2>3. CASE ~t.ok
    BY <1>3, <1>8, <2>2, <2>3
  <2>4. CASE t.ok
    BY <1>6, <1>8, <2>2, <2>4
  <2> QED
    BY <2>3, <2>4
<1> QED
  BY <1>10, <1>11

\* exfat_generic_pread() of a sound file delivers the content.
LEMMA PreadEffect ==
  ASSUME NEW f \in FileState, Sound(f), NEW o \in Nat, NEW n \in Nat
  PROVE  Pread(f, o, n) =
           [i \in 1..Minimum(n, IF o >= f.size THEN 0 ELSE f.size - o) |-> View(f)[o + i]]
<1>1. f.size \in Nat /\ f.valid \in Nat /\ f.valid <= f.size
  BY FileIOAssumption DEF FileState, Sound
<1>2. \A i \in 1..f.size : View(f)[i] = IF i <= f.valid THEN f.raw[i] ELSE 0
  BY DEF View
<1>3. CASE o >= f.size
  <2>1. Pread(f, o, n) = <<>>
    BY <1>3 DEF Pread
  <2>2. 1..Minimum(n, IF o >= f.size THEN 0 ELSE f.size - o) = {}
    BY <1>1, <1>3 DEF Minimum
  <2> QED
    BY <2>1, <2>2
<1>4. CASE o < f.size /\ o + n <= f.valid
  <2>1. Pread(f, o, n) = [i \in 1..Minimum(n, f.size - o) |-> f.raw[o + i]]
    BY <1>1, <1>4 DEF Pread
  <2>2. \A i \in 1..Minimum(n, f.size - o) : f.raw[o + i] = View(f)[o + i]
    BY <1>1, <1>2, <1>4 DEF Minimum
  <2> QED
    BY <1>1, <1>4, <2>1, <2>2
<1>5. CASE o < f.size /\ o + n > f.valid
  <2> DEFINE part == IF o < f.valid THEN f.valid - o ELSE 0
             raw == [i \in 1..Minimum(part, f.size - o) |-> f.raw[o + i]]
             zeros == Minimum(n - part, f.size - f.valid)
             buffer == [i \in 1..(part + zeros) |-> IF i <= part THEN raw[i] ELSE 0]
  <2>1. Pread(f, o, n) = [i \in 1..Minimum(n, f.size - o) |-> buffer[i]]
    BY <1>1, <1>5 DEF Pread
  <2>2. /\ part \in Nat /\ zeros \in Nat /\ Minimum(n, f.size - o) \in Nat
        /\ Minimum(n, f.size - o) <= part + zeros
        /\ Minimum(part, f.size - o) = part
        /\ Minimum(n, f.size - o) <= f.size - o
    BY <1>1, <1>5 DEF Minimum
  <2>3. ASSUME NEW i \in 1..Minimum(n, f.size - o)
        PROVE  buffer[i] = View(f)[o + i]
    <3>1. i \in 1..(part + zeros) /\ o + i \in 1..f.size
      BY <1>1, <2>2
    <3>2. CASE i <= part
      <4>1. o + i <= f.valid /\ i \in 1..Minimum(part, f.size - o)
        BY <1>1, <2>2, <3>1, <3>2
      <4>2. buffer[i] = raw[i] /\ raw[i] = f.raw[o + i]
        BY <3>1, <3>2, <4>1
      <4> QED
        BY <1>2, <3>1, <4>1, <4>2
    <3>3. CASE i > part
      <4>1. o + i > f.valid
        BY <1>1, <2>2, <3>1, <3>3
      <4>2. buffer[i] = 0
        BY <2>2, <3>1, <3>3
      <4> QED
        BY <1>1, <1>2, <3>1, <4>1, <4>2
    <3> QED
      BY <2>2, <3>2, <3>3
  <2> HIDE DEF buffer
  <2> QED
    BY <1>1, <1>5, <2>1, <2>3
<1> QED
  BY <1>1, <1>3, <1>4, <1>5

-----------------------------------------------------------------------------
(* The inductive invariant *)

\* The sizes of the file, its bytes and the positions of the handles.
FileInv == TypeOK /\ file.valid <= file.size

\* FileInv in the terms of the lemmas.
LEMMA FileInvMeans ==
  /\ FileInv <=> file \in FileState /\ Sound(file) /\ pos \in [Handles -> 0..MaxSize]
  /\ FileInv' <=> file' \in FileState /\ Sound(file') /\ pos' \in [Handles -> 0..MaxSize]
  /\ Content = View(file) /\ Content' = View(file')
  BY DEF FileInv, TypeOK, FileState, Sound, Content, View

\* Any file that another system left satisfies it.
LEMMA InitFileInv == Init => FileInv
<1> SUFFICES ASSUME Init PROVE FileInv
  OBVIOUS
<1>1. PICK s \in 0..MaxSize, v \in 0..MaxSize :
        file = [size |-> s, valid |-> v, raw |-> [i \in Bytes |-> IF i <= v THEN 1 ELSE Stale]]
  BY DEF Init
<1>2. v <= s /\ pos \in [Handles -> 0..MaxSize]
  BY <1>1, FileIOAssumption DEF Init
<1>3. [i \in Bytes |-> IF i <= v THEN 1 ELSE Stale] \in [Bytes -> Values \cup {Stale}]
  BY FileIOAssumption
<1>4. file \in FileState
  BY <1>1, <1>3 DEF FileState
<1>6. Sound(file)
  BY <1>1, <1>2 DEF Sound
<1> QED
  BY <1>2, <1>4, <1>6, FileInvMeans

\* What a packet does, in terms of the content: a write, a resize or nothing.
ContentStep ==
  \/ \E h \in Handles, v \in Values :
       Written(Content, Content', file.valid, file'.valid, pos[h], v)
  \/ /\ Content' = Sized(Content, Len(Content'))
     /\ file'.valid <= Len(Content') /\ (file'.valid >= file.valid \/ file'.valid = Len(Content'))
  \/ Content' = Content /\ file'.valid = file.valid

\* A packet leaves a sound file, and its content as module File says.
LEMMA PacketEffect ==
  ASSUME FileInv, [Next]_vars
  PROVE  FileInv' /\ ContentStep
<1>1. file \in FileState /\ Sound(file) /\ pos \in [Handles -> 0..MaxSize] /\ Content = View(file)
  BY FileInvMeans
<1>2. MaxSize \in Nat
  BY FileIOAssumption
<1>3. ASSUME NEW h \in Handles, NEW n \in Bytes, NEW v \in Values, Write(h, n, v)
      PROVE  FileInv' /\ ContentStep
  <2>1. PICK r \in Pwrite(file, pos[h], n, v) :
          file' = r.f /\ pos' = IF r.ok THEN [pos EXCEPT ![h] = @ + n] ELSE pos
    BY <1>3 DEF Write
  <2>2. pos[h] \in Nat /\ n \in Nat /\ pos[h] + n <= MaxSize
    BY <1>1, <1>2, <1>3 DEF Write, Bytes
  <2>3. /\ file' \in FileState /\ Sound(file')
        /\ Written(Content, View(file'), file.valid, file'.valid, pos[h], v)
    BY <1>1, <2>1, <2>2, PwriteEffect
  <2>4. pos' \in [Handles -> 0..MaxSize]
    BY <1>1, <1>2, <2>1, <2>2
  <2> QED
    BY <2>3, <2>4, FileInvMeans DEF ContentStep
<1>4. ASSUME NEW h \in Handles, NEW n \in Bytes, Read(h, n)
      PROVE  FileInv' /\ ContentStep
  <2> DEFINE k == Minimum(n, IF pos[h] >= file.size THEN 0 ELSE file.size - pos[h])
  <2>1. n \in Nat /\ pos[h] \in 0..MaxSize /\ file.size \in 0..MaxSize
    BY <1>1, <1>2 DEF Bytes, FileState
  <2>2. DOMAIN Pread(file, pos[h], n) = 1..k
    BY <1>1, <2>1, PreadEffect
  <2>3. k \in Nat /\ pos[h] + k <= MaxSize
    BY <1>2, <2>1 DEF Minimum
  <2> HIDE DEF k
  <2>4. Cardinality(DOMAIN Pread(file, pos[h], n)) = k
    BY <2>2, <2>3, FS_Interval
  <2>5. pos' = [pos EXCEPT ![h] = @ + k] /\ file' = file
    BY <1>4, <2>4 DEF Read
  <2>6. pos' \in [Handles -> 0..MaxSize]
    BY <1>1, <1>2, <2>1, <2>3, <2>5
  <2> QED
    BY <1>1, <2>5, <2>6, FileInvMeans DEF ContentStep
<1>5. ASSUME NEW h \in Handles, NEW p \in 0..MaxSize, Seek(h, p)
      PROVE  FileInv' /\ ContentStep
  <2>1. file' = file /\ pos' \in [Handles -> 0..MaxSize]
    BY <1>1, <1>5 DEF Seek
  <2> QED
    BY <1>1, <2>1, FileInvMeans DEF ContentStep
<1>6. ASSUME NEW n \in 0..MaxSize, NEW r \in Truncate(file, n, TRUE), file' = r.f,
             pos' \in [Handles -> 0..MaxSize]
      PROVE  FileInv' /\ ContentStep
  <2>1. /\ r.ok \in BOOLEAN
        /\ ~r.ok => r.f = file
        /\ r.ok => /\ r.f \in FileState /\ Sound(r.f) /\ r.f.size = n
                   /\ n = file.size => r.f = file
                   /\ n # file.size => r.f.valid = n
                   /\ View(r.f) = Sized(View(file), n)
    <3>1. TRUE \in BOOLEAN
      OBVIOUS
    <3> QED
      BY ZenonT(30), <1>1, <1>6, <3>1, TruncateEffect
  <2>2. CASE ~r.ok
    BY <1>1, <1>6, <2>1, <2>2, FileInvMeans DEF ContentStep
  <2>3. CASE r.ok
    <3>1. Len(View(r.f)) = n
      BY <2>1, <2>3, ViewType
    <3>2. CASE n = file.size
      BY <1>1, <1>6, <2>1, <2>3, <3>2, FileInvMeans DEF ContentStep
    <3>3. CASE n # file.size
      <4>1. r.f.valid <= n
        BY <1>2, <2>1, <2>3, <3>3
      <4> QED
        BY <1>1, <1>6, <2>1, <2>3, <3>1, <3>3, <4>1, FileInvMeans DEF ContentStep
    <3> QED
      BY <3>2, <3>3
  <2> QED
    BY <2>2, <2>3
<1>7. ASSUME NEW h \in Handles, NEW n \in 0..MaxSize, SetFileSize(h, n)
      PROVE  FileInv' /\ ContentStep
  <2>1. PICK r \in Truncate(file, n, TRUE) :
          file' = r.f /\ pos' = IF r.ok /\ pos[h] > n THEN [pos EXCEPT ![h] = n] ELSE pos
    BY <1>7 DEF SetFileSize
  <2>2. pos' \in [Handles -> 0..MaxSize]
    BY <1>1, <2>1
  <2> QED
    BY <1>6, <2>1, <2>2
<1>8. ASSUME NEW h \in Handles, OpenNew(h)
      PROVE  FileInv' /\ ContentStep
  <2>1. PICK r \in Truncate(file, 0, TRUE) : file' = r.f /\ pos' = [pos EXCEPT ![h] = 0]
    BY <1>8 DEF OpenNew
  <2>2. pos' \in [Handles -> 0..MaxSize] /\ 0 \in 0..MaxSize
    BY <1>1, <1>2, <2>1
  <2> QED
    BY <1>6, <2>1, <2>2
<1>9. CASE UNCHANGED vars
  <2>1. file' = file /\ pos' = pos
    BY <1>9 DEF vars
  <2> QED
    BY <1>1, <2>1, FileInvMeans DEF ContentStep
<1> QED
  BY <1>3, <1>4, <1>5, <1>7, <1>8, <1>9 DEF Next

\* The inductive invariant holds.
LEMMA FileInvHolds ==
  Spec => []FileInv
<1>1. FileInv /\ [Next]_vars => FileInv'
  BY PacketEffect
<1> QED
  BY <1>1, InitFileInv, PTL DEF Spec

-----------------------------------------------------------------------------
(* Theorems *)

\* Sizes, bytes and positions stay in their types, for every sequence of packets.
THEOREM TypeCorrect == Spec => []TypeOK
  BY FileInvHolds, PTL DEF FileInv

\* Which step can make a stale byte readable, in terms of the content.
LEMMA StaleStep ==
  ASSUME FileInv, FileInv', ContentStep, NEW i \in 1..file'.valid, file'.raw[i] = Stale
  PROVE  \/ i <= file.valid /\ file.raw[i] = Stale
         \/ i > file.valid /\ \E h \in Handles : pos[h] \in i..file.size
<1>1. /\ file \in FileState /\ Sound(file) /\ Content = View(file)
      /\ file' \in FileState /\ Sound(file') /\ Content' = View(file')
      /\ pos \in [Handles -> 0..MaxSize]
  BY FileInvMeans
<1>2. /\ file.size \in Nat /\ file.valid \in Nat /\ file.valid <= file.size
      /\ file'.size \in Nat /\ file'.valid \in Nat /\ file'.valid <= file'.size
      /\ Stale \notin Values /\ Stale # 0
  BY <1>1, FileIOAssumption DEF FileState, Sound
<1>3. Len(Content) = file.size /\ Len(Content') = file'.size
  BY <1>1, ViewType
<1>4. i \in 1..file'.size /\ Content'[i] = Stale
  BY <1>1, <1>2 DEF View
<1>5. ASSUME i <= file.size, Content[i] = Stale PROVE i <= file.valid /\ file.raw[i] = Stale
  BY <1>1, <1>2, <1>4, <1>5 DEF View
\* A byte of the content that was there, or was added.
<1>6. ASSUME Sized(Content, file'.size)[i] = Stale PROVE i <= file.valid /\ file.raw[i] = Stale
  BY <1>2, <1>3, <1>4, <1>5, <1>6 DEF Sized, Abstract!Sized
<1>7. CASE Content' = Content
  BY <1>3, <1>4, <1>5, <1>7
<1>8. CASE Content' = Sized(Content, Len(Content'))
  BY <1>3, <1>4, <1>6, <1>8
<1>9. ASSUME NEW h \in Handles, NEW v \in Values,
             Written(Content, Content', file.valid, file'.valid, pos[h], v)
      PROVE  \/ i <= file.valid /\ file.raw[i] = Stale
             \/ i > file.valid /\ \E g \in Handles : pos[g] \in i..file.size
  <2>1. PICK p \in 0..file'.size, m \in Nat :
          /\ m > 0 => p = pos[h]
          /\ \/ Content'[i] = Overlay(Sized(Content, file'.size), p, m, v)[i]
             \/ m > 0 /\ p <= file.size /\ i \in (file.valid + 1)..p
    BY <1>3, <1>4, <1>9 DEF Written
  <2>2. CASE m > 0 /\ p <= file.size /\ i \in (file.valid + 1)..p
    BY <1>1, <1>2, <2>1, <2>2
  <2>3. CASE Content'[i] = Overlay(Sized(Content, file'.size), p, m, v)[i]
    <3>1. Len(Sized(Content, file'.size)) = file'.size
      <4>1. Content \in Seq(Byte)
        BY <1>1, ViewType
      <4>2. Content \in [1..file.size -> Byte]
        BY <1>1, ViewType
      <4>3. Sized(Content, file'.size) \in [1..file'.size -> Byte]
        BY <1>2, <1>3, <4>2, FileIOAssumption DEF Byte, Sized, Abstract!Sized
      <4> QED
        BY <1>2, <4>3, LengthOf
    <3>2. Content'[i] = v \/ Content'[i] = Sized(Content, file'.size)[i]
      <4> HIDE DEF Sized
      <4> QED
        BY <1>4, <2>3, <3>1 DEF Overlay, Abstract!Overlay
    <3> QED
      BY <1>2, <1>4, <1>6, <3>2
  <2> QED
    BY <2>1, <2>2, <2>3
<1> QED
  BY <1>7, <1>8, <1>9 DEF ContentStep

\* Bytes of deleted files come to be readable by a write that begins behind
\* valid_size within the file, and by nothing else: not by holes, resizes, full
\* volumes or writes that fail, in any order and through any handles.
THEOREM NoStaleHolds == Spec => NoStale
<1>1. FileInv /\ [Next]_vars =>
        [\A i \in 1..file'.valid :
           file'.raw[i] = Stale =>
             \/ i <= file.valid /\ file.raw[i] = Stale
             \/ i > file.valid /\ \E h \in Handles : pos[h] \in i..file.size]_vars
  BY PacketEffect, StaleStep
<1> QED
  BY <1>1, FileInvHolds, PTL DEF Spec, NoStale

\* Every read delivers the content.
THEOREM ReadExactHolds == Spec => []ReadExact
<1>1. FileInv => ReadExact
  <2> SUFFICES ASSUME FileInv, NEW o \in 0..MaxSize, NEW n \in Bytes
               PROVE  Pread(file, o, n) =
                        [i \in 1..Minimum(n, IF o >= file.size THEN 0 ELSE file.size - o)
                           |-> Content[o + i]]
    BY DEF ReadExact
  <2>1. o \in Nat /\ n \in Nat
    BY FileIOAssumption DEF Bytes
  <2> QED
    BY <2>1, FileInvMeans, PreadEffect
<1> QED
  BY <1>1, FileInvHolds, PTL

\* Whatever the packets, the clusters and the failures, the content behaves as
\* module File says.
THEOREM ImplementsFileHolds == Spec => ImplementsFile
<1>1. FileInv => Content \in [1..file.size -> Byte] /\ Len(Content) = file.size
  BY FileInvMeans, ViewType
<1>2. Init => Abstract!Init
  <2> SUFFICES ASSUME Init PROVE Abstract!Init
    OBVIOUS
  <2>1. FileInv /\ Content = View(file)
    BY InitFileInv, FileInvMeans
  <2>2. /\ file.size \in 0..MaxSize /\ file.size \in Nat /\ file.valid \in Nat
        /\ file.valid <= file.size /\ MaxSize \in Nat
    BY <2>1, FileIOAssumption DEF FileInv, TypeOK
  <2>3. ASSUME NEW i \in 1..file.size
        PROVE  /\ (IF i <= file.valid THEN file.raw[i] ELSE 0) \in Values
               /\ i > file.valid => Content[i] = 0
    <3>1. i \in Bytes /\ (i <= file.valid => file.raw[i] = 1)
      BY <2>2 DEF Init, Bytes
    <3>2. i > file.valid => Content[i] = 0
      BY <2>1, <2>2 DEF View
    <3> QED
      BY <3>1, <3>2, FileIOAssumption
  <2>4. Content \in [1..file.size -> Values] /\ Len(Content) = file.size
    BY <1>1, <2>1, <2>3 DEF View
  <2> QED
    BY <2>2, <2>3, <2>4 DEF Abstract!Init
<1>3. FileInv /\ [Next]_vars => [Abstract!Next]_<<Content, file.valid>>
  <2> SUFFICES ASSUME FileInv, [Next]_vars
               PROVE  [Abstract!Next]_<<Content, file.valid>>
    OBVIOUS
  <2>1. ContentStep /\ FileInv'
    BY PacketEffect
  <2>2. Content' \in [1..file'.size -> Byte] /\ Len(Content') = file'.size
    BY <2>1, FileInvMeans, ViewType
  <2>3. ASSUME NEW h \in Handles, NEW v \in Values,
               Written(Content, Content', file.valid, file'.valid, pos[h], v)
        PROVE  Abstract!Write
    <3>1. file.valid \in Nat /\ file'.valid \in Nat /\ file'.size \in Nat
      BY <2>1, FileIOAssumption DEF FileInv, TypeOK
    <3>2. file'.valid \in file.valid..file'.size
      BY <2>2, <2>3, <3>1 DEF Written
    <3>3. /\ Len(Content') >= Len(Content)
          /\ Content' \in [1..Len(Content') -> Values \cup {Stale}]
          /\ file'.valid \in file.valid..Len(Content')
      BY <2>2, <2>3, <3>2 DEF Written, Byte
    <3>4. \E o \in 0..Len(Content') : \E m \in 0..(Len(Content') - o) :
            /\ m > 0 => file'.valid >= o + m
            /\ \A i \in 1..Len(Content') :
                 \/ Content'[i] = Overlay(Sized(Content, Len(Content')), o, m, v)[i]
                 \/ m > 0 /\ o <= Len(Content) /\ i \in (file.valid + 1)..o
      BY <2>3 DEF Written
    <3> QED
      BY <2>3, <3>3, <3>4 DEF Abstract!Write, Sized, Overlay
  <2>4. ASSUME Content' = Sized(Content, Len(Content')), file'.valid <= Len(Content'),
               file'.valid >= file.valid \/ file'.valid = Len(Content')
        PROVE  Abstract!Resize
    BY <2>4 DEF Abstract!Resize, Sized
  <2> QED
    BY <2>1, <2>3, <2>4 DEF ContentStep, Abstract!Next
<1> QED
  BY <1>2, <1>3, FileInvHolds, PTL DEF Spec, ImplementsFile, Abstract!Spec

-----------------------------------------------------------------------------
(* Time stamps *)

\* The first time that exFAT has, in the zone tz.
Epoch(tz) == Time(EpochDiffDays, tz)
Clamp(t, tz) == IF Before(t, Epoch(tz)) THEN Epoch(tz) ELSE t

\* A day and one of k seconds.
IsPair(a, k) ==
  a = <<a[1], a[2]>> /\ a[1] \in Int /\ a[2] \in Int /\ 0 <= a[2] /\ a[2] < k

\* The parts of such a pair.
LEMMA PairParts ==
  ASSUME NEW k \in Int, NEW a \in Int \X (0..(k - 1))
  PROVE  IsPair(a, k)
BY DEF IsPair

\* The parts of a time.
LEMMA TimeParts ==
  ASSUME NEW a \in Moments
  PROVE  a = <<a[1], a[2]>> /\ a[1] \in Int /\ a[2] \in Int /\ 0 <= a[2] /\ a[2] < 86400
<1>1. SecInDay = 86400
  BY ONLY DEF SecInDay
<1>2. SecInDay \in Int
  BY ONLY DEF SecInDay
<1>3. a \in Int \X (0..(SecInDay - 1))
  BY ONLY a \in Moments DEF Moments
<1>4. IsPair(a, SecInDay)
  BY ONLY <1>2, <1>3, PairParts
<1> QED
  BY ONLY <1>1, <1>4 DEF IsPair

\* The second that a time stands for.
Second(t) == t[1] * SecInDay + t[2]

\* Time() is in its normal form, and stands for the same second.
LEMMA TimeValue ==
  ASSUME NEW d \in Int, NEW s \in Int
  PROVE  Time(d, s) \in Moments /\ Second(Time(d, s)) = d * SecInDay + s
<1>1. SecInDay = 86400
  BY DEF SecInDay
<1>2. Time(d, s) = <<d + s \div 86400, s % 86400>>
  BY <1>1 DEF Time
<1>3. PICK q \in Int, y \in Int :
        q = s \div 86400 /\ y = s % 86400 /\ 0 <= y /\ y <= 86399 /\ s = 86400 * q + y
  OBVIOUS
<1>4. PICK x \in Int : x = d + q
  OBVIOUS
<1>5. Time(d, s) = <<x, y>>
  <2>1. Time(d, s) = <<d + q, y>>
    BY ONLY <1>2, <1>3
  <2> QED
    BY ONLY <1>4, <2>1, Zenon
<1>6. Time(d, s) \in Moments
  <2>1. y \in 0..(SecInDay - 1)
    <3>1. \A k \in Int : y < k => y \in 0..(k - 1)
      BY ONLY <1>3, y \in Int
    <3>2. SecInDay \in Int /\ y < SecInDay
      BY ONLY <1>1, <1>3, y \in Int
    <3> QED
      BY ONLY <3>1, <3>2
  <2>2. <<x, y>> \in Moments
    BY ONLY <2>1, x \in Int DEF Moments
  <2> QED
    BY ONLY <1>5, <2>2
<1>7. Second(Time(d, s)) = x * 86400 + y
  BY ONLY <1>1, <1>5 DEF Second
<1>8. x * 86400 + y = d * 86400 + s
  BY ONLY <1>3, <1>4, d \in Int, s \in Int, q \in Int, y \in Int
<1> QED
  BY ONLY <1>1, <1>6, <1>7, <1>8

\* A time is determined by its second, and Before() compares the seconds.
LEMMA TimeUnique ==
  ASSUME NEW a \in Moments, NEW b \in Moments
  PROVE  /\ Second(a) \in Int /\ Second(b) \in Int
         /\ Second(a) = Second(b) => a = b
         /\ Before(a, b) <=> Second(a) < Second(b)
<1>1. a = <<a[1], a[2]>> /\ a[1] \in Int /\ a[2] \in Int /\ 0 <= a[2] /\ a[2] < 86400
  BY TimeParts
<1>2. b = <<b[1], b[2]>> /\ b[1] \in Int /\ b[2] \in Int /\ 0 <= b[2] /\ b[2] < 86400
  BY TimeParts
<1>3. Second(a) = Second(b) => a[1] = b[1] /\ a[2] = b[2]
  <2>1. \A p, q, x, y \in Int :
          0 <= q /\ q < 86400 /\ 0 <= y /\ y < 86400 /\ p * 86400 + q = x * 86400 + y
            => p = x /\ q = y
    OBVIOUS
  <2> QED
    BY <1>1, <1>2, <2>1, SMT DEF Second, SecInDay
<1>4. Before(a, b) <=> Second(a) < Second(b)
  BY <1>1, <1>2, SMT DEF Second, SecInDay, Before
<1>5. Second(a) \in Int /\ Second(b) \in Int
  BY <1>1, <1>2, SMT DEF Second, SecInDay
<1> QED
  BY <1>1, <1>2, <1>3, <1>4, <1>5

\* The day of the year that day d since 1980 is.
LEMMA YearDay ==
  ASSUME NEW d \in Nat
  PROVE  LET year == (4 * d) \div (4 * 365 + 1) IN
         /\ year \in Nat
         /\ d - (year * 365 + LEAP_YEARS(year)) \in Nat
         /\ d < 46752 => year < 128
  BY DEF LEAP_YEARS

\* Months: exfat_unix2exfat() finds the one that day days of a year is in.
MonthFits(year, days, i) ==
  \/ i = 12
  \/ days - LeapSub(year, i)
       < days_in_year[i + 1] + (IF IS_LEAP_YEAR(year) /\ i = 2 THEN 1 ELSE 0)

MonthOf(year, days) ==
  CHOOSE i \in 1..12 : MonthFits(year, days, i) /\ \A j \in 1..(i - 1) : ~MonthFits(year, days, j)

\* There is such a month, and it begins before that day or on it.
LEMMA MonthFound ==
  ASSUME NEW year \in Nat, NEW days \in Nat
  PROVE  /\ MonthOf(year, days) \in 1..12
         /\ days_in_year[MonthOf(year, days)] + LeapSub(year, MonthOf(year, days)) \in Nat
         /\ days >= days_in_year[MonthOf(year, days)] + LeapSub(year, MonthOf(year, days))
<1> DEFINE F(i) == MonthFits(year, days, i)
           m == MonthOf(year, days)
<1>1. F(12)
  BY DEF MonthFits
<1> HIDE DEF F
<1>2. \E i \in 1..12 : F(i) /\ \A j \in 1..(i - 1) : ~F(j)
  <2>1. \A i \in 1..12 : i = 1 \/ i = 2 \/ i = 3 \/ i = 4 \/ i = 5 \/ i = 6 \/ i = 7
          \/ i = 8 \/ i = 9 \/ i = 10 \/ i = 11 \/ i = 12
    OBVIOUS
  <2> QED
    BY <1>1, <2>1
<1>3. m \in 1..12 /\ F(m) /\ \A j \in 1..(m - 1) : ~F(j)
  BY <1>2 DEF MonthOf, F
<1> HIDE DEF m
<1>4. /\ days_in_year[1] = 0
      /\ \A i \in 1..12 : days_in_year[i] \in Nat
  BY DEF days_in_year
<1>5. LeapSub(year, m) \in 0..1
  BY DEF LeapSub
<1>6. CASE m = 1
  BY <1>4, <1>6 DEF LeapSub, m
<1>7. CASE m # 1
  <2>1. m - 1 \in 1..(m - 1) /\ m - 1 \in 1..11 /\ (m - 1) + 1 = m
    BY <1>3, <1>7
  <2>2. ~F(m - 1)
    BY <1>3, <2>1
  <2>3. days - LeapSub(year, m - 1)
          >= days_in_year[m] + (IF IS_LEAP_YEAR(year) /\ m - 1 = 2 THEN 1 ELSE 0)
    <3>1. LeapSub(year, m - 1) \in 0..1
      BY DEF LeapSub
    <3> QED
      BY <1>3, <1>4, <2>1, <2>2, <3>1 DEF F, MonthFits
  <2> QED
    BY <1>3, <1>4, <1>5, <2>1, <2>3 DEF LeapSub, m
<1> QED
  BY <1>6, <1>7

-----------------------------------------------------------------------------
(* The fields of a time stamp *)

\* The fields that exfat_unix2exfat() makes of u, the time since 1980.
Fields(u, tz) ==
  LET year == (4 * u[1]) \div (4 * 365 + 1)
      days == u[1] - (year * 365 + LEAP_YEARS(year))
      month == MonthOf(year, days)
  IN  [day |-> days - (days_in_year[month] + LeapSub(year, month)) + 1,
       month |-> month, year |-> year % 128,
       hour |-> u[2] \div 3600, min |-> (u[2] % 3600) \div 60, twosec |-> (u[2] % 60) \div 2,
       centisec |-> (u[2] % 2) * 100,
       tzoffset |-> 128 + (Quot(Quot(-tz, 60), 15) % 128)]

Since1980(t, tz) ==
  IF Before(t, Epoch(tz)) THEN <<0, 0>>
  ELSE Time(t[1] - Epoch(tz)[1], t[2] - Epoch(tz)[2])

\* exfat_unix2exfat() is the two steps.
LEMMA FieldsMade ==
  ASSUME NEW t, NEW tz
  PROVE  exfat_unix2exfat(t, tz) = Fields(Since1980(t, tz), tz)
  BY DEF exfat_unix2exfat, Fields, Since1980, Epoch, MonthOf, MonthFits

\* Quotient and remainder by the numbers that hours, minutes and the units
\* of two seconds have.
LEMMA Euclid ==
  ASSUME NEW s \in Nat
  PROVE  /\ \E q \in Nat, r \in Nat : s \div 3600 = q /\ s % 3600 = r /\ r < 3600 /\ s = 3600 * q + r
         /\ \E q \in Nat, r \in Nat : s \div 60 = q /\ s % 60 = r /\ r < 60 /\ s = 60 * q + r
         /\ \E q \in Nat, r \in Nat : s \div 2 = q /\ s % 2 = r /\ r < 2 /\ s = 2 * q + r
  OBVIOUS

\* Bit fields of hours, minutes, seconds and odd seconds hold the second of
\* the day.
LEMMA SecondsKept ==
  ASSUME NEW s \in Nat, s < 86400
  PROVE  /\ s \div 3600 \in 0..23 /\ (s % 3600) \div 60 \in 0..59
         /\ (s % 60) \div 2 \in 0..29 /\ (s % 2) * 100 \in 0..199
         /\ (s \div 3600) * 3600 + ((s % 3600) \div 60) * 60 + ((s % 60) \div 2) * 2
              + ((s % 2) * 100) \div 100 = s
<1>1. PICK h \in Nat, r \in Nat : s \div 3600 = h /\ s % 3600 = r /\ r < 3600 /\ s = 3600 * h + r
  BY Euclid
<1>2. PICK m \in Nat, k \in Nat : r \div 60 = m /\ r % 60 = k /\ k < 60 /\ r = 60 * m + k
  BY Euclid
<1>3. PICK a \in Nat, c \in Nat : s \div 60 = a /\ s % 60 = c /\ c < 60 /\ s = 60 * a + c
  BY Euclid
<1>4. PICK e \in Nat, f \in Nat : c \div 2 = e /\ c % 2 = f /\ f < 2 /\ c = 2 * e + f
  BY Euclid
<1>5. PICK g \in Nat, b \in Nat : s \div 2 = g /\ s % 2 = b /\ b < 2 /\ s = 2 * g + b
  BY Euclid
<1>6. c = k
  <2>1. 3600 * h + (60 * m + k) = 60 * a + c
    BY ONLY <1>1, <1>2, <1>3
  <2> QED
    BY ONLY <1>2, <1>3, <2>1, h \in Nat, m \in Nat, a \in Nat, c \in Nat, k \in Nat
<1>7. b = f
  <2>1. 60 * a + (2 * e + f) = 2 * g + b
    BY ONLY <1>3, <1>4, <1>5
  <2> QED
    BY ONLY <1>4, <1>5, <2>1, a \in Nat, e \in Nat, f \in Nat, g \in Nat, b \in Nat
<1>8. (b * 100) \div 100 = b /\ b * 100 \in 0..199
  BY <1>5
<1>9. h < 24 /\ m < 60 /\ e < 30
  BY ONLY <1>1, <1>2, <1>3, <1>4, s < 86400, s \in Nat, h \in Nat, r \in Nat, m \in Nat,
          k \in Nat, c \in Nat, e \in Nat, f \in Nat
<1>10. h * 3600 + m * 60 + e * 2 + b = s
  BY ONLY <1>1, <1>2, <1>4, <1>6, <1>7, h \in Nat, m \in Nat, e \in Nat, f \in Nat, k \in Nat
<1> QED
  BY <1>1, <1>2, <1>3, <1>4, <1>5, <1>8, <1>9, <1>10

\* tzoffset holds a zone.
LEMMA ZoneKept ==
  ASSUME NEW tz, Zone(tz)
  PROVE  LET o == 128 + (Quot(Quot(-tz, 60), 15) % 128) IN
         o \in 128..255 /\ TzSeconds(o) = -tz
<1>1. tz \in Int /\ tz % 900 = 0 /\ -56700 <= tz /\ tz <= 57600
  BY DEF Zone
<1>2. PICK n \in Int : tz = 900 * n
  <2>1. tz = 900 * (tz \div 900) + (tz % 900) /\ tz \div 900 \in Int
    BY <1>1
  <2> QED
    BY <1>1, <2>1
<1>3. n \in -63..64
  BY <1>1, <1>2
<1>4. Quot(-tz, 60) = -(15 * n)
  <2>1. CASE n > 0
    <3>1. -tz < 0 /\ (-(-tz)) = 60 * (15 * n)
      BY <1>2, <2>1
    <3>2. (60 * (15 * n)) \div 60 = 15 * n
      OBVIOUS
    <3> QED
      BY <3>1, <3>2 DEF Quot
  <2>2. CASE ~(n > 0)
    <3>1. ~(-tz < 0) /\ -tz = 60 * (-(15 * n))
      BY <1>2, <2>2
    <3>2. (60 * (-(15 * n))) \div 60 = -(15 * n)
      OBVIOUS
    <3> QED
      BY <3>1, <3>2 DEF Quot
  <2> QED
    BY <2>1, <2>2
<1>5. Quot(-(15 * n), 15) = -n
  BY DEF Quot
<1>6. (-n) % 128 \in 0..127 /\ ((-n) % 128 = -n \/ (-n) % 128 = 128 - n)
  BY <1>3
<1>7. (128 + ((-n) % 128)) % 128 = (-n) % 128
  BY <1>6
<1>8. (IF (-n) % 128 >= 64 THEN ((-n) % 128) - 128 ELSE (-n) % 128) = -n
  BY <1>3, <1>6
<1> QED
  BY <1>2, <1>4, <1>5, <1>6, <1>7, <1>8 DEF TzSeconds

\* The fields are read as the time that they were made from, in any zone.
LEMMA FieldsRead ==
  ASSUME NEW d \in Nat, d < 46752, NEW s \in Nat, s < 86400,
         NEW tz, Zone(tz), NEW z
  PROVE  exfat_exfat2unix(Fields(<<d, s>>, tz), z) = Time(EpochDiffDays + d, s + tz)
<1> DEFINE year == (4 * d) \div (4 * 365 + 1)
           days == d - (year * 365 + LEAP_YEARS(year))
           month == MonthOf(year, days)
           start == days_in_year[month] + LeapSub(year, month)
           o == 128 + (Quot(Quot(-tz, 60), 15) % 128)
           e == Fields(<<d, s>>, tz)
<1>1. year \in Nat /\ days \in Nat /\ year < 128
  BY YearDay
<1>2. month \in 1..12 /\ start \in Nat /\ days >= start
  <2> HIDE DEF year, days
  <2> QED
    BY <1>1, MonthFound
<1>3. o \in 128..255 /\ TzSeconds(o) = -tz
  BY ZoneKept
<1>4. tz \in Int
  BY DEF Zone
<1>5. /\ e.day = days - start + 1 /\ e.month = month /\ e.year = year % 128
      /\ e.hour = s \div 3600 /\ e.min = (s % 3600) \div 60 /\ e.twosec = (s % 60) \div 2
      /\ e.centisec = (s % 2) * 100 /\ e.tzoffset = o
  <2>1. <<d, s>>[1] = d /\ <<d, s>>[2] = s
    OBVIOUS
  <2> QED
    BY ONLY <2>1 DEF Fields, e, o, start, month, days, year
<1>6. LEAP_YEARS(year) \in Int /\ EpochDiffDays \in Int
      /\ days_in_year[month] \in Int /\ LeapSub(year, month) \in Int
  <2>1. \A i \in 1..12 : days_in_year[i] \in Int
    BY DEF days_in_year
  <2> HIDE DEF year, days, month
  <2> QED
    BY <1>1, <1>2, <2>1 DEF LEAP_YEARS, EpochDiffDays, LeapSub
<1>7. days = d - (year * 365 + LEAP_YEARS(year))
      /\ start = days_in_year[month] + LeapSub(year, month)
  OBVIOUS
<1> HIDE DEF e, o, start, month, days, year
<1>8. e.year = year
  BY <1>1, <1>5
<1>9. /\ s \div 3600 \in 0..23 /\ (s % 3600) \div 60 \in 0..59
      /\ (s % 60) \div 2 \in 0..29 /\ (s % 2) * 100 \in 0..199
      /\ (s \div 3600) * 3600 + ((s % 3600) \div 60) * 60 + ((s % 60) \div 2) * 2
           + ((s % 2) * 100) \div 100 = s
  BY SecondsKept
<1>10. ~(\/ e.day = 0 \/ e.month \notin 1..12
         \/ e.hour > 23 \/ e.min > 59 \/ e.twosec > 29 \/ e.centisec > 199)
  <2>1. days - start + 1 # 0
    BY <1>1, <1>2
  <2>2. e.hour \in 0..23 /\ e.min \in 0..59 /\ e.twosec \in 0..29 /\ e.centisec \in 0..199
    BY ONLY <1>5, <1>9
  <2> QED
    BY ONLY <1>2, <1>5, <2>1, <2>2
<1>11. exfat_exfat2unix(e, z)
         = Time(EpochDiffDays + e.year * 365 + LEAP_YEARS(e.year)
                  + days_in_year[e.month] + LeapSub(e.year, e.month) + e.day - 1,
                e.hour * 3600 + e.min * 60 + e.twosec * 2 + e.centisec \div 100
                  + (IF e.tzoffset >= 128 THEN -TzSeconds(e.tzoffset) ELSE z))
  BY ONLY <1>10 DEF exfat_exfat2unix
<1>12. EpochDiffDays + e.year * 365 + LEAP_YEARS(e.year)
         + days_in_year[e.month] + LeapSub(e.year, e.month) + e.day - 1 = EpochDiffDays + d
  <2>1. EpochDiffDays + year * 365 + LEAP_YEARS(year)
         + days_in_year[month] + LeapSub(year, month) + (days - start + 1) - 1 = EpochDiffDays + d
    BY ONLY <1>1, <1>2, <1>6, <1>7, d \in Nat
  <2> QED
    BY ONLY <1>5, <1>8, <2>1
<1>13. (IF e.tzoffset >= 128 THEN -TzSeconds(e.tzoffset) ELSE z) = tz
  <2>1. e.tzoffset >= 128
    BY <1>3, <1>5
  <2>2. -TzSeconds(e.tzoffset) = tz
    BY <1>3, <1>4, <1>5
  <2> QED
    BY <2>1, <2>2
<1>14. e.hour * 3600 + e.min * 60 + e.twosec * 2 + e.centisec \div 100 = s
  BY ONLY <1>5, <1>9
<1> QED
  BY ONLY <1>11, <1>12, <1>13, <1>14 DEF e

\* The first time of exFAT in a zone.
LEMMA EpochTime ==
  ASSUME NEW tz, Zone(tz)
  PROVE  Epoch(tz) \in Moments /\ Second(Epoch(tz)) = 3652 * 86400 + tz /\ EpochDiffDays = 3652
<1>1. tz \in Int /\ EpochDiffDays = 3652
  BY DEF Zone, EpochDiffDays
<1>2. EpochDiffDays \in Int /\ tz \in Int
  BY <1>1
<1>3. Epoch(tz) \in Moments /\ Second(Epoch(tz)) = EpochDiffDays * SecInDay + tz
  BY ONLY <1>2, TimeValue, Zenon DEF Epoch
<1> QED
  BY <1>1, <1>3, SMT DEF SecInDay

\* A time that is written in one zone is read as that time in every zone, or
\* as the first of 1980 if it is before that.
LEMMA RoundTrip ==
  ASSUME NEW t, Small(t), NEW tz, Zone(tz), NEW z
  PROVE  exfat_exfat2unix(exfat_unix2exfat(t, tz), z) = Clamp(t, tz)
<1>1. t \in Moments /\ <<24855, 11648>> \in Moments /\ tz \in Int
      /\ -56700 <= tz /\ tz <= 57600
  <2>1. \A x \in Int, y \in 0..(SecInDay - 1) : <<x, y>> \in Moments
    BY DEF Moments
  <2>2. SecInDay - 1 = 86399
    BY DEF SecInDay
  <2> QED
    BY <2>1, <2>2 DEF Small, Zone
<1>2. Second(t) \in Int /\ Second(t) < 24855 * 86400 + 11648
  <2>1. Second(<<24855, 11648>>) = 24855 * 86400 + 11648
    BY SMT DEF Second, SecInDay
  <2> QED
    BY <1>1, <2>1, TimeUnique DEF Small
<1>3. Epoch(tz) \in Moments /\ Second(Epoch(tz)) = 3652 * 86400 + tz /\ EpochDiffDays = 3652
  BY EpochTime
<1>4. CASE Before(t, Epoch(tz))
  <2>1. exfat_unix2exfat(t, tz) = Fields(<<0, 0>>, tz)
    BY <1>4, FieldsMade DEF Since1980
  <2>2. exfat_exfat2unix(Fields(<<0, 0>>, tz), z) = Time(EpochDiffDays + 0, 0 + tz)
    BY FieldsRead
  <2>3. EpochDiffDays + 0 = EpochDiffDays /\ 0 + tz = tz
    BY <1>1, <1>3
  <2> QED
    BY <1>4, <2>1, <2>2, <2>3 DEF Clamp, Epoch
<1>5. CASE ~Before(t, Epoch(tz))
  <2> DEFINE p == Epoch(tz)
             u == Time(t[1] - p[1], t[2] - p[2])
  <2>1. /\ t[1] \in Int /\ t[2] \in Int /\ p[1] \in Int /\ p[2] \in Int
        /\ Second(t) = t[1] * 86400 + t[2] /\ Second(p) = p[1] * 86400 + p[2]
    BY <1>1, <1>3, TimeParts, SMT DEF Second, SecInDay
  <2>2. Second(t) >= Second(p)
    BY <1>1, <1>2, <1>3, <1>5, <2>1, TimeUnique
  <2> HIDE DEF p
  <2>3. u \in Moments /\ Second(u) = Second(t) - Second(p)
    <3>1. t[1] - p[1] \in Int /\ t[2] - p[2] \in Int
      BY <2>1
    <3>2. u \in Moments /\ Second(u) = (t[1] - p[1]) * SecInDay + (t[2] - p[2])
      BY <3>1, TimeValue, Zenon DEF u
    <3> HIDE DEF u
    <3> QED
      BY <2>1, <3>2, SMT DEF SecInDay
  <2>4. exfat_unix2exfat(t, tz) = Fields(u, tz)
    BY <1>5, FieldsMade DEF Since1980, p
  <2> HIDE DEF u
  <2>5. PICK d \in Int, s \in Int : u = <<d, s>> /\ 0 <= s /\ s < 86400 /\ Second(u) = d * 86400 + s
    BY <2>3, TimeParts, SMT DEF Second, SecInDay
  <2>6. d * 86400 + s = Second(t) - 3652 * 86400 - tz
    BY <1>2, <1>1, <1>3, <2>3, <2>5 DEF p
  <2>7. 0 <= d * 86400 + s
    BY <1>1, <1>2, <1>3, <2>2, <2>6 DEF p
  <2>8. d \in Nat /\ d < 46752 /\ s \in Nat
    BY ONLY <1>1, <1>2, <2>5, <2>6, <2>7, d \in Int, s \in Int
  <2> DEFINE day == EpochDiffDays + d
             sec == s + tz
  <2>9. exfat_exfat2unix(Fields(u, tz), z) = Time(day, sec)
    BY <1>3, <2>5, <2>8, FieldsRead
  <2>10. Time(day, sec) \in Moments
         /\ Second(Time(day, sec)) = day * SecInDay + sec
    <3>1. day \in Int /\ sec \in Int
      BY <1>1, <1>3, <2>8
    <3> HIDE DEF day, sec
    <3> QED
      BY ONLY <3>1, TimeValue, Zenon
  <2>11. Second(Time(day, sec)) = Second(t)
    BY <1>1, <1>2, <1>3, <2>6, <2>8, <2>10, SMT DEF SecInDay
  <2> QED
    BY <1>1, <1>5, <2>4, <2>9, <2>10, <2>11, TimeUnique DEF Clamp
<1> QED
  BY <1>4, <1>5

-----------------------------------------------------------------------------
(* The calendar *)

LeapYear(y) == y % 4 = 0 /\ (y % 100 # 0 \/ y % 400 = 0)
MonthLength(y) == [i \in 1..12 |-> IF i = 2 THEN (IF LeapYear(y) THEN 29 ELSE 28)
                                   ELSE IF i \in {4, 6, 9, 11} THEN 30 ELSE 31]
MonthStarts(y) ==
  CHOOSE f : f = [i \in 1..13 |-> IF i = 1 THEN 0 ELSE f[i - 1] + MonthLength(y)[i - 1]]
LeapDays(y) == y \div 4 - y \div 100 + y \div 400

\* The parts of Civil().
LEMMA CivilParts ==
  ASSUME NEW y, NEW m, NEW d
  PROVE  Civil(y, m, d)
           = (y - 1970) * 365 + LeapDays(y - 1) - LeapDays(1969) + MonthStarts(y)[m] + d - 1
  BY DEF Civil, LeapYear, MonthLength, MonthStarts, LeapDays

\* The days before a month are those of days_in_year, and the leap day.
LEMMA MonthStart ==
  ASSUME NEW y \in Int, NEW m \in 1..12
  PROVE  MonthStarts(y)[m] = days_in_year[m] + (IF LeapYear(y) /\ m >= 3 THEN 1 ELSE 0)
<1> DEFINE l == IF LeapYear(y) THEN 1 ELSE 0
           len == MonthLength(y)
           Rec(f) == [i \in 1..13 |-> IF i = 1 THEN 0 ELSE f[i - 1] + len[i - 1]]
           g == [i \in 1..13 |-> IF i = 13 THEN 365 + l
                                 ELSE days_in_year[i] + (IF i >= 3 THEN l ELSE 0)]
           b == MonthStarts(y)
<1>1. l \in 0..1
  OBVIOUS
<1>2. /\ len[1] = 31 /\ len[2] = 28 + l /\ len[3] = 31 /\ len[4] = 30 /\ len[5] = 31
      /\ len[6] = 30 /\ len[7] = 31 /\ len[8] = 31 /\ len[9] = 30 /\ len[10] = 31
      /\ len[11] = 30 /\ len[12] = 31
  BY DEF MonthLength
<1> HIDE DEF l, len
<1>3. \A i \in 1..13 : i = 1 \/ i = 2 \/ i = 3 \/ i = 4 \/ i = 5 \/ i = 6 \/ i = 7
          \/ i = 8 \/ i = 9 \/ i = 10 \/ i = 11 \/ i = 12 \/ i = 13
  OBVIOUS
<1>4. \A i \in 1..13 : g[i] = IF i = 1 THEN 0 ELSE g[i - 1] + len[i - 1]
  <2>1. /\ g[1] = 0 /\ g[2] = 31 /\ g[3] = 59 + l /\ g[4] = 90 + l /\ g[5] = 120 + l
        /\ g[6] = 151 + l /\ g[7] = 181 + l /\ g[8] = 212 + l /\ g[9] = 243 + l
        /\ g[10] = 273 + l /\ g[11] = 304 + l /\ g[12] = 334 + l /\ g[13] = 365 + l
    BY <1>1 DEF days_in_year
  <2> HIDE DEF g
  <2> QED
    BY <1>1, <1>2, <1>3, <2>1
<1>5. g = Rec(g)
  BY <1>4
<1>6. b = Rec(b)
  BY <1>5 DEF MonthStarts, len
<1>7. \A i \in 1..13 : b[i] = IF i = 1 THEN 0 ELSE b[i - 1] + len[i - 1]
  BY <1>6
<1> HIDE DEF b
<1>8. /\ b[1] = 0 /\ b[2] = b[1] + len[1] /\ b[3] = b[2] + len[2] /\ b[4] = b[3] + len[3]
      /\ b[5] = b[4] + len[4] /\ b[6] = b[5] + len[5] /\ b[7] = b[6] + len[6]
      /\ b[8] = b[7] + len[7] /\ b[9] = b[8] + len[8] /\ b[10] = b[9] + len[9]
      /\ b[11] = b[10] + len[10] /\ b[12] = b[11] + len[11]
  BY <1>7
<1>9. /\ b[1] = 0 /\ b[2] = 31 /\ b[3] = 59 + l /\ b[4] = 90 + l /\ b[5] = 120 + l
      /\ b[6] = 151 + l /\ b[7] = 181 + l /\ b[8] = 212 + l /\ b[9] = 243 + l
      /\ b[10] = 273 + l /\ b[11] = 304 + l /\ b[12] = 334 + l
  BY ONLY <1>1, <1>2, <1>8
<1>10. \A i \in 1..12 : b[i] = days_in_year[i] + (IF i >= 3 THEN l ELSE 0)
  BY <1>1, <1>3, <1>9 DEF days_in_year
<1>11. CASE LeapYear(y)
  BY <1>10, <1>11 DEF b, l
<1>12. CASE ~LeapYear(y)
  BY <1>10, <1>12 DEF b, l
<1> QED
  BY <1>11, <1>12

\* The day that exfat_exfat2unix() computes.
CodeDay(y, m, d) ==
  EpochDiffDays + y * 365 + LEAP_YEARS(y) + days_in_year[m] + LeapSub(y, m) + d - 1

\* Until February 2100 the days that the code counts are the calendar's.
LEMMA CalendarDay ==
  ASSUME NEW y \in Nat, NEW m \in 1..12, NEW d \in Int, y < 120 \/ (y = 120 /\ m <= 2)
  PROVE  Civil(1980 + y, m, d) = CodeDay(y, m, d)
<1>1. MonthStarts(1980 + y)[m]
        = days_in_year[m] + (IF LeapYear(1980 + y) /\ m >= 3 THEN 1 ELSE 0)
  BY MonthStart
<1>2. (IF LeapYear(1980 + y) /\ m >= 3 THEN 1 ELSE 0) = LeapSub(y, m)
  BY DEF LeapYear, LeapSub, IS_LEAP_YEAR
<1>3. LeapDays(1980 + y - 1) - LeapDays(1969) = 2 + LEAP_YEARS(y)
  BY DEF LeapDays, LEAP_YEARS
<1>4. days_in_year[m] \in Int /\ LeapSub(y, m) \in Int /\ LEAP_YEARS(y) \in Int
      /\ LeapDays(1980 + y - 1) \in Int /\ LeapDays(1969) \in Int
  BY DEF days_in_year, LeapSub, LEAP_YEARS, LeapDays
<1>5. EpochDiffDays = 3652
  BY DEF EpochDiffDays
<1>6. Civil(1980 + y, m, d) = ((1980 + y) - 1970) * 365 + LeapDays((1980 + y) - 1) - LeapDays(1969)
                                + MonthStarts(1980 + y)[m] + d - 1
  BY CivilParts
<1> QED
  BY <1>1, <1>2, <1>3, <1>4, <1>5, <1>6 DEF CodeDay

\* A time that begins a day, in Greenwich.
LEMMA DayFields ==
  ASSUME NEW d \in Nat
  PROVE  /\ EpochDiffDays = 3652 /\ Time(3652 + d, 0) = <<3652 + d, 0>>
         /\ exfat_unix2exfat(<<3652 + d, 0>>, 0) = Fields(<<d, 0>>, 0)
<1>1. \A x \in Int : Time(x, 0) = <<x, 0>>
  BY SMT DEF Time, SecInDay
<1>2. EpochDiffDays = 3652 /\ Epoch(0) = <<3652, 0>>
  BY <1>1, SMT DEF Epoch, EpochDiffDays
<1>3. Since1980(<<3652 + d, 0>>, 0) = <<d, 0>>
  <2>1. ~Before(<<3652 + d, 0>>, <<3652, 0>>)
    BY SMT DEF Before
  <2>2. Since1980(<<3652 + d, 0>>, 0) = Time((3652 + d) - 3652, 0 - 0)
    BY <1>2, <2>1, SMT DEF Since1980
  <2>3. (3652 + d) - 3652 = d /\ 0 - 0 = 0
    BY SMT
  <2> QED
    BY <1>1, <2>2, <2>3, SMT
<1> QED
  BY <1>1, <1>2, <1>3, FieldsMade, SMT

DateKept(x, last) ==
  LET e == exfat_unix2exfat(<<x, 0>>, 0) IN
  /\ x <= last => Civil(1980 + e.year, e.month, e.day) = x
  /\ exfat_exfat2unix(e, 0) = <<x, 0>>

\* The fields that exfat_unix2exfat() makes of a day are the date of the
\* calendar up to February 2100, and up to the end of 2107 exfat_exfat2unix()
\* makes of them the day that they were made from.
THEOREM CalendarExact == CalendarRight
<1>1. Civil(2108, 1, 1) = 50403
  <2>1. MonthStarts(2108)[1] = 0
    BY MonthStart, SMT DEF days_in_year
  <2> QED
    BY <2>1, CivilParts, SMT DEF LeapDays
<1>2. Civil(2100, 2, 28) = 47540
  <2>1. Civil(1980 + 120, 2, 28) = CodeDay(120, 2, 28)
    BY CalendarDay, SMT
  <2> QED
    BY <2>1, SMT DEF CodeDay, EpochDiffDays, LEAP_YEARS, days_in_year, LeapSub
<1>3. EpochDiffDays = 3652
  BY SMT DEF EpochDiffDays
<1>4. ASSUME NEW x \in Int, 3652 <= x, x <= 50402
      PROVE  DateKept(x, 47540)
  <2>1. PICK d \in Nat : x = 3652 + d /\ d < 46752
    BY <1>4, SMT
  <2> DEFINE e == Fields(<<d, 0>>, 0)
             year == (4 * d) \div (4 * 365 + 1)
             days == d - (year * 365 + LEAP_YEARS(year))
             month == MonthOf(year, days)
             start == days_in_year[month] + LeapSub(year, month)
  <2>2. exfat_unix2exfat(<<x, 0>>, 0) = e /\ Time(3652 + d, 0) = <<x, 0>>
    BY <2>1, DayFields
  <2>3. exfat_exfat2unix(e, 0) = <<x, 0>>
    <3>1. Zone(0)
      BY SMT DEF Zone
    <3>2. exfat_exfat2unix(e, 0) = Time(3652 + d, 0 + 0)
      BY <1>3, <2>1, <3>1, FieldsRead, SMT
    <3> QED
      BY <2>2, <3>2, SMT
  <2>4. ASSUME x <= 47540
        PROVE  Civil(1980 + e.year, e.month, e.day) = x
    <3>1. e.day = days - start + 1 /\ e.month = month /\ e.year = year % 128
      BY SMT DEF Fields
    <3>2. year \in Nat /\ days \in Nat /\ year <= 120 /\ (year = 120 => days <= 58)
      BY <2>1, <2>4, SMT DEF LEAP_YEARS
    <3>3. month \in 1..12 /\ start \in Nat /\ days >= start
      <4> HIDE DEF year, days
      <4> QED
        BY <3>2, MonthFound
    <3>4. year = 120 => month <= 2
      <4>1. CASE year # 120
        BY <4>1
      <4>2. CASE year = 120
        <5>1. days_in_year[3] = 59 /\ days_in_year[4] = 90 /\ days_in_year[5] = 120
              /\ days_in_year[6] = 151 /\ days_in_year[7] = 181 /\ days_in_year[8] = 212
              /\ days_in_year[9] = 243 /\ days_in_year[10] = 273 /\ days_in_year[11] = 304
              /\ days_in_year[12] = 334
          BY DEF days_in_year
        <5>2. LeapSub(year, month) \in 0..1
          BY DEF LeapSub
        <5> HIDE DEF year, days, month
        <5>3. days_in_year[month] <= 58
          BY <3>2, <3>3, <4>2, <5>2, SMT DEF days_in_year
        <5> QED
          BY <3>3, <5>1, <5>3, SMT
      <4> QED
        BY <4>1, <4>2
    <3>5. days = d - (year * 365 + LEAP_YEARS(year))
          /\ start = days_in_year[month] + LeapSub(year, month)
      OBVIOUS
    <3> HIDE DEF e, start, month, days, year
    <3>6. e.year = year
      BY <3>1, <3>2, SMT
    <3>7. days - start + 1 \in Int
      BY <3>2, <3>3, SMT
    <3>8. Civil(1980 + year, month, days - start + 1) = CodeDay(year, month, days - start + 1)
      <4> DEFINE d1 == days - start + 1
      <4>1. d1 \in Int /\ (year < 120 \/ (year = 120 /\ month <= 2)) /\ month \in 1..12 /\ year \in Nat
        BY <3>2, <3>3, <3>4, <3>7, SMT
      <4> HIDE DEF d1
      <4>2. Civil(1980 + year, month, d1) = CodeDay(year, month, d1)
        BY <4>1, CalendarDay, SMT
      <4> QED
        BY <4>2 DEF d1
    <3>9. LEAP_YEARS(year) \in Int /\ days_in_year[month] \in Int /\ LeapSub(year, month) \in Int
      BY <3>2, <3>3, SMT DEF LEAP_YEARS, days_in_year, LeapSub
    <3> QED
      BY <1>3, <2>1, <3>1, <3>2, <3>3, <3>5, <3>6, <3>8, <3>9, SMT DEF CodeDay
  <2> QED
    BY <2>2, <2>3, <2>4 DEF DateKept
<1>5. \A x \in EpochDiffDays..(Civil(2108, 1, 1) - 1) : x \in Int /\ EpochDiffDays <= x
  BY ONLY <1>1, <1>3, SMT
<1>6. \A x \in EpochDiffDays..(Civil(2108, 1, 1) - 1) : x <= 50402
  BY ONLY <1>1, <1>3, SMT
<1>7. \A x \in EpochDiffDays..(Civil(2108, 1, 1) - 1) : DateKept(x, Civil(2100, 2, 28))
  <2>1. SUFFICES ASSUME NEW x \in EpochDiffDays..(Civil(2108, 1, 1) - 1)
                 PROVE  DateKept(x, Civil(2100, 2, 28))
    OBVIOUS
  <2>2. x \in Int /\ 3652 <= x /\ x <= 50402
    BY ONLY <1>3, <1>5, <1>6, x \in EpochDiffDays..(Civil(2108, 1, 1) - 1), SMT
  <2>3. DateKept(x, 47540)
    BY ONLY <1>4, <2>2, SMT
  <2> QED
    BY ONLY <1>2, <2>3, SMT
<1>8. CalendarRight <=>
        \A x \in EpochDiffDays..(Civil(2108, 1, 1) - 1) : DateKept(x, Civil(2100, 2, 28))
  BY ONLY SMT DEF CalendarRight, DateKept
<1> QED
  BY ONLY <1>7, <1>8, SMT

-----------------------------------------------------------------------------
(* The modification time *)

\* What the volume holds is what was meant, for every host, and the time that
\* a host has in memory would be written as what was meant.
TimeInv ==
  /\ host \in Hosts \cup {Off}
  /\ \A h \in Hosts : Small(Meaning(h)) /\ Load(h, disk) = Meaning(h)
  /\ host \in Hosts =>
       Small(mtime) /\ Clamp(mtime, host.tz) = Clamp(Meaning(host), host.tz)

\* Hosts and their zones.
LEMMA HostZone ==
  ASSUME TimesFit, NEW h \in Hosts
  PROVE  Zone(h.tz) /\ h # Off
<1>1. Zone(0)
  BY SMT DEF Zone
<1>2. CASE h = Amiga
  BY <1>1, <1>2 DEF Amiga, Off
<1>3. CASE h \in {Posix(z) : z \in Zones}
  <2>1. PICK z \in Zones : h = Posix(z)
    BY <1>3
  <2>2. h.tz = z /\ h.os = "posix"
    BY <2>1 DEF Posix
  <2>3. Off.os = "none"
    BY DEF Off
  <2> QED
    BY <2>2, <2>3 DEF TimesFit
<1> QED
  BY <1>2, <1>3 DEF Hosts

\* The first of 1980 is a time that a time_t of 32 bits has, and what is not
\* before it stays as it is.
LEMMA ClampKept ==
  ASSUME NEW t, Small(t), NEW tz, Zone(tz)
  PROVE  Small(Clamp(t, tz)) /\ Clamp(Clamp(t, tz), tz) = Clamp(t, tz)
<1>1. Epoch(tz) \in Moments /\ Second(Epoch(tz)) = 3652 * 86400 + tz
  BY EpochTime
<1>2. tz \in Int /\ tz <= 57600
  BY DEF Zone
<1>3. <<24855, 11648>> \in Moments
  <2>1. \A x \in Int, y \in 0..(SecInDay - 1) : <<x, y>> \in Moments
    BY DEF Moments
  <2>2. SecInDay - 1 = 86399
    BY SMT DEF SecInDay
  <2> QED
    BY <2>1, <2>2, SMT
<1>4. Second(<<24855, 11648>>) = 24855 * 86400 + 11648
  BY SMT DEF Second, SecInDay
<1>5. Second(Epoch(tz)) < Second(<<24855, 11648>>)
  BY <1>1, <1>2, <1>4, SMT
<1>6. Small(Epoch(tz))
  BY <1>1, <1>3, <1>5, TimeUnique DEF Small
<1>7. ~Before(Epoch(tz), Epoch(tz))
  BY <1>1, TimeUnique, SMT
<1> QED
  BY <1>6, <1>7 DEF Clamp

\* What a host writes, every host reads.
LEMMA WrittenRead ==
  ASSUME TimesFit, NEW g \in Hosts, NEW h \in Hosts, NEW t, Small(t)
  PROVE  Load(h, exfat_unix2exfat(t, g.tz)) = Clamp(t, g.tz)
<1>1. Zone(g.tz)
  BY HostZone
<1>2. exfat_exfat2unix(exfat_unix2exfat(t, g.tz), h.tz) = Clamp(t, g.tz)
  BY <1>1, RoundTrip
<1>3. Small(Clamp(t, g.tz))
  BY <1>1, ClampKept
<1>4. Wrap(Clamp(t, g.tz)) = Clamp(t, g.tz)
  BY <1>3 DEF Wrap, Small
<1> QED
  BY <1>2, <1>4 DEF Load

\* A flush keeps the invariant if the time that is meant becomes the one that
\* is written.
LEMMA FlushKeeps ==
  ASSUME TimesFit, host \in Hosts, NEW t, Small(t), Flush(t),
         meant' = [at |-> Clamp(t, host.tz), local |-> FALSE]
  PROVE  TimeInv'
<1>1. host' = host /\ mtime' = t /\ disk' = exfat_unix2exfat(t, host.tz)
  BY DEF Flush
<1>2. Small(Clamp(t, host.tz)) /\ Clamp(Clamp(t, host.tz), host.tz) = Clamp(t, host.tz)
  BY HostZone, ClampKept
<1>3. \A h : Meaning(h)' = Clamp(t, host.tz)
  BY DEF Meaning
<1>4. \A h \in Hosts : Load(h, disk') = Clamp(t, host.tz)
  BY <1>1, WrittenRead
<1> QED
  BY <1>1, <1>2, <1>3, <1>4 DEF TimeInv

\* The date that AmigaDOS is shown is set as that date; what is before 1978 is
\* shown as the first of 1978.
LEMMA DatestampKept ==
  ASSUME NEW t, Small(t)
  PROVE  LET ds == time_to_datestamp(t)
             w == Time(ds.days + DAYS_1970_TO_1978, ds.minute * 60 + ds.tick \div TicksPerSecond)
         IN  /\ w = (IF t[1] < 2922 THEN <<2922, 0>> ELSE t)
             /\ Small(w) /\ datestamp_to_time(ds) = w
<1> DEFINE ds == time_to_datestamp(t)
           w == Time(ds.days + DAYS_1970_TO_1978, ds.minute * 60 + ds.tick \div TicksPerSecond)
<1>1. t \in Moments /\ Before(t, <<24855, 11648>>)
  BY DEF Small
<1>2. PICK d \in Int, s \in Nat : t = <<d, s>> /\ t[1] = d /\ t[2] = s /\ s < 86400
  BY <1>1, TimeParts, SMT
<1>3. \A x \in Int, y \in Nat : y < 86400 => Time(x, y) = <<x, y>>
  BY SMT DEF Time, SecInDay
<1>4. w = (IF t[1] < 2922 THEN <<2922, 0>> ELSE t) /\ ds.days \in Nat
  <2>1. CASE d < 2922
    <3>1. ds.days = 0 /\ ds.minute = 0 /\ ds.tick = 0
      <4>1. CASE d < 0
        BY <1>2, <4>1, SMT DEF time_to_datestamp, DAYS_1970_TO_1978
      <4>2. CASE ~(d < 0)
        BY <1>2, <2>1, <4>2, SMT DEF time_to_datestamp, DAYS_1970_TO_1978
      <4> QED
        BY <4>1, <4>2
    <3> HIDE DEF ds
    <3>2. ds.days + DAYS_1970_TO_1978 = 2922 /\ ds.minute * 60 + ds.tick \div TicksPerSecond = 0
      BY <3>1, SMT DEF DAYS_1970_TO_1978, TicksPerSecond
    <3> QED
      BY <1>2, <1>3, <2>1, <3>1, <3>2, SMT
  <2>2. CASE ~(d < 2922)
    <3>1. ds.days = d - 2922 /\ ds.minute = s \div 60 /\ ds.tick = (s % 60) * 50
      BY <1>2, <2>2, SMT DEF time_to_datestamp, DAYS_1970_TO_1978, TicksPerSecond
    <3> HIDE DEF ds
    <3>2. PICK q \in Nat, r \in Nat : s \div 60 = q /\ s % 60 = r /\ r < 60 /\ s = 60 * q + r
      BY Euclid
    <3>3. (r * 50) \div 50 = r
      BY SMT
    <3>4. ds.days + DAYS_1970_TO_1978 = d /\ ds.minute * 60 + ds.tick \div TicksPerSecond = s
      BY <3>1, <3>2, <3>3, SMT DEF DAYS_1970_TO_1978, TicksPerSecond
    <3>5. Time(d, s) = <<d, s>>
      BY <1>2, <1>3, SMT
    <3> QED
      BY <1>2, <2>2, <3>1, <3>4, <3>5, SMT
  <2> QED
    BY <2>1, <2>2
<1>5. Small(w)
  <2> HIDE DEF w
  <2>1. CASE t[1] < 2922
    <3>1. \A x \in Int, y \in 0..(SecInDay - 1) : <<x, y>> \in Moments
      BY DEF Moments
    <3>2. <<2922, 0>> \in Moments
      <4>1. SecInDay - 1 = 86399
        BY SMT DEF SecInDay
      <4> QED
        BY <3>1, <4>1, SMT
    <3>3. Before(<<2922, 0>>, <<24855, 11648>>)
      BY SMT DEF Before
    <3> QED
      BY <1>4, <2>1, <3>2, <3>3, SMT DEF Small
  <2>2. CASE ~(t[1] < 2922)
    BY <1>4, <2>2
  <2> QED
    BY <2>1, <2>2
<1>6. datestamp_to_time(ds) = w
  <2>1. ~(ds.days < 0)
    BY <1>4, SMT
  <2>2. Wrap(w) = w
    BY <1>5 DEF Wrap, Small
  <2> HIDE DEF ds
  <2> QED
    BY <2>1, <2>2 DEF datestamp_to_time
<1> QED
  BY <1>4, <1>5, <1>6

\* A stamp of another system is read as what it means.
LEMMA StampRead ==
  ASSUME TimesFit, NEW f \in Foreign, NEW h \in Hosts
  PROVE  LET m == IF f[3] THEN Later(f[2], h.tz) ELSE f[2] IN
         Small(m) /\ Load(h, f[1]) = m
<1> DEFINE m == IF f[3] THEN Later(f[2], h.tz) ELSE f[2]
           e == f[1]
           sec == e.hour * 3600 + e.min * 60 + e.twosec * 2 + e.centisec \div 100
           day == Civil(1980 + e.year, e.month, e.day)
<1>1. StampMeans(e, f[2], f[3]) /\ Small(m)
  BY DEF TimesFit
<1>2. Dated(e) => exfat_exfat2unix(e, h.tz)
                    = Time(day, sec + (IF e.tzoffset >= 128 THEN -TzSeconds(e.tzoffset) ELSE h.tz))
  <2> HIDE DEF e
  <2>1. HAVE Dated(e)
  <2>2. ~(\/ e.day = 0 \/ e.month \notin 1..12
          \/ e.hour > 23 \/ e.min > 59 \/ e.twosec > 29 \/ e.centisec > 199)
    BY <2>1, SMT DEF Dated
  <2>3. day = CodeDay(e.year, e.month, e.day)
    <3> DEFINE a == e.year
               b == e.month
               c == e.day
    <3>1. a \in Nat /\ a < 120 /\ b \in 1..12 /\ c \in Int
      BY <2>1, SMT DEF Dated
    <3> HIDE DEF a, b, c
    <3>2. Civil(1980 + a, b, c) = CodeDay(a, b, c)
      BY ONLY <3>1, CalendarDay, SMT
    <3> QED
      BY ONLY <3>2 DEF day, a, b, c
  <2> QED
    BY ONLY <2>2, <2>3 DEF exfat_exfat2unix, CodeDay, sec
<1>3. LocalTime(e) = <<day, sec>> /\ \A x : Later(LocalTime(e), x) = Time(day, sec + x)
  BY DEF LocalTime, Later
<1>4. exfat_exfat2unix(e, h.tz) = m
  <2>1. CASE Dated(e) /\ e.tzoffset \in 0..127 /\ f[2] = LocalTime(e) /\ f[3] = TRUE
    <3>1. ~(e.tzoffset >= 128)
      BY <2>1, SMT
    <3> HIDE DEF e, sec, day
    <3> QED
      BY <1>2, <1>3, <2>1, <3>1
  <2>2. CASE /\ Dated(e) /\ f[3] = FALSE
             /\ \E q \in -64..63 : /\ e.tzoffset = 128 + (q % 128)
                                   /\ f[2] = Later(LocalTime(e), -(900 * q))
    <3> HIDE DEF e, sec, day
    <3>1. PICK q \in -64..63 : /\ e.tzoffset = 128 + (q % 128)
                               /\ f[2] = Later(LocalTime(e), -(900 * q))
      BY <2>2
    <3>2. q % 128 \in 0..127 /\ (q % 128 = q \/ q % 128 = 128 + q)
      BY SMT
    <3>3. (128 + (q % 128)) % 128 = q % 128 /\ 128 + (q % 128) >= 128
      BY <3>2, SMT
    <3>4. (IF q % 128 >= 64 THEN (q % 128) - 128 ELSE q % 128) = q
      BY <3>2, SMT
    <3>5. -TzSeconds(e.tzoffset) = -(900 * q) /\ e.tzoffset >= 128
      BY <3>1, <3>3, <3>4, SMT DEF TzSeconds
    <3> QED
      BY <1>2, <1>3, <2>2, <3>1, <3>5
  <2>3. CASE NoDate(e) /\ f[2] = <<0, 0>> /\ f[3] = FALSE
    BY <2>3 DEF NoDate, exfat_exfat2unix
  <2> QED
    BY <1>1, <2>1, <2>2, <2>3 DEF StampMeans
<1>5. Wrap(m) = m
  BY <1>1 DEF Wrap, Small
<1> QED
  BY <1>1, <1>4, <1>5 DEF Load

\* The invariant holds of a new volume.
LEMMA TimeInit ==
  ASSUME TimesFit, ExchangeInit
  PROVE  TimeInv
<1>1. First.at = <<3652, 0>> /\ First.local = FALSE
  BY SMT DEF First, EpochDiffDays
<1>2. Small(<<3652, 0>>)
  <2>1. \A x \in Int, y \in 0..(SecInDay - 1) : <<x, y>> \in Moments
    BY DEF Moments
  <2>2. SecInDay - 1 = 86399
    BY SMT DEF SecInDay
  <2>3. <<3652, 0>> \in Moments
    BY <2>1, <2>2, SMT
  <2>4. Before(<<3652, 0>>, <<24855, 11648>>)
    BY SMT DEF Before
  <2> QED
    BY <2>3, <2>4 DEF Small
<1>3. Clamp(<<3652, 0>>, 0) = <<3652, 0>>
  <2>1. Epoch(0) = <<3652, 0>>
    BY SMT DEF Epoch, Time, EpochDiffDays, SecInDay
  <2> QED
    BY <2>1 DEF Clamp
<1>4. Amiga \in Hosts /\ Amiga.tz = 0
  BY DEF Hosts, Amiga
<1>5. \A h \in Hosts : Load(h, disk) = <<3652, 0>>
  <2>1. disk = exfat_unix2exfat(<<3652, 0>>, Amiga.tz)
    BY <1>1, <1>4 DEF ExchangeInit
  <2> QED
    BY <1>2, <1>3, <1>4, <2>1, WrittenRead
<1>6. \A h \in Hosts : Meaning(h) = <<3652, 0>>
  BY <1>1 DEF Meaning, ExchangeInit
<1>7. host = Off
  BY DEF ExchangeInit
<1> QED
  BY <1>2, <1>5, <1>6, <1>7, HostZone DEF TimeInv

\* And every step keeps it.
LEMMA TimeStep ==
  ASSUME TimesFit, TimeInv, [ExchangeNext]_exchange_vars
  PROVE  TimeInv'
<1>1. ASSUME UNCHANGED <<host, disk, mtime, meant>>
      PROVE  TimeInv'
  BY <1>1 DEF TimeInv, Meaning
<1>2. ASSUME NEW h \in Hosts, Mount(h)
      PROVE  TimeInv'
  <2>1. host' = h /\ mtime' = Load(h, disk) /\ disk' = disk /\ meant' = meant
    BY <1>2 DEF Mount
  <2>2. \A g : Meaning(g)' = Meaning(g)
    BY <2>1 DEF Meaning
  <2>3. mtime' = Meaning(h) /\ Small(Meaning(h))
    BY <2>1 DEF TimeInv
  <2> QED
    BY <2>1, <2>2, <2>3 DEF TimeInv
<1>3. ASSUME Unmount
      PROVE  TimeInv'
  <2>1. host' = Off /\ disk' = disk /\ meant' = meant
    BY <1>3 DEF Unmount
  <2>2. \A g : Meaning(g)' = Meaning(g)
    BY <2>1 DEF Meaning
  <2> QED
    BY <2>1, <2>2, HostZone DEF TimeInv
<1>4. ASSUME host # Off
      PROVE  host \in Hosts
  BY <1>4 DEF TimeInv
<1>5. ASSUME NEW t \in Instants, Utimens(t)
      PROVE  TimeInv'
  <2>1. host \in Hosts
    BY <1>4, <1>5 DEF Utimens, Off
  <2>2. meant' = [at |-> Clamp(t, host.tz), local |-> FALSE] /\ Flush(t)
    BY <1>5 DEF Utimens, Representable, Clamp, Epoch
  <2>3. Small(t)
    BY DEF TimesFit
  <2> QED
    BY <2>1, <2>2, <2>3, FlushKeeps
<1>6. ASSUME NEW t \in Instants, SetDate(time_to_datestamp(t))
      PROVE  TimeInv'
  <2> DEFINE ds == time_to_datestamp(t)
             w == Time(ds.days + DAYS_1970_TO_1978, ds.minute * 60 + ds.tick \div TicksPerSecond)
  <2>1. host \in Hosts
    BY <1>4, <1>6 DEF SetDate, Off
  <2>2. Small(t)
    BY DEF TimesFit
  <2>3. Small(w) /\ datestamp_to_time(ds) = w
    BY <2>2, DatestampKept
  <2>4. meant' = [at |-> Clamp(w, host.tz), local |-> FALSE] /\ Flush(w)
    <3>1. Flush(datestamp_to_time(ds)) /\ meant' = [at |-> Representable(host, w), local |-> FALSE]
      BY <1>6 DEF SetDate
    <3> HIDE DEF w
    <3> QED
      BY <2>3, <3>1 DEF Representable, Clamp, Epoch
  <2> HIDE DEF w
  <2> QED
    BY <2>1, <2>3, <2>4, FlushKeeps
<1>7. ASSUME Clone
      PROVE  TimeInv'
  <2> DEFINE ds == time_to_datestamp(mtime)
             w == Time(ds.days + DAYS_1970_TO_1978, ds.minute * 60 + ds.tick \div TicksPerSecond)
  <2>1. host \in Hosts /\ host.tz = 0
    <3>1. host \in Hosts /\ host.os = "amiga"
      BY <1>4, <1>7 DEF Clone, Off
    <3> QED
      BY <3>1 DEF Hosts, Amiga, Posix
  <2>2. Small(mtime) /\ Clamp(mtime, host.tz) = Clamp(Meaning(host), host.tz)
    BY <2>1 DEF TimeInv
  <2>3. /\ w = (IF mtime[1] < 2922 THEN <<2922, 0>> ELSE mtime)
        /\ Small(w) /\ datestamp_to_time(ds) = w
    BY <2>2, DatestampKept
  <2> HIDE DEF w
  <2>4. Clamp(w, host.tz) = Clamp(mtime, host.tz)
    <3>1. Epoch(0) = <<3652, 0>>
      BY SMT DEF Epoch, Time, EpochDiffDays, SecInDay
    <3>2. CASE mtime[1] < 2922
      <4>1. Before(<<2922, 0>>, <<3652, 0>>)
        BY SMT DEF Before
      <4>2. mtime \in Moments
        BY <2>2 DEF Small
      <4>3. mtime[1] \in Int
        BY <4>2, TimeParts
      <4>4. Before(mtime, <<3652, 0>>)
        BY <3>2, <4>3, SMT DEF Before
      <4> QED
        BY <2>1, <2>3, <3>1, <3>2, <4>1, <4>4 DEF Clamp
    <3>3. CASE ~(mtime[1] < 2922)
      BY <2>3, <3>3
    <3> QED
      BY <3>2, <3>3
  <2>5. meant' = [at |-> Clamp(w, host.tz), local |-> FALSE] /\ Flush(w)
    <3>1. Flush(w) /\ meant' = [at |-> Clamp(Meaning(host), host.tz), local |-> FALSE]
      BY <1>7, <2>3 DEF Clone, Representable, Clamp, Epoch
    <3> QED
      BY <2>2, <2>4, <3>1
  <2> QED
    BY <2>1, <2>3, <2>5, FlushKeeps
<1>8. ASSUME Rewrite
      PROVE  TimeInv'
  <2>1. host \in Hosts
    BY <1>4, <1>8 DEF Rewrite
  <2>2. Small(mtime) /\ Clamp(mtime, host.tz) = Clamp(Meaning(host), host.tz)
    BY <2>1 DEF TimeInv
  <2>3. Flush(mtime) /\ meant' = [at |-> Clamp(Meaning(host), host.tz), local |-> FALSE]
    BY <1>8 DEF Rewrite, Representable, Clamp, Epoch
  <2> QED
    BY <2>1, <2>2, <2>3, FlushKeeps
<1>9. ASSUME NEW f \in Foreign, Stamp(f)
      PROVE  TimeInv'
  <2>1. host' = Off /\ disk' = f[1] /\ meant' = [at |-> f[2], local |-> f[3]]
    BY <1>9 DEF Stamp
  <2>2. \A h : Meaning(h)' = IF f[3] THEN Later(f[2], h.tz) ELSE f[2]
    BY <2>1 DEF Meaning
  <2>3. \A h \in Hosts : Small(Meaning(h)') /\ Load(h, disk') = Meaning(h)'
    BY <2>1, <2>2, StampRead
  <2> QED
    BY <2>1, <2>3, HostZone DEF TimeInv
<1>10. CASE UNCHANGED exchange_vars
  BY <1>1, <1>10 DEF exchange_vars
<1>11. CASE ExchangeNext
  <2>1. Amiga \in Hosts /\ \A z \in Zones : Posix(z) \in Hosts
    BY DEF Hosts
  <2>2. \A x : Create(x) => UNCHANGED <<host, disk, mtime, meant>>
    BY DEF Create
  <2>3. ASSUME NEW x, CreatePosix(x) \/ CreateAmiga(x) \/ CreateForeign(x)
        PROVE  TimeInv'
    BY <1>1, <2>2, <2>3 DEF CreatePosix, CreateAmiga, CreateForeign
  <2> QED
    BY <1>2, <1>3, <1>5, <1>6, <1>7, <1>8, <1>9, <1>11, <2>1, <2>3 DEF ExchangeNext
<1> QED
  BY <1>10, <1>11

\* A date that the Amiga set has no zone of its own.
SetterInv == setter = "amiga" => meant.local = FALSE

\* It is kept by every step.
LEMMA SetterStep ==
  ASSUME SetterInv, [ExchangeNext]_exchange_vars
  PROVE  SetterInv'
<1>1. ASSUME UNCHANGED <<meant, setter>> PROVE SetterInv'
  BY <1>1 DEF SetterInv
<1>2. ASSUME NEW x, meant' = [at |-> x, local |-> FALSE] PROVE SetterInv'
  BY <1>2 DEF SetterInv
<1>3. ASSUME setter' = "other" PROVE SetterInv'
  BY <1>3 DEF SetterInv
<1>4. ASSUME NEW h, Mount(h) PROVE SetterInv'
  BY <1>1, <1>4 DEF Mount
<1>5. ASSUME Unmount PROVE SetterInv'
  BY <1>1, <1>5 DEF Unmount
<1>6. ASSUME Clone \/ Rewrite PROVE SetterInv'
  BY <1>2, <1>6 DEF Clone, Rewrite
<1>7. ASSUME NEW t, Utimens(t) \/ SetDate(time_to_datestamp(t)) PROVE SetterInv'
  BY <1>2, <1>7 DEF Utimens, SetDate
<1>8. ASSUME NEW f, Stamp(f) PROVE SetterInv'
  BY <1>3, <1>8 DEF Stamp
<1>9. ASSUME NEW x, CreatePosix(x) \/ CreateAmiga(x) \/ CreateForeign(x) PROVE SetterInv'
  BY <1>1, <1>9 DEF CreatePosix, CreateAmiga, CreateForeign, Create
<1>10. ASSUME UNCHANGED exchange_vars PROVE SetterInv'
  BY <1>1, <1>10 DEF exchange_vars
<1> QED
  BY <1>4, <1>5, <1>6, <1>7, <1>8, <1>9, <1>10 DEF ExchangeNext

\* MtimeKept for every set of zones, of times before 2038-01-19 and of stamps:
\* whatever hosts mount the volume and rewrite the entry (init_node_meta1(),
\* exfat_flush_node()), in whatever order, POSIX machines read the time that was
\* set last by others than the Amiga, and the Amiga the date that it set itself.
THEOREM TimeDoesNotDrift ==
  ASSUME TimesFit
  PROVE  ExchangeSpec => []MtimeKept
<1>1. ExchangeInit => TimeInv
  BY TimeInit
<1>2. TimeInv /\ [ExchangeNext]_exchange_vars => TimeInv'
  BY TimeStep
<1>3. TimeInv /\ SetterInv => MtimeKept
  <2> SUFFICES ASSUME TimeInv, SetterInv, host = Off PROVE MtimeKept
    BY DEF MtimeKept
  <2>1. \A h \in Hosts : Load(h, disk) = Meaning(h)
    BY DEF TimeInv
  <2>2. Amiga \in Hosts /\ \A z \in Zones : Posix(z) \in Hosts
    BY DEF Hosts
  <2>3. CASE setter # "amiga"
    BY <2>1, <2>2, <2>3 DEF MtimeKept
  <2>4. CASE setter = "amiga"
    <3>1. meant.local = FALSE
      BY <2>4 DEF SetterInv
    <3> QED
      BY <2>1, <2>2, <2>4, <3>1 DEF MtimeKept, Meaning
  <2> QED
    BY <2>3, <2>4
<1>4. ExchangeInit => SetterInv
  BY DEF ExchangeInit, SetterInv
<1>5. SetterInv /\ [ExchangeNext]_exchange_vars => SetterInv'
  BY SetterStep
<1> QED
  BY <1>1, <1>2, <1>3, <1>4, <1>5, PTL DEF ExchangeSpec

=============================================================================
