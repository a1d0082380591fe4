-------------------------------- MODULE Names --------------------------------
(***************************************************************************)
(* Names: UTF-16 on the volume, UTF-8 inside libexfat (utf.c), one byte    *)
(* per character in AmigaDOS (amigaos.c), and the comparison that a lookup *)
(* makes (lookup.c).                                                       *)
(*                                                                         *)
(* A string is the sequence of its units without the zero at its end, and  *)
(* has no other zero.  The result of a conversion is [rc, out].            *)
(***************************************************************************)
EXTENDS Integers, Sequences, SequencesExt

CONSTANTS
  NameMax,   \* EXFAT_NAME_MAX
  FibMax,    \* characters of fib_FileName, 106
  PathMax,   \* MAX_PATH_UTF8
  upcase     \* the upcase table of the volume, where it is not the identity

ASSUME NamesAssumption == {NameMax, FibMax, PathMax} \subseteq Nat \ {0}

Bits(c, low, n) == (c \div 2^low) % 2^n

IsLead(u) == Bits(u, 10, 6) = 54    \* (u & 0xfc00) == 0xd800
IsTrail(u) == Bits(u, 10, 6) = 55   \* (u & 0xfc00) == 0xdc00

\* wchar_to_utf8(), without the check of the space.
wchar_to_utf8(wc) ==
  LET size == IF wc < 2^7 THEN 1 ELSE IF wc < 2^11 THEN 2 ELSE IF wc < 2^16 THEN 3
              ELSE IF wc < 2^21 THEN 4 ELSE IF wc < 2^26 THEN 5 ELSE 6
      mark == <<0, 192, 224, 240, 248, 252>>
  IN  [i \in 1..size |->
         IF i = 1 THEN mark[size] + wc \div 2^(6 * (size - 1))
         ELSE 128 + Bits(wc, 6 * (size - i), 6)]

\* Mutation: the planes above the first are not added.
FromPairLow(a, b) == Bits(a, 0, 10) * 2^10 + Bits(b, 0, 10)

FromPair(a, b) == Bits(a, 0, 10) * 2^10 + Bits(b, 0, 10) + 65536

\* A conversion goes through its input from left to right: next is the first
\* unit that has not been converted.
Begin == [rc |-> "ok", out |-> <<>>, next |-> 1]
Indices(input) == [i \in 1..Len(input) |-> i]
Pending(t, i) == t.rc = "ok" /\ t.next = i

\* The terminator needs room too.
Terminated(t, outsize) ==
  [rc |-> IF t.rc = "ok" /\ Len(t.out) >= outsize THEN "ENAMETOOLONG" ELSE t.rc, out |-> t.out]

Emit(t, used, units, outsize) ==
  IF Len(units) > outsize - Len(t.out) THEN [t EXCEPT !.rc = "ENAMETOOLONG"]
  ELSE [t EXCEPT !.out = @ \o units, !.next = @ + used]

\* exfat_utf16_to_utf8() and utf16_to_wchar().
exfat_utf16_to_utf8(input, outsize) ==
  LET step(t, i) ==
        IF ~Pending(t, i) THEN t
        ELSE IF ~IsLead(input[i]) THEN Emit(t, 1, wchar_to_utf8(input[i]), outsize)
        ELSE IF i = Len(input) \/ ~IsTrail(input[i + 1]) THEN [t EXCEPT !.rc = "EILSEQ"]
        ELSE Emit(t, 2, wchar_to_utf8(FromPair(input[i], input[i + 1])), outsize)
  IN  Terminated(FoldLeft(step, Begin, Indices(input)), outsize)

\* The length that the first byte of a character announces, 0 if none.
Utf8Size(b) ==
  IF b < 128 THEN 1 ELSE IF b < 192 THEN 0 ELSE IF b < 224 THEN 2 ELSE IF b < 240 THEN 3
  ELSE IF b < 248 THEN 4 ELSE IF b < 252 THEN 5 ELSE IF b < 254 THEN 6 ELSE 0

\* utf8_to_wchar(): the bits of the bytes, the first without its mark.
utf8_to_wchar(bytes) ==
  LET size == Len(bytes)
      first == IF size = 1 THEN bytes[1] ELSE Bits(bytes[1], 0, 7 - size)
  IN  FoldLeft(LAMBDA wc, b : wc * 64 + Bits(b, 0, 6), first, Tail(bytes))

\* wchar_to_utf16(), without the check of the space.
wchar_to_utf16(wc) ==
  IF wc < 65536 THEN <<wc>>
  ELSE <<55296 + Bits(wc - 65536, 10, 10), 56320 + Bits(wc - 65536, 0, 10)>>

\* exfat_utf8_to_utf16().
exfat_utf8_to_utf16(input, outsize) ==
  LET step(t, i) ==
        LET size == Utf8Size(input[i]) IN
        IF ~Pending(t, i) THEN t
        ELSE IF \/ size = 0 \/ i + size - 1 > Len(input)
                \/ \E j \in (i + 1)..(i + size - 1) : Bits(input[j], 6, 2) # 2
        THEN [t EXCEPT !.rc = "EILSEQ"]
        ELSE Emit(t, size, wchar_to_utf16(utf8_to_wchar(SubSeq(input, i, i + size - 1))),
                  outsize)
  IN  Terminated(FoldLeft(step, Begin, Indices(input)), outsize)

\* exfat_get_name(), which calls exfat_bug() unless rc is "ok".
exfat_get_name(name) == exfat_utf16_to_utf8(name, NameMax * 3 + 1)

-----------------------------------------------------------------------------
(* The handler *)

\* name_is_sane().
name_is_sane(name) ==
  \A i \in 1..Len(name) :
    /\ IsLead(name[i]) => i < Len(name) /\ IsTrail(name[i + 1])
    /\ IsTrail(name[i]) => i > 1 /\ IsLead(name[i - 1])

\* safe_get_name(), with "<>" for "<bad name>".
safe_get_name(name) ==
  IF name_is_sane(name) THEN exfat_get_name(name).out ELSE <<60, 62>>

\* utf8_next(): the characters of a string that libexfat has made, in which a
\* byte 10xxxxxx always belongs to the character before it.
Chars(utf8) ==
  LET starts == SelectSeq([i \in 1..Len(utf8) |-> i], LAMBDA i : Bits(utf8[i], 6, 2) # 2)
  IN  [k \in 1..Len(starts) |->
         utf8_to_wchar(SubSeq(utf8, starts[k],
                              IF k = Len(starts) THEN Len(utf8) ELSE starts[k + 1] - 1))]

\* Mutation: a character that AmigaDOS does not have is cut to 8 bits.
BstrCut(utf8, maxlen) ==
  LET c == Chars(utf8) IN
  [i \in 1..(IF Len(c) < maxlen THEN Len(c) ELSE maxlen) |-> c[i] % 256]

\* exfat_amiga_name_to_bstr(): '?' for a character that AmigaDOS does not have.
name_to_bstr(utf8, maxlen) ==
  LET c == Chars(utf8) IN
  [i \in 1..(IF Len(c) < maxlen THEN Len(c) ELSE maxlen) |-> IF c[i] < 256 THEN c[i] ELSE 63]

\* exfat_amiga_bstr_to_utf8(): what does not fit is cut off.
bstr_to_utf8(bstr, maxlen) ==
  FoldLeft(LAMBDA out, c : IF Len(out) < maxlen - 3 THEN out \o wchar_to_utf8(c) ELSE out,
           <<>>, bstr)

-----------------------------------------------------------------------------
(* Lookup *)

Upcase(u) == IF u \in DOMAIN upcase THEN upcase[u] ELSE u

\* compare_name().
SameName(a, b) == Len(a) = Len(b) /\ \A i \in 1..Len(a) : Upcase(a[i]) = Upcase(b[i])

\* is_allowed(): control characters and / \ : * ? " < > |.
is_allowed(comp) ==
  \A i \in 1..Len(comp) : comp[i] \notin (1..31) \cup {47, 92, 58, 42, 63, 34, 60, 62, 124}

\* lookup_name() in a directory: the object of that name, if there is one.
lookup_name(dir, utf8) ==
  LET n == exfat_utf8_to_utf16(utf8, NameMax + 1) IN
  IF n.rc # "ok" THEN {} ELSE {x \in dir : SameName(x, n.out)}

=============================================================================
