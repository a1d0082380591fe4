-------------------------------- MODULE Times --------------------------------
(***************************************************************************)
(* Time stamps: libexfat's conversion between time_t and the fields of a   *)
(* directory entry (time.c), and the handler's between time_t and the      *)
(* DateStamp of AmigaDOS (amigaos.c).                                      *)
(*                                                                         *)
(* A time_t is written <<days, seconds>> with 0 <= seconds < 86400, since  *)
(* the last dates of exFAT are beyond 2^31 seconds; where time_t has 32    *)
(* bits, Wrap() does what the assignment does.                             *)
(***************************************************************************)
EXTENDS Integers

SecInDay == 86400

Time(days, secs) == <<days + secs \div SecInDay, secs % SecInDay>>
Later(t, secs) == Time(t[1], t[2] + secs)
Before(a, b) == a[1] < b[1] \/ (a[1] = b[1] /\ a[2] < b[2])

\* Assignment to a time_t or LONG of 32 bits.
Wrap(t) == IF Before(t, <<24855, 11648>>) THEN t ELSE Time(t[1] - 49710, t[2] - 23296)

\* C's division, which rounds towards zero.
Quot(a, b) == IF a < 0 THEN -((-a) \div b) ELSE a \div b

EpochDiffDays == 10 * 365 + 10 \div 4

LEAP_YEARS(year) == (1980 + year - 1) \div 4 - 1979 \div 4
IS_LEAP_YEAR(year) == (1980 + year) % 4 = 0

days_in_year == <<0, 31, 59, 90, 120, 151, 181, 212, 243, 273, 304, 334>>

\* leap_sub in exfat_unix2exfat(), and the leap day of exfat_exfat2unix().
LeapSub(year, i) == IF IS_LEAP_YEAR(year) /\ i >= 3 THEN 1 ELSE 0

\* Mutation: the lower 7 bits are taken as a number without sign.
TzUnsigned(tzoffset) == (tzoffset % 128) * 15 * 60

\* (int8_t)(tzoffset << 1) * 15 * 60 / 2.
TzSeconds(tzoffset) ==
  LET low == tzoffset % 128 IN (IF low >= 64 THEN low - 128 ELSE low) * 15 * 60

\* exfat_exfat2unix() with exfat_timezone = tz.  Fields that are no date or
\* time are an error, and the result is 0.
exfat_exfat2unix(e, tz) ==
  IF \/ e.day = 0 \/ e.month \notin 1..12
     \/ e.hour > 23 \/ e.min > 59 \/ e.twosec > 29 \/ e.centisec > 199
  THEN <<0, 0>>
  ELSE Time(EpochDiffDays + e.year * 365 + LEAP_YEARS(e.year)
              + days_in_year[e.month] + LeapSub(e.year, e.month) + e.day - 1,
            e.hour * 3600 + e.min * 60 + e.twosec * 2 + e.centisec \div 100
              + (IF e.tzoffset >= 128 THEN -TzSeconds(e.tzoffset) ELSE tz))

\* exfat_unix2exfat(): a time before 1980 becomes the first of 1980, and the
\* year has 7 bits.
exfat_unix2exfat(t, tz) ==
  LET shift == Time(EpochDiffDays, tz)
      u == IF Before(t, shift) THEN <<0, 0>> ELSE Time(t[1] - shift[1], t[2] - shift[2])
      year == (4 * u[1]) \div (4 * 365 + 1)
      days == u[1] - (year * 365 + LEAP_YEARS(year))
      fits(i) == \/ i = 12
                 \/ days - LeapSub(year, i)
                      < days_in_year[i + 1] + (IF IS_LEAP_YEAR(year) /\ i = 2 THEN 1 ELSE 0)
      month == CHOOSE i \in 1..12 : fits(i) /\ \A j \in 1..(i - 1) : ~fits(j)
  IN  [day |-> days - (days_in_year[month] + LeapSub(year, month)) + 1,
       month |-> month, year |-> year % 128,
       hour |-> u[2] \div 3600, min |-> (u[2] % 3600) \div 60, twosec |-> (u[2] % 60) \div 2,
       centisec |-> (u[2] % 2) * 100,
       tzoffset |-> 128 + (Quot(Quot(-tz, 60), 15) % 128)]

-----------------------------------------------------------------------------
(* DateStamp *)

TicksPerSecond == 50
DAYS_1970_TO_1978 == 2922

\* exfat_amiga_time_to_datestamp().
time_to_datestamp(t) ==
  LET s == IF t[1] < 0 THEN <<0, 0>> ELSE t IN
  IF s[1] < DAYS_1970_TO_1978 THEN [days |-> 0, minute |-> 0, tick |-> 0]
  ELSE [days |-> s[1] - DAYS_1970_TO_1978, minute |-> s[2] \div 60,
        tick |-> (s[2] % 60) * TicksPerSecond]

\* exfat_amiga_datestamp_to_time().
datestamp_to_time(ds) ==
  Wrap(Time((IF ds.days < 0 THEN 0 ELSE ds.days) + DAYS_1970_TO_1978,
            ds.minute * 60 + ds.tick \div TicksPerSecond))

-----------------------------------------------------------------------------
(* The calendar, independently of the code *)

\* Days from 1970-01-01 to a date of the Gregorian calendar.
Civil(y, m, d) ==
  LET leap(x) == x % 4 = 0 /\ (x % 100 # 0 \/ x % 400 = 0)
      length == [i \in 1..12 |-> IF i = 2 THEN (IF leap(y) THEN 29 ELSE 28)
                                 ELSE IF i \in {4, 6, 9, 11} THEN 30 ELSE 31]
      before[i \in 1..13] == IF i = 1 THEN 0 ELSE before[i - 1] + length[i - 1]
      leaps(x) == x \div 4 - x \div 100 + x \div 400
  IN  (y - 1970) * 365 + leaps(y - 1) - leaps(1969) + before[m] + d - 1

\* Until the end of February 2100, which the code takes for a leap year, the
\* fields are the date of the calendar, and until the end of 2107 they stand
\* for the day that they were made from.
CalendarRight ==
  \A day \in EpochDiffDays .. (Civil(2108, 1, 1) - 1) :
    LET e == exfat_unix2exfat(<<day, 0>>, 0) IN
    /\ day <= Civil(2100, 2, 28) => Civil(1980 + e.year, e.month, e.day) = day
    /\ exfat_exfat2unix(e, 0) = <<day, 0>>

=============================================================================
