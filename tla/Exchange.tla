------------------------------ MODULE Exchange ------------------------------
(***************************************************************************)
(* A volume that goes from one machine to another: names and dates written *)
(* by one are read by the next, which may be an Amiga, a machine with the  *)
(* FUSE driver in any time zone, or another system.  The volume is one     *)
(* directory; of the dates there is the modification time of one file.     *)
(***************************************************************************)
EXTENDS Times, Names, FiniteSets

CONSTANTS
  Zones,          \* values of exfat_timezone: seconds west of Greenwich
  Instants,       \* times that programs set
  Foreign,        \* stamps that other systems write: <<fields, time they mean,
                  \* whether that is local time>>
  PosixNames,     \* names that programs use on POSIX: sequences of characters
  AmigaNames,     \* names that programs use on the Amiga: sequences of bytes
  ForeignNames,   \* names that other systems write: sequences of UTF-16 units
  MaxNames,       \* bound: names in the directory
  Units           \* UTF-16 units of the names that are converted by themselves

ASSUME ExchangeAssumption ==
  /\ Zones \subseteq Int /\ MaxNames \in Nat
  /\ \A z \in Zones : z % 900 = 0

VARIABLES
  host,    \* the machine that has the volume mounted
  disk,    \* the fields of the modification time on the volume
  mtime,   \* node->mtime while the volume is mounted
  names,   \* the names in the directory
  meant,   \* the time that the file should have: the last one that was set
  setter   \* who set it: "posix", "amiga" or "other"

exchange_vars == <<host, disk, mtime, names, meant, setter>>

Off == [os |-> "none", tz |-> 0]
Amiga == [os |-> "amiga", tz |-> 0]
Posix(z) == [os |-> "posix", tz |-> z]
Hosts == {Amiga} \cup {Posix(z) : z \in Zones}

First == [at |-> <<EpochDiffDays, 0>>, local |-> FALSE]

ExchangeInit ==
  /\ host = Off
  /\ disk = exfat_unix2exfat(First.at, 0)
  /\ mtime = First.at
  /\ names = {}
  /\ meant = First /\ setter = "other"

-----------------------------------------------------------------------------
(* Times *)

\* init_node_meta1(); time_t has 32 bits on the Amiga.
Load(h, e) ==
  LET t == exfat_exfat2unix(e, h.tz) IN IF h.os = "amiga" THEN Wrap(t) ELSE t

\* exfat_mount() with exfat_tzset(), and the reading of the directory.
Mount(h) ==
  /\ host = Off
  /\ host' = h
  /\ mtime' = Load(h, disk)
  /\ UNCHANGED <<disk, names, meant, setter>>

Unmount ==
  /\ host # Off
  /\ host' = Off
  /\ UNCHANGED <<disk, mtime, names, meant, setter>>

\* The earliest time that a stamp of host h has.
Representable(h, t) ==
  LET epoch == Time(EpochDiffDays, h.tz) IN IF Before(t, epoch) THEN epoch ELSE t

\* What the stamp means to host h.
Meaning(h) == IF meant.local THEN Later(meant.at, h.tz) ELSE meant.at

\* exfat_flush_node(), where it writes the time; the same time in memory and
\* on the volume may differ until the volume is mounted again.
Flush(t) ==
  /\ mtime' = t
  /\ disk' = exfat_unix2exfat(t, host.tz)
  /\ UNCHANGED <<host, names>>

\* exfat_utimes().
Utimens(t) ==
  /\ host.os = "posix"
  /\ Flush(t)
  /\ meant' = [at |-> Representable(host, t), local |-> FALSE]
  /\ setter' = "posix"

\* do_set_date().  The DateStamp is the Amiga's clock, which has local time
\* (comment on exfat_tzset()) in a zone that nothing knows; what is meant is
\* what that clock showed, counted as a time_t.
SetDate(ds) ==
  /\ host.os = "amiga"
  /\ Flush(datestamp_to_time(ds))
  /\ meant' = [at |-> Representable(host, Time(ds.days + DAYS_1970_TO_1978,
                                               ds.minute * 60 + ds.tick \div TicksPerSecond)),
               local |-> FALSE]
  /\ setter' = "amiga"

\* A program sets the date that it has been shown, as Copy CLONE does.
Clone ==
  /\ host.os = "amiga"
  /\ Flush(datestamp_to_time(time_to_datestamp(mtime)))
  /\ meant' = [at |-> Representable(host, Meaning(host)), local |-> FALSE]
  /\ UNCHANGED setter

\* The entry is written for another reason, such as its attributes.
Rewrite ==
  /\ host # Off
  /\ Flush(mtime)
  /\ meant' = [at |-> Representable(host, Meaning(host)), local |-> FALSE]
  /\ UNCHANGED setter

\* Another system sets the time.
Stamp(f) ==
  /\ host = Off
  /\ disk' = f[1]
  /\ meant' = [at |-> f[2], local |-> f[3]] /\ setter' = "other"
  /\ UNCHANGED <<host, mtime, names>>

-----------------------------------------------------------------------------
(* Names *)

\* create() of a name in UTF-8, by way of exfat_split().
Create(utf8) ==
  LET n == exfat_utf8_to_utf16(utf8, NameMax + 1) IN
  /\ is_allowed(utf8) /\ n.rc = "ok" /\ lookup_name(names, utf8) = {}
  /\ Cardinality(names) < MaxNames
  /\ names' = names \cup {n.out}
  /\ UNCHANGED <<host, disk, mtime, meant, setter>>

PosixUtf8(chars) == FlattenSeq([i \in 1..Len(chars) |-> wchar_to_utf8(chars[i])])

CreatePosix(x) == host.os = "posix" /\ Create(PosixUtf8(x))
CreateAmiga(x) == host.os = "amiga" /\ Create(bstr_to_utf8(x, PathMax))

CreateForeign(x) ==
  /\ host = Off /\ Cardinality(names) < MaxNames
  /\ \A y \in names : ~SameName(x, y)
  /\ names' = names \cup {x}
  /\ UNCHANGED <<host, disk, mtime, meant, setter>>

ExchangeNext ==
  \/ Mount(Amiga) \/ Unmount \/ Clone \/ Rewrite
  \/ \E z \in Zones : Mount(Posix(z))
  \/ \E t \in Instants : Utimens(t) \/ SetDate(time_to_datestamp(t))
  \/ \E f \in Foreign : Stamp(f)
  \/ \E x \in PosixNames : CreatePosix(x)
  \/ \E x \in AmigaNames : CreateAmiga(x)
  \/ \E x \in ForeignNames : CreateForeign(x)

ExchangeSpec == ExchangeInit /\ [][ExchangeNext]_exchange_vars

-----------------------------------------------------------------------------
(* The times that all hosts can have *)

Moments == Int \X (0..(SecInDay - 1))

\* A time_t of 32 bits has it.
Small(t) == t \in Moments /\ Before(t, <<24855, 11648>>)

\* A zone has a place in the 7 bits of tzoffset.
Zone(z) == z \in Int /\ z % 900 = 0 /\ -56700 <= z /\ z <= 57600

\* The format: the fields of a stamp that is a date, the local time that they
\* stand for, and the offset from it, q quarters of an hour east of Greenwich.
Dated(e) ==
  /\ e.year \in 0..119 /\ e.month \in 1..12 /\ e.day \in 1..31
  /\ e.hour \in 0..23 /\ e.min \in 0..59 /\ e.twosec \in 0..29 /\ e.centisec \in 0..199
LocalTime(e) ==
  <<Civil(1980 + e.year, e.month, e.day),
    e.hour * 3600 + e.min * 60 + e.twosec * 2 + e.centisec \div 100>>

NoDate(e) ==
  \/ e.day = 0 \/ e.month \notin 1..12 \/ e.hour > 23 \/ e.min > 59
  \/ e.twosec > 29 \/ e.centisec > 199

StampMeans(e, at, local) ==
  \/ Dated(e) /\ e.tzoffset \in 0..127 /\ at = LocalTime(e) /\ local = TRUE
  \/ /\ Dated(e) /\ local = FALSE
     /\ \E q \in -64..63 : e.tzoffset = 128 + (q % 128) /\ at = Later(LocalTime(e), -(900 * q))
  \/ NoDate(e) /\ at = <<0, 0>> /\ local = FALSE

\* What MtimeKept needs: a zone fits in tzoffset, the times are those
\* that the time_t of an Amiga has, and a stamp of another system means what
\* the format says.
TimesFit ==
  /\ \A z \in Zones : Zone(z)
  /\ \A t \in Instants : Small(t)
  /\ \A f \in Foreign : /\ StampMeans(f[1], f[2], f[3])
                        /\ Small(f[2]) /\ \A h \in Hosts : Small(Later(f[2], h.tz))

-----------------------------------------------------------------------------
(* Properties *)

\* A stamp does not drift, whatever machines in whatever zones have mounted the
\* volume and rewritten the entry since.  What a POSIX machine or another system
\* set, every POSIX machine reads to the second; a stamp without a zone is local
\* time wherever it is read, until it is rewritten.  A date that the Amiga set,
\* the Amiga shows again, and POSIX machines in all zones read the same of it,
\* though not the instant at which the Amiga's clock showed it: nothing records
\* that clock's zone.  What the Amiga shows of dates that were set elsewhere is
\* LocalTimeShown.  Times before 1980 are the first of 1980; fields that are no
\* date are time 0.  Dates that a time_t of 32 bits does not have are left out.
MtimeKept ==
  host = Off =>
    /\ setter # "amiga" => \A z \in Zones : Load(Posix(z), disk) = Meaning(Posix(z))
    /\ setter = "amiga" =>
         /\ Load(Amiga, disk) = meant.at
         /\ \A y, z \in Zones : Load(Posix(y), disk) = Load(Posix(z), disk)

\* The name by which the handler shows an object leads to that object, or to
\* none if it has a character that AmigaDOS does not have, and never to
\* another object.  Names that are longer than fib_FileName are left out.
ShownFindsItself ==
  \A n \in names :
    LET shown == name_to_bstr(safe_get_name(n), FibMax)
        found == lookup_name(names, bstr_to_utf8(shown, PathMax))
    IN  Len(n) <= FibMax =>
          /\ found \subseteq {n}
          /\ (\A i \in 1..Len(n) : n[i] < 256) => found = {n}

\* The same for names of any length: none is found as another.
NeverMistaken ==
  \A n \in names :
    lookup_name(names, bstr_to_utf8(name_to_bstr(safe_get_name(n), FibMax), PathMax))
      \subseteq {n}

\* The time that the Amiga reads of a stamp is "the local time the volume
\* recorded" (comment on exfat_amiga_time_to_datestamp()), and the offset byte
\* is ignored (comment in exfat_amiga.h).  It is not: exfat_exfat2unix() takes
\* the offset off on the Amiga, too.
LocalTimeShown == Dated(disk) => Load(Amiga, disk) = Wrap(LocalTime(disk))

\* The conversions of a name undo each other, also at the limits of their
\* buffers: a name that the handler takes for sane never makes exfat_get_name()
\* stop the process, whatever units it has, and its UTF-8 is converted back to
\* it.
ConvertsBack(name) ==
  LET r == exfat_get_name(name) IN
  /\ name_is_sane(name) => r.rc = "ok"
  /\ r.rc = "ok" => exfat_utf8_to_utf16(r.out, NameMax + 1) = [rc |-> "ok", out |-> name]

AllConvertBack == \A name \in BoundedSeq(Units, NameMax) : ConvertsBack(name)

\* The conversions are exact, of dates over the whole range of exFAT, and of
\* names for those in the directory and for all names made of Units.
ConversionsExact == CalendarRight /\ AllConvertBack /\ \A n \in names : ConvertsBack(n)

=============================================================================
