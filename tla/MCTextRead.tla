----------------------------- MODULE MCTextRead -----------------------------
(***************************************************************************)
(* TextRead with dates of the years -44 to 12345, the days up to day       *)
(* 4,000,000, times with fractions that start and end with zeros, offsets  *)
(* with and without minutes and seconds, and instants that have no date at *)
(* their offset.                                                           *)
(***************************************************************************)
EXTENDS TextRead

MCDateMin == -1000000
MCDateMax == 4000000

Day(y, m, d) == DaysFromCivil(y, m, d)

OfKind(kind, value, fraction, kit, n) ==
  [kind |-> kind, value |-> value, fraction |-> fraction, items |-> {},
   kit |-> kit, edits |-> n]

Times == {Midnight, Time(23, 59, 59, 5), Time(10, 52, 37, 250000000)}

SignKit == {Char("-"), Char("+"), Char(":"), Char("Z"), Digits(5, 1)}
LongKit == SignKit \cup {Char("."), Char("T"), Char(" "), Char("t"), Char("z"),
                         Digits(60, 2), Digits(0, 6), Name("word", 0)}
MailKit == {Char(" "), Char(","), Char(":"), Char("-"), Char("Z"), Digits(5, 1),
            Digits(60, 2), Digits(2003, 4), Name("weekday", 3), Name("month", 2),
            Name("zone", -18000), Name("UTC", 0), Name("word", 0)}

DateTasks ==
  {OfKind("date", d, "None", {Char("-"), Char("+"), Digits(5, 1), Digits(0, 6)}, 2) :
     d \in {Day(2024, 2, 29), Day(-44, 3, 15)}}
  \cup {OfKind("date", d, "None", LongKit, 1) : d \in {Day(0, 1, 1), Day(9999, 12, 31)}}
  \cup {OfKind("date", d, "None", SignKit, 1) : d \in {MCDateMin, 3000000, MCDateMax}}

TimeTasks ==
  {OfKind("time", t, f, LongKit, 1) : t \in Times, f \in DOMAIN FractionDigits}
  \cup {OfKind("time", Time(9, 5, 59, 120), "Auto", {Char(":"), Char("."), Digits(5, 1)}, 2)}

OffsetTasks ==
  {OfKind("offset", o, "None", SignKit \cup {Digits(23, 2)}, 2) :
     o \in {0, 19800, -1800, 3661, -15, 86399, -86399}}
  \cup {OfKind("zone", o, "None", SignKit \cup {Name("UTC", 0), Name("zone", 0)}, 1) :
     o \in {0, 3600, -3661}}

Civil(d, t) == [date |-> d, time |-> t]

Instant(d, s, ns) == [day |-> d, second |-> s, nanos |-> ns]

At0(d, s, ns, o) == [ticks |-> Instant(d, s, ns), offset |-> o]

InstantTasks ==
  {OfKind("civil", Civil(d, t), "Auto", LongKit, 1) :
     d \in {Day(2024, 2, 29), Day(-1, 12, 31)}, t \in Times}
  \cup {OfKind("ticks", t, "Milli", LongKit, 1) :
     t \in {Instant(0, 0, 1000000), Instant(-1, 86399, 999999999),
            Instant(MCDateMax + 1, 0, 0), Instant(MCDateMin - 1, 86399, 1)}}
  \cup {OfKind("zoned", z, "Auto", LongKit, 1) :
     z \in {At0(0, 0, 5, 0), At0(Day(2024, 2, 29), 86000, 0, 19800),
            At0(Day(-44, 1, 1), 100, 7, -3661)}}
  \cup {OfKind("zoned", z, "Auto", SignKit, 1) :
     z \in {At0(MCDateMax, 86000, 0, 3600), At0(MCDateMax + 1, 100, 0, -3600),
            At0(MCDateMin, 5, 0, -60)}}

MailTasks ==
  {OfKind("mail", z, "None", MailKit, 1) :
     z \in {At0(Day(2003, 7, 1), 31957, 7, 7200), At0(Day(1949, 12, 31), 5, 0, 0),
            At0(Day(-1, 6, 1), 0, 0, 0), At0(Day(9999, 12, 31), 86000, 0, 3600),
            At0(Day(44, 3, 15), 0, 0, -1800), At0(Day(2024, 2, 29), 0, 0, 3661),
            At0(MCDateMax, 86000, 0, 3600)}}
  \cup {OfKind("mail ticks", t, "None", MailKit, 1) :
     t \in {Instant(Day(2003, 7, 1), 31957, 0), Instant(MCDateMin - 1, 0, 0)}}

(* A local time at an offset; the items that meet at every edge.           *)
Local(d, t, o) ==
  Engine!View([date |-> d, time |-> t, offset |-> {o}, timestamp |-> {}])

Packable ==
  {Plain(d) : d \in {"Y", "C", "y", "b", "j", "G", "f", "+", ".f", "Z", "p", "F", "r"}}
  \cup {Directive("m", "-", 0), Directive("d", "_", 0), Directive("Y", "_", 6),
        Plain("e"), Plain("l"), Directive("H", "-", 0), Plain("M"), Plain("w"),
        Plain("a"), Plain("z"), Plain(":z"), Directive(".f", "0", 3),
        Literal(" "), Literal(":"), Literal("T")}

FormatTasks ==
  {[kind |-> "strftime", value |-> v, fraction |-> "None", items |-> Packable,
    kit |-> {}, edits |-> 0] :
     v \in {Local(Day(2024, 2, 9), Time(9, 5, 7, 120000000), 19800),
            Local(Day(-44, 11, 15), Time(23, 59, 59, 5), -3661),
            Local(Day(12345, 12, 31), Midnight, 0)}}
  \cup
  {[kind |-> "strftime", value |-> Local(0, Time(h, 0, 0, 0), 0), fraction |-> "None",
    items |-> {Plain("p")}, kit |-> {Char("a"), Char("p"), Char("m")}, edits |-> 3] :
     h \in {11, 12}}

MCTasks ==
  UNION {DateTasks, TimeTasks, OffsetTasks, InstantTasks, MailTasks, FormatTasks}

=============================================================================
