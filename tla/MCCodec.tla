------------------------------- MODULE MCCodec ------------------------------
(***************************************************************************)
(* Codec with dates within 20,000 days of the epoch, so that the seconds   *)
(* of a packed date-time are a number TLC has, and durations of the size   *)
(* of MCDurationRead: ten days are one digit too many.                     *)
(***************************************************************************)
EXTENDS Codec

MCDateMin == -20000
MCDateMax == 20000
MCInstMin == -131072
MCInstMax == 131071
MCLongMin == -4

Instant(d, s, ns) == [day |-> d, second |-> s, nanos |-> ns]
At(d, s, ns, o)   == [ticks |-> Instant(d, s, ns), offset |-> o]
Civil(d, t)       == [date |-> d, time |-> t]

Days  == {MCDateMin, -1, 0, DaysFromCivil(2024, 2, 29), MCDateMax}
Times == {Midnight, Time(12, 30, 0, 500000000), Time(23, 59, 59, 999999999)}

Moments == {Instant(d, s, ns) : d \in Days \cup {MCDateMin - 1, MCDateMax + 1},
                                 s \in {0, 86399}, ns \in {0, 7}}

OffsetSamples == {0, 1, -1, 19800, -3661, 86399, -86399}

MCSamples ==
  [Ticks         |-> Moments,
   Duration      |-> {0, 1, -1, 100, 11999, -11999, 12000, -12000, MCInstMin, MCInstMax},
   Date          |-> Days,
   TimeOfDay     |-> Times,
   CivilDateTime |-> {Civil(d, t) : d \in Days, t \in Times},
   Offset        |-> OffsetSamples,
   Zone          |-> OffsetSamples,
   Zoned         |-> {[ticks |-> t, offset |-> o] : t \in Moments, o \in {0, 19800, -3661}},
   Weekday       |-> 0..6,
   Month         |-> 1..12]

(* The same instant in other forms, and texts that are not of their type.  *)
Noon == Civil(DaysFromCivil(2023, 12, 31), Time(12, 0, 0, 1000))

Loose(offset) ==
  WriteDate(Noon.date) \o <<Char(" ")>> \o WriteTime(Noon.time, "Nano") \o offset

OffsetTexts ==
  {WriteOffset(3600), <<Char("z")>>, <<Char("-"), Digits(0, 2)>>,
   <<Char("+"), Digits(530, 4)>>, <<Char("+"), Digits(24, 2)>>,
   <<Char("-"), Digits(2359, 4), Char(":"), Digits(59, 2)>>}

TextWires ==
  [Ticks         |-> {Loose(o) : o \in OffsetTexts} \cup {Loose(<<>>), WriteDate(0)},
   Duration      |-> {<<Dur!Byte("P"), [number |-> Dur!Whole(n), byte |-> "W"]>> :
                        n \in {1, 2, 9, 10}},
   Date          |-> {<<Char("+")>> \o WriteDate(0), Loose(<<>>)},
   TimeOfDay     |-> {WriteTime(Midnight, "Nano"), <<Digits(24, 2)>>},
   CivilDateTime |-> {Loose(<<>>), Loose(<<Char("Z")>>), WriteDate(0)},
   Offset        |-> OffsetTexts,
   Zone          |-> OffsetTexts \cup {<<Name("word", 0)>>},
   Zoned         |-> {Loose(o) : o \in OffsetTexts} \cup {Loose(<<>>), WriteNanos(Instant(0, 0, 0))},
   Weekday       |-> {<<Digits(n, 1)>> : n \in {0, 6, 7}} \cup {<<Name("word", 0)>>},
   Month         |-> {<<Digits(n, 2)>> : n \in {0, 1, 12, 13}} \cup {<<Name("weekday", 1)>>}]

SecondWires == {-86401, -86400, -1, 0, 86399, 86400}

BinaryWires ==
  [Ticks         |-> {<<t>> : t \in Moments},
   Duration      |-> {<<d>> : d \in {MCInstMin, 12001, MCInstMax}},
   Date          |-> {<<d>> : d \in Days},
   TimeOfDay     |-> {<<Split(s, 9)>> : s \in {0, 86399, 86400, 2000000000}},
   CivilDateTime |-> {<<Split(d * 86400 + s, ns)>> :
                        d \in {MCDateMin, 0, MCDateMax, MCDateMax + 1},
                        s \in {-1, 0, 86399}, ns \in {0, 999999999}},
   Offset        |-> {<<s>> : s \in SecondWires},
   Zone          |-> {<<>>, <<0>>, <<1>>, <<2>>, <<0, 0>>, <<2, 60>>, <<1, 60, 60>>}
                       \cup {<<1, s>> : s \in SecondWires},
   Zoned         |-> {<<Instant(0, 5, 0)>>, <<Instant(0, 5, 0), 60, 60>>}
                       \cup {<<Instant(MCDateMax, 5, 0), s>> : s \in SecondWires},
   Weekday       |-> {<<n>> : n \in {0, 6, 7, 255}},
   Month         |-> {<<n>> : n \in {0, 1, 12, 13}}]

MCForeignWires == [form \in BOOLEAN |-> IF form THEN TextWires ELSE BinaryWires]

=============================================================================
