------------------------------- MODULE IsoText ------------------------------
(***************************************************************************)
(* ISO 8601 and RFC 3339 texts (format.rs) of dates, times of day, civil   *)
(* date-times, instants, zoned instants, offsets and zones, and the parts  *)
(* of an Offset (offset.rs, zone.rs).                                      *)
(*                                                                         *)
(* A time of day is the record of its fields.  An instant, an i128 of      *)
(* nanoseconds in the code, is the day, the second of the day and the      *)
(* nanosecond that floor division splits it into; no date needs to exist   *)
(* for that day.  An offset, and the zone that has it, is its seconds.     *)
(***************************************************************************)
EXTENDS ScanText

SecondsPerDay == 86400

Offsets == -(SecondsPerDay - 1)..(SecondsPerDay - 1)

FromSeconds(seconds) == IF seconds \in Offsets THEN Ok(seconds) ELSE Err

(* The hours carry the sign, minutes and seconds are magnitudes.           *)
FromHms(hours, minutes, seconds) ==
  LET magnitude == Magnitude(hours) * 3600 + minutes * 60 + seconds
  IN  IF minutes < 60 /\ seconds < 60
      THEN FromSeconds(IF hours < 0 THEN -magnitude ELSE magnitude)
      ELSE Err

AsHms(offset) ==
  LET abs == Magnitude(offset)
  IN  [hours   |-> IF offset < 0 THEN -(abs \div 3600) ELSE abs \div 3600,
       minutes |-> (abs \div 60) % 60,
       seconds |-> abs % 60]

Time(h, m, s, ns) == [hour |-> h, minute |-> m, second |-> s, nanos |-> ns]

Midnight == Time(0, 0, 0, 0)

Nanos      == 0..10^9 - 1
TimesOfDay == [hour : 0..23, minute : 0..59, second : 0..59, nanos : Nanos]

DaySeconds == {s \in Nat : s < SecondsPerDay}
Instants   == [day : Int, second : DaySeconds, nanos : Nanos]

FromHmsNano(h, m, s, ns) ==
  IF h < 24 /\ m < 60 /\ s < 60 THEN Ok(Time(h, m, s, ns)) ELSE Err

SecondOfDay(t) == t.hour * 3600 + t.minute * 60 + t.second

TimeAt(second, nanos) ==
  Time(second \div 3600, (second \div 60) % 60, second % 60, nanos)

(* The instant so many seconds after another one.                          *)
Shift(t, seconds) ==
  LET second == t.second + seconds
  IN  [t EXCEPT !.day    = @ + (second \div SecondsPerDay),
                !.second = second % SecondsPerDay]

(* The reading of an instant at an offset, and the instant of a reading.   *)
CivilAt(t, offset) ==
  LET local == Shift(t, offset)
  IN  {[date |-> d, time |-> TimeAt(local.second, local.nanos)] :
         d \in FromDaysChecked(local.day)}

InstantOf(c, offset) ==
  Shift([day |-> c.date, second |-> SecondOfDay(c.time), nanos |-> c.time.nanos],
        -offset)

-----------------------------------------------------------------------------
(* Writers.                                                                *)
WriteYmd(c) ==
  (IF c.year < 0 THEN <<Char("-")>> ELSE <<>>)
    \o WritePadded(Magnitude(c.year), 4) \o <<Char("-")>>
    \o WritePadded(c.month, 2) \o <<Char("-")>> \o WritePadded(c.day, 2)

WriteDate(date) == WriteYmd(CivilFromDays(date))

(* FractionDigits: a fixed count, or as many as needed.                    *)
FractionDigits == [None |-> 0, Milli |-> 3, Micro |-> 6, Nano |-> 9, Auto |-> 9]

(* Mutant: the zeros that lead a fraction are lost.                        *)
WriteFractionUnpadded(nanos, fraction) ==
  LET n == FractionDigits[fraction]
  IN  IF n = 0 \/ (fraction = "Auto" /\ nanos = 0)
      THEN <<>>
      ELSE <<Char(".")>> \o WritePadded(nanos \div 10^(9 - n), 1)

WriteFraction(nanos, fraction) ==
  LET n     == FractionDigits[fraction]
      zeros == CHOOSE k \in 0..8 : nanos % 10^k = 0 /\ (nanos \div 10^k) % 10 # 0
  IN  IF n = 0 \/ (fraction = "Auto" /\ nanos = 0)
      THEN <<>>
      ELSE IF fraction = "Auto"
      THEN <<Char("."), Digits(nanos \div 10^zeros, 9 - zeros)>>
      ELSE <<Char("."), Digits(nanos \div 10^(9 - n), n)>>

WriteTime(t, fraction) ==
  WritePadded(t.hour, 2) \o <<Char(":")>> \o WritePadded(t.minute, 2)
    \o <<Char(":")>> \o WritePadded(t.second, 2) \o WriteFraction(t.nanos, fraction)

WriteOffset(offset) ==
  LET abs == Magnitude(offset)
  IN  IF offset = 0
      THEN <<Char("Z")>>
      ELSE <<Char(IF offset < 0 THEN "-" ELSE "+")>>
             \o WritePadded(abs \div 3600, 2) \o <<Char(":")>>
             \o WritePadded((abs % 3600) \div 60, 2)
             \o IF abs % 60 = 0 THEN <<>> ELSE <<Char(":")>> \o WritePadded(abs % 60, 2)

WriteCivil(c, fraction) ==
  WriteDate(c.date) \o <<Char("T")>> \o WriteTime(c.time, fraction)

WriteRfc3339(c, offset, fraction) == WriteCivil(c, fraction) \o WriteOffset(offset)

WriteZone(offset) == IF offset = 0 THEN <<Name("UTC", 0)>> ELSE WriteOffset(offset)

(* An instant that has no date is its nanoseconds, in more digits than any  *)
(* reader takes for one number.                                            *)
WriteNanos(t) ==
  (IF t.day < 0 THEN <<Char("-")>> ELSE <<>>) \o <<Digits(1, 2), Digits(0, 9)>>

WriteOr(civil, Write(_), fallback) ==
  IF civil = Err THEN fallback ELSE Write(CHOOSE c \in civil : TRUE)

WriteTicks(t, fraction) ==
  WriteOr(CivilAt(t, 0), LAMBDA c : WriteRfc3339(c, 0, fraction),
          WriteNanos(t) \o <<Char("s")>>)

WriteZoned(z, fraction) ==
  WriteOr(CivilAt(z.ticks, z.offset), LAMBDA c : WriteRfc3339(c, z.offset, fraction),
          WriteNanos(z.ticks) \o WriteOffset(z.offset))

-----------------------------------------------------------------------------
(* Readers of the parts.                                                   *)
ScanDate(s) ==
  LET signed == NextIs(s.rest, {"+", "-"})
      sign   == IF NextIs(s.rest, {"-"}) THEN -1 ELSE 1
  IN  {[q EXCEPT !.got[1] = sign * @] :
         q \in Scan(IF signed THEN [s EXCEPT !.rest = Tail(@)] ELSE s,
                    <<Number(4, 9), Expect({"-"}), Two, Expect({"-"}), Two>>)}

(* Mutant: digits behind the ninth are dropped.                            *)
ScanFractionTruncating(s) ==
  IF ~NextIs(s.rest, {"."}) THEN Ok([s EXCEPT !.got = Append(@, 0)])
  ELSE {[got  |-> Append(s.got, n.value * 10^(9 - n.digits)),
         rest |-> IF DigitsAhead(n.rest) > 0 THEN Tail(n.rest) ELSE n.rest] :
          n \in ReadNumber(Tail(s.rest), 1, 9)}

ScanFraction(s) ==
  IF ~NextIs(s.rest, {"."}) THEN Ok([s EXCEPT !.got = Append(@, 0)])
  ELSE IF DigitsAhead(Tail(s.rest)) > 9 THEN Err
  ELSE {[got |-> Append(s.got, n.value * 10^(9 - n.digits)), rest |-> n.rest] :
          n \in ReadNumber(Tail(s.rest), 1, 9)}

ScanTime(s) ==
  UNION {ScanFraction(q) : q \in Scan(s, <<Two, Colon, Two, Colon, Two>>)}

ScanMinutes(s) ==
  IF NextIs(s.rest, {"9"}) THEN Scan(s, <<Two>>)
  ELSE ScanOptional(s, {":"}, <<Colon, Two>>)

(* The sign, the hours, then minutes with or without a colon, then seconds *)
(* with one.                                                               *)
ScanOffset(s) ==
  LET sign == IF NextIs(s.rest, {"-"}) THEN -1 ELSE 1
      Result(q) ==
        LET h == q.got[1] m == q.got[2] sec == q.got[3]
        IN  IF h > 23 \/ m > 59 \/ sec > 59
            THEN Err
            ELSE {[got |-> Append(s.got, o), rest |-> q.rest] :
                    o \in FromSeconds(sign * (h * 3600 + m * 60 + sec))}
  IN  IF NextIs(s.rest, {"Z", "z"})
      THEN Ok([got |-> Append(s.got, 0), rest |-> Tail(s.rest)])
      ELSE UNION {UNION {UNION {Result(q) :
                    q \in ScanOptional(m, {":"}, <<Colon, Two>>)} :
                    m \in ScanMinutes(h)} :
                    h \in Scan(Start(s.rest), <<Expect({"+", "-"}), Two>>)}

-----------------------------------------------------------------------------
(* Readers.  scan_iso takes a time exactly where one is required, and an   *)
(* offset likewise; nothing may follow.                                    *)
AtEnd(s) == s.rest = <<>>

ScanIso(text, withTime, withOffset) ==
  LET Timed(s) ==
        IF ~withTime THEN Ok(s)
        ELSE UNION {ScanTime(q) : q \in Scan(s, <<Expect({"T", "t", " "})>>)}
      Placed(s) == IF withOffset THEN ScanOffset(s) ELSE Ok(s)
  IN  {s \in UNION {UNION {Placed(t) : t \in Timed(d)} : d \in ScanDate(Start(text))} :
         AtEnd(s)}

DateOf(s) == FromYmd(s.got[1], s.got[2], s.got[3])

CivilOf(s) ==
  [date : DateOf(s), time : FromHmsNano(s.got[4], s.got[5], s.got[6], s.got[7])]

ReadDate(text) == UNION {DateOf(s) : s \in ScanIso(text, FALSE, FALSE)}

ReadTime(text) ==
  UNION {FromHmsNano(s.got[1], s.got[2], s.got[3], s.got[4]) :
           s \in {q \in ScanTime(Start(text)) : AtEnd(q)}}

ReadCivil(text) == UNION {CivilOf(s) : s \in ScanIso(text, TRUE, FALSE)}

ReadOffset(text) == {s.got[1] : s \in {q \in ScanOffset(Start(text)) : AtEnd(q)}}

ReadZone(text) == IF text = <<Name("UTC", 0)>> THEN Ok(0) ELSE ReadOffset(text)

(* The instant is that of the reading, minus the offset; Zoned keeps it.   *)
ReadZoned(text) ==
  UNION {{[ticks |-> InstantOf(c, s.got[8]), offset |-> s.got[8]] : c \in CivilOf(s)} :
           s \in ScanIso(text, TRUE, TRUE)}

ReadTicks(text) == {z.ticks : z \in ReadZoned(text)}

=============================================================================
