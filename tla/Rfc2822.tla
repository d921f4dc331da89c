------------------------------- MODULE Rfc2822 ------------------------------
(***************************************************************************)
(* RFC 2822 dates (strftime.rs): `Tue,  1 Jul 2003 10:52:37 +0200`.  The   *)
(* text has no fraction of a second, a year of up to four digits and an    *)
(* offset without a colon, which is how strftime's %z writes one too.      *)
(***************************************************************************)
EXTENDS IsoText

(* pad_num: blanks or zeros up to a width, or neither; a sign comes first.  *)
PadNum(n, width, pad) ==
  IF pad = "0" THEN WritePadded(n, width)
  ELSE [i \in 1..Max({0, IF pad = "-" THEN 0 ELSE width - DigitCount(n)}) |-> Char(" ")]
         \o WritePadded(n, 1)

EmitSigned(n, width, pad) ==
  (IF n < 0 THEN <<Char("-")>> ELSE <<>>) \o PadNum(Magnitude(n), width, pad)

PushOffset(offset, colon) ==
  LET abs == Magnitude(offset)
      sep == IF colon THEN <<Char(":")>> ELSE <<>>
  IN  <<Char(IF offset < 0 THEN "-" ELSE "+")>>
        \o WritePadded(abs \div 3600, 2)
        \o sep \o WritePadded((abs % 3600) \div 60, 2)
        \o IF abs % 60 = 0 THEN <<>> ELSE sep \o WritePadded(abs % 60, 2)

WriteRfc2822(c, offset) ==
  LET ymd == CivilFromDays(c.date)
      sp  == <<Char(" ")>>
  IN  <<Name("weekday", WeekdayOfDays(c.date)), Char(",")>> \o sp
        \o PadNum(ymd.day, 2, "_") \o sp \o <<Name("month", ymd.month)>> \o sp
        \o EmitSigned(ymd.year, 4, "0") \o sp
        \o WriteTime(c.time, "None") \o sp \o PushOffset(offset, FALSE)

WriteTicks2822(t) ==
  WriteOr(CivilAt(t, 0), LAMBDA c : WriteRfc2822(c, 0),
          WriteNanos(t) \o <<Char(" ")>> \o PushOffset(0, FALSE))

WriteZoned2822(z) ==
  WriteOr(CivilAt(z.ticks, z.offset), LAMBDA c : WriteRfc2822(c, z.offset),
          WriteNanos(z.ticks) \o WriteOffset(z.offset))

-----------------------------------------------------------------------------
(* An obsolete year of one or two digits.                                  *)
FullYear(n) ==
  IF n.digits > 2 THEN n.value ELSE IF n.value >= 50 THEN 1900 + n.value ELSE 2000 + n.value

(* A weekday is optional; letters that are none are an error.  So are the   *)
(* comma, which needs no weekday, and the seconds.                         *)
ScanWeekday(text) ==
  IF text = <<>> \/ ~IsName(text[1]) THEN Ok([value |-> -1, rest |-> text])
  ELSE ReadName(text, "weekday")

SkipComma(text) == SkipSpaces(IF NextIs(text, {","}) THEN Tail(text) ELSE text)

ScanDay(weekday) ==
  {[got |-> <<weekday.value, n.value>>, rest |-> SkipSpaces(n.rest)] :
     n \in ReadNumber(SkipComma(weekday.rest), 1, 2)}

ScanMonth(s) ==
  {[got |-> Append(s.got, n.value), rest |-> SkipSpaces(n.rest)] :
     n \in ReadName(s.rest, "month")}

ScanYear(s) ==
  {[got |-> Append(s.got, FullYear(n)), rest |-> SkipSpaces(n.rest)] :
     n \in ReadNumber(s.rest, 1, 4)}

ScanClock(s) ==
  UNION {ScanOptional(q, {":"}, <<Colon, Number(1, 2)>>) :
           q \in Scan(s, <<Number(1, 2), Colon, Number(1, 2)>>)}

ScanZone(s) ==
  LET text == SkipSpaces(s.rest)
      Got(v) == Append(s.got, v)
  IN  IF NextIs(text, {"+", "-"}) THEN ScanOffset([s EXCEPT !.rest = text])
      ELSE IF NextIs(text, {"Z", "z"}) THEN Ok([got |-> Got(0), rest |-> Tail(text)])
      ELSE {[got |-> Got(n.value), rest |-> n.rest] :
              n \in ReadName(text, "zone") \cup ReadName(text, "UTC")}

(* Mutant: the weekday is read and not compared.                           *)
Fields2822Unchecked(s) ==
  {c \in [date : FromYmd(s.got[4], s.got[3], s.got[2]),
          time : FromHmsNano(s.got[5], s.got[6], s.got[7], 0)] : TRUE}

Fields2822(s) ==
  {c \in [date : FromYmd(s.got[4], s.got[3], s.got[2]),
          time : FromHmsNano(s.got[5], s.got[6], s.got[7], 0)] :
     s.got[1] \in {-1, WeekdayOfDays(c.date)}}

Then(result, Step(_)) == UNION {Step(s) : s \in result}

(* parse_rfc2822, anchored by Zoned::from_rfc2822.                         *)
ReadZoned2822(text) ==
  LET scanned == Then(Then(Then(Then(Then(Then(ScanWeekday(text), ScanDay),
                   ScanMonth), ScanYear), ScanClock), ScanZone),
                   LAMBDA s : IF AtEnd(s) THEN Ok(s) ELSE Err)
  IN  UNION {{[ticks |-> InstantOf(c, s.got[8]), offset |-> s.got[8]] :
                c \in Fields2822(s)} : s \in scanned}

ReadTicks2822(text) == {z.ticks : z \in ReadZoned2822(text)}

=============================================================================
