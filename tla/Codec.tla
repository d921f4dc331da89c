-------------------------------- MODULE Codec -------------------------------
(***************************************************************************)
(* The codec (codec.rs): each type has a text for formats that people read *)
(* and a number or an array for binary ones.  What nextjson and rustbinary *)
(* make of strings, numbers and arrays is theirs; a wire here is the text, *)
(* or the sequence of the numbers.                                         *)
(*                                                                         *)
(* A caller encodes a value, and decodes what arrives: that same wire, or  *)
(* one that somebody else made.                                            *)
(***************************************************************************)
EXTENDS IsoText

CONSTANTS
  Samples,            \* type -> values
  ForeignWires,       \* [human, type] -> wires of another origin
  InstMin, InstMax, LongMin, LongMax, ULongMax,          \* of Duration
  NsPerMicro, NsPerMilli, NsPerSec, NsPerMin, NsPerHour,
  MaxIntDigits, MaxFracDigits, Numbers

Dur == INSTANCE DurationText

Types == DOMAIN Samples

-----------------------------------------------------------------------------
EncodeTicks(human, t) == IF human THEN WriteTicks(t, "Auto") ELSE <<t>>
DecodeTicks(human, w) == IF human THEN ReadTicks(w) ELSE Ok(w[1])

EncodeDuration(human, d) == IF human THEN Dur!Format(d) ELSE <<d>>
DecodeDuration(human, w) == IF human THEN Dur!Parse(w) ELSE Ok(w[1])

EncodeDate(human, d) == IF human THEN WriteDate(d) ELSE <<d>>
DecodeDate(human, w) == IF human THEN ReadDate(w) ELSE Ok(w[1])

(* Nanoseconds since midnight or the epoch are split into whole seconds    *)
(* and the rest, as floor division does.                                   *)
Split(second, nanos) == [second |-> second, nanos |-> nanos]

FromNanosSinceMidnight(n) ==
  IF n.second >= SecondsPerDay THEN Err ELSE Ok(TimeAt(n.second, n.nanos))

EncodeTime(human, t) ==
  IF human THEN WriteTime(t, "Auto") ELSE <<Split(SecondOfDay(t), t.nanos)>>
DecodeTime(human, w) == IF human THEN ReadTime(w) ELSE FromNanosSinceMidnight(w[1])

(* One number packs a date and a time of day.                              *)
EncodeCivil(human, c) ==
  IF human THEN WriteCivil(c, "Auto")
  ELSE <<Split(c.date * SecondsPerDay + SecondOfDay(c.time), c.time.nanos)>>

(* Mutant: `/` and `%` instead of div_euclid and rem_euclid.               *)
DecodeCivilTruncated(human, w) ==
  IF human THEN ReadCivil(w)
  ELSE [date : FromDaysChecked(TruncDiv(w[1].second, SecondsPerDay)),
        time : FromNanosSinceMidnight(
                 [w[1] EXCEPT !.second = Magnitude(TruncRem(@, SecondsPerDay))])]

DecodeCivil(human, w) ==
  IF human THEN ReadCivil(w)
  ELSE [date : FromDaysChecked(EuclidDiv(w[1].second, SecondsPerDay)),
        time : FromNanosSinceMidnight(
                 [w[1] EXCEPT !.second = EuclidRem(@, SecondsPerDay)])]

EncodeOffset(human, o) == IF human THEN WriteOffset(o) ELSE <<o>>
DecodeOffset(human, w) == IF human THEN ReadOffset(w) ELSE FromSeconds(w[1])

(* A tag, and the seconds of a zone that is not UTC.                       *)
EncodeZone(human, z) ==
  IF human THEN WriteZone(z) ELSE IF z = 0 THEN <<0>> ELSE <<1, z>>

(* Mutant: what follows the entries that are read is left.                 *)
DecodeZoneHead(human, w) ==
  IF human THEN ReadZone(w)
  ELSE IF w # <<>> /\ w[1] = 0 THEN Ok(0)
  ELSE IF Len(w) > 1 /\ w[1] = 1 THEN FromSeconds(w[2])
  ELSE Err

DecodeZone(human, w) ==
  IF human THEN ReadZone(w)
  ELSE IF w = <<0>> THEN Ok(0)
  ELSE IF Len(w) = 2 /\ w[1] = 1 THEN FromSeconds(w[2])
  ELSE Err

EncodeZoned(human, z) ==
  IF human THEN WriteZoned(z, "Auto") ELSE <<z.ticks, z.offset>>
DecodeZoned(human, w) ==
  IF human THEN ReadZoned(w)
  ELSE IF Len(w) = 2 THEN {[ticks |-> w[1], offset |-> o] : o \in FromSeconds(w[2])}
  ELSE Err

(* A name in quotes, or a number without.                                  *)
WeekdayOf(n) == IF n \in 0..6 THEN Ok(n) ELSE Err
MonthOf(n)   == IF n \in 1..12 THEN Ok(n) ELSE Err

DecodeName(w, kind, Of(_)) ==
  IF IsDigits(w[1]) THEN Of(w[1].value)
  ELSE {n.value : n \in {q \in ReadName(w, kind) : AtEnd(q)}}

EncodeWeekday(human, d) == IF human THEN <<Name("weekday", d)>> ELSE <<d>>
DecodeWeekday(human, w) ==
  IF human THEN DecodeName(w, "weekday", WeekdayOf) ELSE WeekdayOf(w[1])

EncodeMonth(human, m) == IF human THEN <<Name("month", m)>> ELSE <<m>>
DecodeMonth(human, w) ==
  IF human THEN DecodeName(w, "month", MonthOf) ELSE MonthOf(w[1])

-----------------------------------------------------------------------------
Encode(type, human, v) ==
  CASE type = "Ticks"         -> EncodeTicks(human, v)
    [] type = "Duration"      -> EncodeDuration(human, v)
    [] type = "Date"          -> EncodeDate(human, v)
    [] type = "TimeOfDay"     -> EncodeTime(human, v)
    [] type = "CivilDateTime" -> EncodeCivil(human, v)
    [] type = "Offset"        -> EncodeOffset(human, v)
    [] type = "Zone"          -> EncodeZone(human, v)
    [] type = "Zoned"         -> EncodeZoned(human, v)
    [] type = "Weekday"       -> EncodeWeekday(human, v)
    [] type = "Month"         -> EncodeMonth(human, v)

Decode(type, human, w) ==
  CASE type = "Ticks"         -> DecodeTicks(human, w)
    [] type = "Duration"      -> DecodeDuration(human, w)
    [] type = "Date"          -> DecodeDate(human, w)
    [] type = "TimeOfDay"     -> DecodeTime(human, w)
    [] type = "CivilDateTime" -> DecodeCivil(human, w)
    [] type = "Offset"        -> DecodeOffset(human, w)
    [] type = "Zone"          -> DecodeZone(human, w)
    [] type = "Zoned"         -> DecodeZoned(human, w)
    [] type = "Weekday"       -> DecodeWeekday(human, w)
    [] type = "Month"         -> DecodeMonth(human, w)

-----------------------------------------------------------------------------
VARIABLES
  type,     \* what is sent
  origin,   \* the value the wires come from, if they come from one
  held,     \* the value the caller has, if it could be decoded
  human,    \* the form of the wire
  wire      \* what was sent last and not yet decoded, if anything

vars == <<type, origin, held, human, wire>>

Init ==
  /\ type \in Types
  /\ held \in {Ok(v) : v \in Samples[type]}
  /\ origin = held
  /\ human = FALSE /\ wire = {}

Send ==
  /\ wire = {}
  /\ human' \in BOOLEAN
  /\ wire' \in {{Encode(type, human', v)} : v \in held}
  /\ UNCHANGED <<type, origin, held>>

SendForeign ==
  /\ wire = {}
  /\ human' \in BOOLEAN
  /\ wire' \in {{w} : w \in ForeignWires[human'][type]}
  /\ origin' = {}
  /\ UNCHANGED <<type, held>>

Receive ==
  /\ wire # {}
  /\ held' = UNION {Decode(type, human, w) : w \in wire}
  /\ origin' = IF origin = {} THEN held' ELSE origin
  /\ wire' = {}
  /\ UNCHANGED <<type, human>>

Next == Send \/ SendForeign \/ Receive

Spec == Init /\ [][Next]_vars

-----------------------------------------------------------------------------
(* The values of a type that their own text brings back: instants with a   *)
(* civil date, and durations of no more days than the reader has digits.   *)
Readable(v) ==
  CASE type = "Ticks"    -> CivilAt(v, 0) # Err
    [] type = "Zoned"    -> CivilAt(v.ticks, v.offset) # Err
    [] type = "Duration" -> Dur!UnsignedAbs(v) \div NsPerDay <= Dur!MaxInt
    [] OTHER -> TRUE

(* A value goes from hand to hand, as text and as numbers, and stays what  *)
(* it was, wherever it came from first; it is lost only as a text that     *)
(* cannot be read, and every other text can.                               *)
ValuesSurvive ==
  [][wire # {} /\ origin # {} =>
       held' = {v \in origin : ~human \/ Readable(v)}]_vars

Valid(v) ==
  CASE type = "Ticks"    -> v \in [day : Int, second : 0..SecondsPerDay - 1, nanos : 0..10^9 - 1]
    [] type = "Duration" -> v \in Dur!Inst
    [] type = "Date"     -> v \in Date
    [] type = "TimeOfDay" -> FromHmsNano(v.hour, v.minute, v.second, v.nanos) = Ok(v)
    [] type = "CivilDateTime" -> v.date \in Date /\ SecondOfDay(v.time) < SecondsPerDay
    [] type \in {"Offset", "Zone"} -> v \in Offsets
    [] type = "Zoned"    -> v.offset \in Offsets
    [] type = "Weekday"  -> v \in 0..6
    [] type = "Month"    -> v \in 1..12

(* Whatever wire arrives, what is decoded is a value of the type; a binary *)
(* wire is the only one of its value, but that UTC may be sent as a fixed  *)
(* zone of no seconds.                                                     *)
OnlyValuesDecode ==
  \A w \in wire : \A v \in Decode(type, human, w) :
    /\ Valid(v)
    /\ human \/ Encode(type, FALSE, v) = w \/ (type = "Zone" /\ w = <<1, 0>>)

=============================================================================
