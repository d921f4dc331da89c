------------------------------ MODULE ClockOps ------------------------------
(***************************************************************************)
(* TimeOfDay (time.rs): nanoseconds since midnight, their split into hour, *)
(* minute, second and nanosecond, and the additions that stay in the day   *)
(* or carry out of it.  The sizes of the units are constants; the code has *)
(* 24, 60, 60 and 10^9.                                                    *)
(***************************************************************************)
EXTENDS Calendar

CONSTANTS
  HoursPerDay, MinutesPerHour, SecondsPerMinute,
  MillisPerSecond, NsPerMilli,
  InstMin, InstMax,   \* i128::MIN and i128::MAX, the width of a Duration
  LongMin, LongMax    \* i64::MIN and i64::MAX, the width of a carry

ASSUME UnitAssumption ==
  {HoursPerDay, MinutesPerHour, SecondsPerMinute, MillisPerSecond, NsPerMilli}
    \subseteq Nat \ {0}

ASSUME WidthAssumption ==
  /\ {InstMin, InstMax, LongMin, LongMax} \subseteq Int
  /\ InstMin <= InstMax /\ LongMin < 0 /\ 0 < LongMax

NsPerSecond == MillisPerSecond * NsPerMilli
NsPerMinute == SecondsPerMinute * NsPerSecond
NsPerHour   == MinutesPerHour * NsPerMinute
NsPerDay    == HoursPerDay * NsPerHour

TimesOfDay == 0..NsPerDay-1
Inst       == InstMin..InstMax

Ok(v) == {v}
Err   == {}
Try(result, Continue(_)) == UNION {Continue(v) : v \in result}

Clamp(n, low, high) == IF n < low THEN low ELSE IF n > high THEN high ELSE n

-----------------------------------------------------------------------------
FromHmsNano(hour, minute, second, nano) ==
  IF hour < HoursPerDay /\ minute < MinutesPerHour
       /\ second < SecondsPerMinute /\ nano < NsPerSecond
  THEN Ok(hour * NsPerHour + minute * NsPerMinute + second * NsPerSecond + nano)
  ELSE Err

(* The product may also overflow a u32; that many nanoseconds are out of   *)
(* range, so it is the same Err.                                           *)
FromHmsMilli(hour, minute, second, milli) ==
  FromHmsNano(hour, minute, second, milli * NsPerMilli)

Hour(time)       == TruncDiv(time, NsPerHour)
Minute(time)     == TruncRem(TruncDiv(time, NsPerMinute), MinutesPerHour)
Second(time)     == TruncRem(TruncDiv(time, NsPerSecond), SecondsPerMinute)
Nanosecond(time) == TruncRem(time, NsPerSecond)
Millisecond(time) == TruncDiv(Nanosecond(time), NsPerMilli)

WithHour(time, h)   == FromHmsNano(h, Minute(time), Second(time), Nanosecond(time))
WithMinute(time, m) == FromHmsNano(Hour(time), m, Second(time), Nanosecond(time))

WithSecond(time, s) == FromHmsNano(Hour(time), Minute(time), s, Nanosecond(time))
WithNanosecond(time, n) == FromHmsNano(Hour(time), Minute(time), Second(time), n)

-----------------------------------------------------------------------------
CheckedNeg(delta) == IF -delta \in Inst THEN Ok(-delta) ELSE Err

(* Mutant: midnight of the next day is still accepted.                     *)
CheckedAddInclusive(time, delta) ==
  IF time + delta \in Inst /\ time + delta \in 0..NsPerDay
  THEN Ok(time + delta) ELSE Err

CheckedAdd(time, delta) ==
  IF time + delta \in Inst /\ time + delta \in TimesOfDay
  THEN Ok(time + delta) ELSE Err

CheckedSub(time, delta) ==
  Try(CheckedNeg(delta), LAMBDA n : CheckedAdd(time, n))

(* Mutant: the carry is truncated while the remainder is floored.          *)
OverflowingAddTruncated(time, delta) ==
  LET total == Clamp(time + delta, InstMin, InstMax)
  IN  [time  |-> EuclidRem(total, NsPerDay),
       carry |-> Clamp(TruncDiv(total, NsPerDay), LongMin, LongMax)]

OverflowingAdd(time, delta) ==
  LET total == Clamp(time + delta, InstMin, InstMax)
  IN  [time  |-> EuclidRem(total, NsPerDay),
       carry |-> Clamp(EuclidDiv(total, NsPerDay), LongMin, LongMax)]

=============================================================================
