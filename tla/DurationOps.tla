---------------------------- MODULE DurationOps -----------------------------
(***************************************************************************)
(* Duration (duration.rs): signed nanoseconds in an i128, its checked and  *)
(* saturating arithmetic, and its conversions to and from the units.       *)
(***************************************************************************)
EXTENDS Calendar, Sequences

CONSTANTS
  InstMin, InstMax,   \* i128::MIN and i128::MAX
  LongMin, LongMax,   \* i64::MIN and i64::MAX
  ULongMax,           \* u64::MAX
  NsPerMicro, NsPerMilli, NsPerSec, NsPerMin, NsPerHour, NsPerDay

Inst == InstMin..InstMax
Long == LongMin..LongMax

NsPerWeek == 7 * NsPerDay

(* From the finest to the coarsest; each is a multiple of the one before.  *)
UnitSizes ==
  <<1, NsPerMicro, NsPerMilli, NsPerSec, NsPerMin, NsPerHour, NsPerDay, NsPerWeek>>

ASSUME UnitAssumption ==
  /\ \A i \in DOMAIN UnitSizes : UnitSizes[i] \in Nat \ {0}
  /\ \A i \in 2..Len(UnitSizes) : UnitSizes[i] % UnitSizes[i - 1] = 0

(* Two's complement, and an i64 of weeks is an i128 of nanoseconds.        *)
ASSUME WidthAssumption ==
  /\ InstMax \in Nat /\ InstMin = -InstMax - 1
  /\ LongMax \in Nat /\ LongMin = -LongMax - 1
  /\ ULongMax = 2 * LongMax + 1
  /\ {LongMin * NsPerWeek, LongMax * NsPerWeek} \subseteq Inst
  /\ (ULongMax + 1) * NsPerSec \in Inst

Ok(v) == {v}
Err   == {}

CheckedInst(n) == IF n \in Inst THEN Ok(n) ELSE Err

SaturatedInst(n) ==
  IF n < InstMin THEN InstMin ELSE IF n > InstMax THEN InstMax ELSE n

-----------------------------------------------------------------------------
(* Constructors.  Seconds and coarser units come in an i64 and always fit; *)
(* microseconds and milliseconds may come in an i128.                      *)
FromUnits(count, unit)        == count * unit
FromScaled(count, unit)       == SaturatedInst(count * unit)
CheckedFromScaled(count, unit) == CheckedInst(count * unit)

(* Mutant: the count of a unit is floored, as it is for an instant.        *)
AsUnitsFloored(d, unit) == FloorDivNs(d, unit)

AsUnits(d, unit) == TruncDiv(d, unit)

(* num_seconds and its like: the truncated count, if it is an i64.         *)
NumUnits(d, unit) ==
  IF AsUnits(d, unit) \in Long THEN Ok(AsUnits(d, unit)) ELSE Err

-----------------------------------------------------------------------------
UnsignedAbs(d) == Magnitude(d)

CheckedAbs(d)     == IF d = InstMin THEN Err ELSE Ok(Magnitude(d))
CheckedNeg(d)     == CheckedInst(-d)
CheckedAdd(d, e)  == CheckedInst(d + e)
CheckedSub(d, e)  == CheckedInst(d - e)

(* Mutant: the product saturates where the caller asked for a check.       *)
CheckedMulSaturating(d, factor) == Ok(SaturatedInst(d * factor))

CheckedMul(d, factor) == CheckedInst(d * factor)

(* Mutant: only a zero divisor is refused.                                 *)
CheckedDivByNonZero(d, divisor) ==
  IF divisor = 0 THEN Err ELSE Ok(TruncDiv(d, divisor))

(* i128::checked_div, also between two durations: no quotient by zero, and *)
(* none of MIN by -1.                                                      *)
CheckedDiv(d, divisor) ==
  IF divisor = 0 THEN Err ELSE CheckedInst(TruncDiv(d, divisor))

CheckedDivDuration(d, e) == CheckedDiv(d, e)

SaturatingAdd(d, e)      == SaturatedInst(d + e)
SaturatingSub(d, e)      == SaturatedInst(d - e)
SaturatingMul(d, factor) == SaturatedInst(d * factor)

-----------------------------------------------------------------------------
(* core::time::Duration: a u64 of seconds and the nanoseconds below one.   *)
FromStd(s) == s.secs * NsPerSec + s.nanos

(* Mutant: the sign is looked at after the split.                          *)
ToStdOfSeconds(d) ==
  LET secs == AsUnits(d, NsPerSec)
  IN  IF secs \in 0..ULongMax
      THEN Ok([secs |-> secs, nanos |-> Magnitude(TruncRem(d, NsPerSec))])
      ELSE Err

ToStd(d) ==
  LET secs == FloorDivNs(d, NsPerSec)
  IN  IF d >= 0 /\ secs <= ULongMax
      THEN Ok([secs |-> secs, nanos |-> FloorRemNs(d, NsPerSec)])
      ELSE Err

=============================================================================
