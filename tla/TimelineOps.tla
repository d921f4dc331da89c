---------------------------- MODULE TimelineOps -----------------------------
(***************************************************************************)
(* The three views of an instant: Ticks (ticks.rs), CivilDateTime          *)
(* (datetime.rs) and Zoned (zoned.rs), over scaled integer widths.         *)
(*                                                                         *)
(* Ticks and Duration are both nanoseconds in an i128, here Inst.  A       *)
(* CivilDateTime is a day and the nanoseconds since its midnight.  A Zoned *)
(* is an instant and an offset: Zone::fixed turns a zero offset into Utc,  *)
(* so the offset in seconds is all there is to a Zone.                     *)
(***************************************************************************)
EXTENDS DateOps

CONSTANTS
  InstMin, InstMax,   \* i128::MIN and i128::MAX
  LongMin, LongMax,   \* i64::MIN and i64::MAX
  NsPerSec, SecsPerDay

Inst == InstMin..InstMax
Long == LongMin..LongMax

ASSUME DaySplitAssumption ==
  NsPerSec \in Nat \ {0} /\ SecsPerDay \in Nat \ {0} /\ NsPerDay = NsPerSec * SecsPerDay

(* Every date and every distance of two dates, with a day or two to spare, *)
(* is an i64, and an i64 of days is within an i128 of nanoseconds.         *)
ASSUME WidthAssumption ==
  /\ {InstMin, InstMax, LongMin, LongMax} \subseteq Int
  /\ {DateMin - 1, DateMax + 2, 0} \subseteq Long
  /\ {DateMin - DateMax - 1, DateMax - DateMin + 1} \subseteq Long
  /\ {LongMin * NsPerDay, LongMax * NsPerDay} \subseteq Inst

(* The `?` operator: go on with the value of a Result, or fail with it.    *)
Try(result, Continue(_)) == UNION {Continue(v) : v \in result}

(* Mutant: the sum is not checked against the width.                       *)
UncheckedInst(n) == Ok(n)

CheckedInst(n) == IF n \in Inst THEN Ok(n) ELSE Err

SaturatedInst(n) ==
  IF n < InstMin THEN InstMin ELSE IF n > InstMax THEN InstMax ELSE n

-----------------------------------------------------------------------------
(* Duration.                                                               *)
FromSeconds(seconds) == seconds * NsPerSec
FromDays(days)       == days * NsPerDay

CheckedNeg(delta)    == CheckedInst(-delta)

(* A u64 of days becomes an i64 first.                                     *)
CheckedDays(days) == IF days > LongMax THEN Err ELSE Ok(FromDays(days))

-----------------------------------------------------------------------------
(* CivilDateTime and its two bridges to the timeline.                      *)
TimesOfDay == 0..NsPerDay-1
Civils     == [date : Date, time : TimesOfDay]

(* Mutant: `/` and `%` truncate before the epoch.                          *)
ToCivilTruncated(ticks) ==
  {[date |-> d, time |-> Magnitude(TruncRem(ticks, NsPerDay))] :
     d \in FromDaysChecked(TruncDiv(ticks, NsPerDay))}

ToCivilUtc(ticks) ==
  LET days == FloorDivNs(ticks, NsPerDay)
  IN  IF days \notin Long
      THEN Err
      ELSE {[date |-> d, time |-> FloorRemNs(ticks, NsPerDay)] :
              d \in FromDaysChecked(days)}

ToTicksUtc(c) == c.date * NsPerDay + c.time

(* Mutant: the time of day wraps and the carry into the date is lost.      *)
CivilAddDroppingCarry(c, delta) ==
  {[c EXCEPT !.time = (c.time + delta) % NsPerDay,
             !.date = d] : d \in AddSigned(c.date, delta)}

CivilAdd(c, delta) == Try(CheckedInst(ToTicksUtc(c) + delta), ToCivilUtc)

CivilSub(c, delta) == Try(CheckedNeg(delta), LAMBDA n : CivilAdd(c, n))

CivilSince(c, earlier) ==
  (c.date - earlier.date) * NsPerDay + (c.time - earlier.time)

(* Mutant: the limit is chosen by the sign of the date, not of the delta.  *)
CivilSaturatingAddByDate(c, delta) ==
  UnwrapOr(CivilAdd(c, delta),
           IF c.date >= 0 THEN [date |-> DateMax, time |-> NsPerDay - 1]
                          ELSE [date |-> DateMin, time |-> 0])

CivilSaturatingAdd(c, delta) ==
  UnwrapOr(CivilAdd(c, delta),
           IF delta >= 0 THEN [date |-> DateMax, time |-> NsPerDay - 1]
                         ELSE [date |-> DateMin, time |-> 0])

(* The calendar steps keep the time of day.                                *)
OnDate(c, result) == {[c EXCEPT !.date = d] : d \in result}

CivilAddDays(c, days)     == OnDate(c, AddDays(c.date, days))
CivilSubDays(c, days)     == OnDate(c, SubDays(c.date, days))
CivilAddMonths(c, months) == OnDate(c, AddMonths(c.date, months))
CivilSubMonths(c, months) == OnDate(c, SubMonths(c.date, months))
CivilAddYears(c, years)   == OnDate(c, AddYears(c.date, years))

-----------------------------------------------------------------------------
(* Ticks.                                                                  *)
FromUnixSeconds(seconds, nanos) ==
  IF nanos >= NsPerSec THEN Err ELSE Ok(FromSeconds(seconds) + nanos)

(* Mutant: the seconds are floored, the remainder is not.                  *)
ToUnixSecondsMixed(ticks) ==
  LET seconds == FloorDivNs(ticks, NsPerSec)
  IN  IF seconds \in Long
      THEN Ok(<<seconds, Magnitude(TruncRem(ticks, NsPerSec))>>)
      ELSE Err

ToUnixSeconds(ticks) ==
  LET seconds == FloorDivNs(ticks, NsPerSec)
  IN  IF seconds \in Long
      THEN Ok(<<seconds, FloorRemNs(ticks, NsPerSec)>>)
      ELSE Err

FromTimespec(seconds, nanos) ==
  IF nanos \in 0..NsPerSec-1 THEN FromUnixSeconds(seconds, nanos) ELSE Err

(* timestamp, timestamp_millis, timestamp_micros and timestamp_nanos differ *)
(* in the size of their unit.  An i64 of any of them is an instant.        *)
Timestamp(ticks, unit) ==
  LET n == FloorDivNs(ticks, unit)
  IN  IF n \in Long THEN Ok(n) ELSE Err

FromTimestamp(n, unit) == n * unit

CivilFromTimestamp(n, unit) == ToCivilUtc(FromTimestamp(n, unit))

(* A SystemTime has no seconds before the epoch.                           *)
ToStdTime(ticks) == {p \in ToUnixSeconds(ticks) : p[1] >= 0}

TicksAdd(ticks, delta) == CheckedInst(ticks + delta)
TicksSub(ticks, delta) == CheckedInst(ticks - delta)

TicksAddDays(ticks, days) == Try(CheckedDays(days), LAMBDA d : TicksAdd(ticks, d))
TicksSubDays(ticks, days) == Try(CheckedDays(days), LAMBDA d : TicksSub(ticks, d))

TicksSaturatingAdd(ticks, delta) == SaturatedInst(ticks + delta)
TicksSaturatingSub(ticks, delta) == SaturatedInst(ticks - delta)

(* Mutant: the difference wraps at the width instead of saturating.        *)
DurationSinceWrapping(ticks, earlier) ==
  InstMin + ((ticks - earlier - InstMin) % (InstMax - InstMin + 1))

DurationSince(ticks, earlier) == SaturatedInst(ticks - earlier)

(* Project, adjust, project back: all three month steps of Ticks.          *)
TicksAdjust(ticks, Adjust(_)) ==
  {ToTicksUtc(c) : c \in Try(ToCivilUtc(ticks), Adjust)}

TicksAddMonths(ticks, n) == TicksAdjust(ticks, LAMBDA c : CivilAddMonths(c, n))

TicksSubMonths(ticks, n) == TicksAdjust(ticks, LAMBDA c : CivilSubMonths(c, n))
TicksAddYears(ticks, n)  == TicksAdjust(ticks, LAMBDA c : CivilAddYears(c, n))

-----------------------------------------------------------------------------
(* Zoned.                                                                  *)
Offsets == -(SecsPerDay-1)..(SecsPerDay-1)
Zoneds  == [ticks : Inst, offset : Offsets]

FromCivil(c, offset) ==
  {[ticks |-> t, offset |-> offset] :
     t \in TicksSub(ToTicksUtc(c), FromSeconds(offset))}

(* Mutant: an offset east of UTC is subtracted.                            *)
CivilMirrored(z) == Try(TicksSub(z.ticks, FromSeconds(z.offset)), ToCivilUtc)

Civil(z) == Try(TicksAdd(z.ticks, FromSeconds(z.offset)), ToCivilUtc)

OnTicks(z, result) == {[z EXCEPT !.ticks = t] : t \in result}

ZonedAdd(z, delta) == OnTicks(z, TicksAdd(z.ticks, delta))
ZonedSub(z, delta) == Try(CheckedNeg(delta), LAMBDA n : ZonedAdd(z, n))

ZonedAddDays(z, days) == Try(CheckedDays(days), LAMBDA d : ZonedAdd(z, d))
ZonedSubDays(z, days) == Try(CheckedDays(days), LAMBDA d : ZonedSub(z, d))

(* Read the local time, adjust it, anchor it again in the same zone.       *)
ZonedAdjust(z, Adjust(_)) ==
  Try(Try(Civil(z), Adjust), LAMBDA c : FromCivil(c, z.offset))

(* Mutant: the month step is taken on the UTC date.                        *)
ZonedAddMonthsUtc(z, n) == OnTicks(z, TicksAddMonths(z.ticks, n))

ZonedAddMonths(z, n) == ZonedAdjust(z, LAMBDA c : CivilAddMonths(c, n))
ZonedSubMonths(z, n) == ZonedAdjust(z, LAMBDA c : CivilSubMonths(c, n))
ZonedAddYears(z, n)  == ZonedAdjust(z, LAMBDA c : CivilAddYears(c, n))

WithZone(z, offset) == [z EXCEPT !.offset = offset]

=============================================================================
