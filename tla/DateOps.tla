------------------------------ MODULE DateOps -------------------------------
(***************************************************************************)
(* The fallible operations of Date (date.rs) and IsoWeek (units.rs) over a *)
(* scaled integer width.  A Date is its day count since 1970-01-01; the    *)
(* code stores it in an i32, the model in DateMin..DateMax.                *)
(*                                                                         *)
(* A Result is the set of its values: {v} for Ok(v), {} for Err.  The `?`  *)
(* operator is then UNION over the set, and `unwrap_or(v)` a test for {}.  *)
(***************************************************************************)
EXTENDS Calendar

CONSTANTS
  DateMin, DateMax,   \* i32::MIN and i32::MAX as day counts
  YearMin, YearMax,   \* i32::MIN and i32::MAX as years
  NsPerDay            \* nanoseconds in a civil day

ASSUME DateAssumption == /\ DateMin \in Int /\ DateMax \in Int
                         /\ DateMin <= DateMax

ASSUME YearAssumption == /\ YearMin \in Int /\ YearMax \in Int
                         /\ YearMin <= YearMax

(* A year of days always fits the width of a year: ±5.8 million against    *)
(* ±2 billion in the code.  No model value relies on how much room is left. *)
ASSUME YearWidthAssumption ==
  \A d \in {DateMin, DateMax} : CivilFromDays(d).year \in YearMin..YearMax

ASSUME DayLengthAssumption == NsPerDay \in Nat \ {0}

Date == DateMin..DateMax

Ok(v) == {v}
Err   == {}
UnwrapOr(result, v) == IF result = Err THEN v ELSE CHOOSE x \in result : TRUE

Lesser(a, b) == IF a <= b THEN a ELSE b

-----------------------------------------------------------------------------
(* Mutant: a cast to i32 that is not checked.                              *)
FromDaysUnchecked(days) == Ok(days)

(* Constructors.  The code also fails where a day count overflows an i64   *)
(* or a negated duration an i128; a date that far away is not representable *)
(* either, so that is the same Err.                                        *)
FromDaysChecked(days) == IF days \in Date THEN Ok(days) ELSE Err

FromYmd(year, month, day) ==
  IF month \in 1..12 /\ day # 0 /\ day <= DaysInMonth(year, month)
  THEN FromDaysChecked(DaysFromCivil(year, month, day))
  ELSE Err

FromYo(year, ordinal) ==
  IF ordinal = 0 \/ ordinal > DaysInYear(year)
  THEN Err
  ELSE FromDaysChecked(DaysFromCivil(year, 1, 1) + ordinal - 1)

NumDaysFromCe(date) == date + DaysCommonEra

FromNumDaysFromCe(days) == FromDaysChecked(days - DaysCommonEra)

MondayOfIsoWeek(isoYear, week) ==
  LET lastWeek == IsoWeekOfDays(DaysFromCivil(isoYear, 12, 28)).week
  IN  IF week = 0 \/ week > lastWeek
      THEN Err
      ELSE FromDaysChecked(MondayOfWeekOne(isoYear) + (week - 1) * 7)

-----------------------------------------------------------------------------
(* Day stepping.  `days` is a u64 in the first two, an i64 in the third.   *)
AddDays(date, days) == FromDaysChecked(date + days)

SubDays(date, days) == FromDaysChecked(date - days)

SaturatingAddDays(date, days) ==
  IF date + days < DateMin THEN DateMin
  ELSE IF date + days > DateMax THEN DateMax
  ELSE date + days

FromIsoYwd(isoYear, week, weekday) ==
  UNION {AddDays(monday, weekday) : monday \in MondayOfIsoWeek(isoYear, week)}

FirstDayOfMonth(date) ==
  LET c == CivilFromDays(date)
  IN  UnwrapOr(FromDaysChecked(DaysFromCivil(c.year, c.month, 1)), DateMin)

LastDayOfMonth(date) ==
  LET c == CivilFromDays(date)
  IN  UnwrapOr(FromDaysChecked(DaysFromCivil(c.year, c.month,
                                             DaysInMonth(c.year, c.month))),
               DateMax)

WithYear(date, year) ==
  LET c == CivilFromDays(date) IN FromYmd(year, c.month, c.day)

WithMonth(date, month) ==
  LET c == CivilFromDays(date) IN FromYmd(c.year, month, c.day)

WithDay(date, day) ==
  LET c == CivilFromDays(date) IN FromYmd(c.year, c.month, day)

-----------------------------------------------------------------------------
(* Month stepping: the day of the month is clamped to the target month.    *)
MonthIndex(c) == c.year * 12 + (c.month - 1)

(* Mutant: a day past the end of the month runs over into the next one.    *)
AddSignedMonthsOverflowing(date, months) ==
  LET c     == CivilFromDays(date)
      total == MonthIndex(c) + months
  IN  IF FloorDiv(total, 12) \notin YearMin..YearMax
      THEN Err
      ELSE FromDaysChecked(
             DaysFromCivil(FloorDiv(total, 12), FloorMod(total, 12) + 1, c.day))

(* Mutant: the last day of a month steps to the last day of a month.       *)
AddSignedMonthsSticky(date, months) ==
  LET c     == CivilFromDays(date)
      total == MonthIndex(c) + months
      year  == FloorDiv(total, 12)
      month == FloorMod(total, 12) + 1
      last  == DaysInMonth(year, month)
  IN  IF year \notin YearMin..YearMax
      THEN Err
      ELSE FromYmd(year, month, IF c.day = DaysInMonth(c.year, c.month)
                                THEN last ELSE Lesser(c.day, last))

AddSignedMonths(date, months) ==
  LET c     == CivilFromDays(date)
      total == MonthIndex(c) + months
      year  == FloorDiv(total, 12)
      month == FloorMod(total, 12) + 1
  IN  IF year \notin YearMin..YearMax
      THEN Err
      ELSE FromYmd(year, month, Lesser(c.day, DaysInMonth(year, month)))

AddMonths(date, months) == AddSignedMonths(date, months)
SubMonths(date, months) == AddSignedMonths(date, -months)
AddYears(date, years)   == AddSignedMonths(date, years * 12)

SaturatingAddMonths(date, months) ==
  UnwrapOr(AddMonths(date, months), DateMax)

-----------------------------------------------------------------------------
(* Signed durations, floored to whole days.  Subtraction negates first.    *)
(* Mutant: a negative duration is truncated instead of floored.            *)
AddSignedTruncated(date, ns) ==
  LET days == TruncDiv(ns, NsPerDay)
  IN  IF days >= 0 THEN AddDays(date, days) ELSE SubDays(date, Magnitude(days))

AddSigned(date, ns) ==
  LET days == EuclidDiv(ns, NsPerDay)
  IN  IF days >= 0 THEN AddDays(date, days) ELSE SubDays(date, Magnitude(days))

SubSigned(date, ns) == AddSigned(date, -ns)

-----------------------------------------------------------------------------
(* Weekday searches.                                                       *)
(* Mutant: a date that already falls on the weekday is its own successor.  *)
NextOccurrenceOrSame(date, weekday) ==
  LET diff == weekday - WeekdayOfDays(date)
  IN  AddDays(date, IF diff < 0 THEN diff + 7 ELSE diff)

NextOccurrence(date, weekday) ==
  LET diff == weekday - WeekdayOfDays(date)
  IN  AddDays(date, IF diff <= 0 THEN diff + 7 ELSE diff)

PreviousOccurrence(date, weekday) ==
  LET diff == WeekdayOfDays(date) - weekday
  IN  SubDays(date, IF diff <= 0 THEN diff + 7 ELSE diff)

NextOrSame(date, weekday) ==
  AddDays(date, TruncRem(weekday - WeekdayOfDays(date) + 7, 7))

PreviousOrSame(date, weekday) ==
  SubDays(date, TruncRem(WeekdayOfDays(date) - weekday + 7, 7))

=============================================================================
