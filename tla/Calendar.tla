------------------------------ MODULE Calendar ------------------------------
(***************************************************************************)
(* The integer calendar arithmetic of calendar.rs: floor division, the     *)
(* Gregorian leap rule, the map between a civil date (year, month, day)    *)
(* and the number of days since 1970-01-01, weekdays and ISO 8601 weeks.   *)
(*                                                                         *)
(* The code computes in i64 on days that started as an i32, so none of     *)
(* these operators can overflow; limits belong to the modules that own a   *)
(* bounded value (DateOps, Timeline).  A weekday is its index, Monday = 0. *)
(***************************************************************************)
EXTENDS Integers

DaysEpoch      == 719468   \* days from 0000-03-01 to 1970-01-01
DaysCommonEra  == 719162   \* days from 0001-01-01 to 1970-01-01
DaysPerEra     == 146097   \* days in 400 Gregorian years

Monday   == 0
Thursday == 3
Weekdays == 0..6

Magnitude(a) == IF a < 0 THEN -a ELSE a

(* Rust's `/` and `%` on signed integers: the quotient is rounded towards  *)
(* zero and the remainder takes the sign of the dividend.                  *)
TruncDiv(a, b) ==
  LET q == Magnitude(a) \div Magnitude(b)
  IN  IF (a < 0) # (b < 0) THEN -q ELSE q

TruncRem(a, b) == a - b * TruncDiv(a, b)

(* The quotient and remainder rounded down, built on the truncating pair.  *)
FloorDiv(a, b) ==
  LET q == TruncDiv(a, b)
      r == TruncRem(a, b)
  IN  IF r # 0 /\ (r < 0) # (b < 0) THEN q - 1 ELSE q

FloorMod(a, b) ==
  LET r == TruncRem(a, b)
  IN  IF r # 0 /\ (r < 0) # (b < 0) THEN r + b ELSE r

(* Rust's div_euclid and rem_euclid: the remainder is never negative.      *)
EuclidDiv(a, b) ==
  LET q == TruncDiv(a, b)
      r == TruncRem(a, b)
  IN  IF r < 0 THEN IF b > 0 THEN q - 1 ELSE q + 1 ELSE q

EuclidRem(a, b) ==
  LET r == TruncRem(a, b)
  IN  IF r < 0 THEN r + Magnitude(b) ELSE r

(* The timeline pair: a plain division on the non-negative side, the       *)
(* Euclidean one before the epoch.                                         *)
FloorDivNs(ns, unit) ==
  IF ns >= 0 THEN TruncDiv(ns, unit) ELSE EuclidDiv(ns, unit)

FloorRemNs(ns, unit) ==
  IF ns >= 0 THEN TruncRem(ns, unit) ELSE EuclidRem(ns, unit)

-----------------------------------------------------------------------------
(* The Gregorian rules.  Rust's `%` agrees with "is a multiple of" whatever *)
(* the sign of the year.                                                   *)
IsLeapYear(year) ==
  /\ TruncRem(year, 4) = 0
  /\ TruncRem(year, 100) # 0 \/ TruncRem(year, 400) = 0

DaysInMonth(year, month) ==
  IF month \in {1, 3, 5, 7, 8, 10, 12} THEN 31
  ELSE IF month \in {4, 6, 9, 11} THEN 30
  ELSE IF month = 2 THEN (IF IsLeapYear(year) THEN 29 ELSE 28)
  ELSE 0

DaysInYear(year) == IF IsLeapYear(year) THEN 366 ELSE 365

IsCivil(year, month, day) ==
  month \in 1..12 /\ day \in 1..DaysInMonth(year, month)

-----------------------------------------------------------------------------
(* Days before the year `yoe` of an era, and before the month `mp`, both   *)
(* counted from 1 March: the expressions the two conversions share.        *)
DaysBeforeYear(yoe) == 365 * yoe + TruncDiv(yoe, 4) - TruncDiv(yoe, 100)

DaysBeforeMonth(mp) == TruncDiv(153 * mp + 2, 5)

DaysFromCivil(year, month, day) ==
  LET y   == IF month <= 2 THEN year - 1 ELSE year
      era == FloorDiv(y, 400)
      yoe == y - era * 400
      mp  == IF month > 2 THEN month - 3 ELSE month + 9
      doe == DaysBeforeYear(yoe) + DaysBeforeMonth(mp) + day - 1
  IN  era * DaysPerEra + doe - DaysEpoch

YearOfEra(doe) ==
  TruncDiv(doe - TruncDiv(doe, 1460) + TruncDiv(doe, 36524)
               - TruncDiv(doe, 146096), 365)

CivilFromDays(days) ==
  LET z   == days + DaysEpoch
      era == FloorDiv(z, DaysPerEra)
      doe == z - era * DaysPerEra
      yoe == YearOfEra(doe)
      doy == doe - DaysBeforeYear(yoe)
      mp  == TruncDiv(5 * doy + 2, 153)
      m   == IF mp < 10 THEN mp + 3 ELSE mp - 9
      y   == yoe + era * 400
  IN  [year  |-> IF m <= 2 THEN y + 1 ELSE y,
       month |-> m,
       day   |-> doy - DaysBeforeMonth(mp) + 1]

-----------------------------------------------------------------------------
(* Weekdays and ISO weeks.  1970-01-01 was a Thursday.                     *)
WeekdayOfDays(days) == FloorMod(days + 3, 7)

(* Monday of the ISO week that contains 4 January.                         *)
MondayOfWeekOne(isoYear) ==
  LET jan4 == DaysFromCivil(isoYear, 1, 4) IN jan4 - WeekdayOfDays(jan4)

(* Mutant: the ISO year is taken from the day, not from its Thursday.      *)
IsoWeekOfOwnYear(days) ==
  LET isoYear == CivilFromDays(days).year
  IN  [year |-> isoYear,
       week |-> FloorDiv(days - MondayOfWeekOne(isoYear), 7) + 1]

(* The code takes a civil date and converts it to the day count first.     *)
IsoWeekOfDays(days) ==
  LET thursday == days + (Thursday - WeekdayOfDays(days))
      isoYear  == CivilFromDays(thursday).year
  IN  [year |-> isoYear,
       week |-> FloorDiv(days - MondayOfWeekOne(isoYear), 7) + 1]

DayOfYear(year, month, day) ==
  DaysFromCivil(year, month, day) - DaysFromCivil(year, 1, 1) + 1

=============================================================================
