--------------------------- MODULE DateOpsProofs ----------------------------
(***************************************************************************)
(* What the operations of Date (DateOps) return, for every width of the    *)
(* day count and of the year and for all arguments: the facts the theorems *)
(* about callers of Date and of the timeline rest on.                      *)
(***************************************************************************)
EXTENDS DateOps, CalendarProofs

(* A checked day count is that day count, in range.                        *)
LEMMA CheckedDay ==
  ASSUME NEW days \in Int, NEW d \in FromDaysChecked(days)
  PROVE  d = days /\ d \in Date
BY DEF FromDaysChecked, Ok, Err

LEMMA DateIsInt == Date \subseteq Int
BY DateAssumption DEF Date

LEMMA LimitsAreDates == DateMin \in Date /\ DateMax \in Date
BY DateAssumption, SMT DEF Date

(* unwrap_or returns the value of the result or the fallback.              *)
LEMMA UnwrapOrInDate ==
  ASSUME NEW result \in SUBSET Date, NEW v \in Date
  PROVE  UnwrapOr(result, v) \in Date
BY DEF UnwrapOr, Err

LEMMA CivilFields ==
  ASSUME NEW d \in Date, NEW c, c = CivilFromDays(d)
  PROVE  /\ c.year \in Int /\ c.month \in Int /\ c.day \in Int
         /\ 1 <= c.month /\ c.month <= 12
         /\ 1 <= c.day /\ c.day <= DaysInMonth(c.year, c.month)
         /\ IsCivil(c.year, c.month, c.day)
         /\ DaysFromCivil(c.year, c.month, c.day) = d
<1>1. /\ c.year \in Int /\ c.month \in Int /\ c.day \in Int
      /\ IsCivil(c.year, c.month, c.day)
      /\ DaysFromCivil(c.year, c.month, c.day) = d
  BY DateIsInt, DaysRoundTrip
<1> QED  BY <1>1, SMT DEF IsCivil

LEMMA MonthLength ==
  ASSUME NEW year \in Int, NEW month \in 1..12
  PROVE  /\ DaysInMonth(year, month) \in Int
         /\ 28 <= DaysInMonth(year, month)
         /\ DaysInMonth(year, month) <= 31
BY SMT DEF DaysInMonth

(* from_ymd yields the date with exactly those fields.                     *)
LEMMA FromYmdFields ==
  ASSUME NEW year \in Int, NEW month \in Int, NEW day \in Int, 0 <= day,
         NEW d \in FromYmd(year, month, day)
  PROVE  /\ d \in Date
         /\ CivilFromDays(d) = [year |-> year, month |-> month, day |-> day]
         /\ IsCivil(year, month, day)
<1>1. /\ month \in 1..12 /\ day # 0 /\ day <= DaysInMonth(year, month)
      /\ d \in FromDaysChecked(DaysFromCivil(year, month, day))
  BY DEF FromYmd, Err
<1>2. IsCivil(year, month, day)
  BY <1>1, MonthLength, SMT DEF IsCivil
<1>3. /\ DaysFromCivil(year, month, day) \in Int
      /\ CivilFromDays(DaysFromCivil(year, month, day))
           = [year |-> year, month |-> month, day |-> day]
  BY <1>2, CivilRoundTrips
<1> QED  BY <1>1, <1>2, <1>3, CheckedDay

-----------------------------------------------------------------------------
(* A month step moves the month by exactly its argument and the day only   *)
(* down to the length of the month it reaches.                             *)
LEMMA MonthStep ==
  ASSUME NEW date0 \in Date, NEW months \in Int,
         NEW d \in AddSignedMonths(date0, months),
         NEW c, c = CivilFromDays(date0), NEW n, n = CivilFromDays(d)
  PROVE  /\ d \in Date
         /\ MonthIndex(n) = MonthIndex(c) + months
         /\ n.day = Lesser(c.day, DaysInMonth(n.year, n.month))
<1> DEFINE total == MonthIndex(c) + months
           year  == total \div 12
           month == (total % 12) + 1
           day   == Lesser(c.day, DaysInMonth(year, month))
<1>1. c.year \in Int /\ c.month \in Int /\ c.day \in Int /\ 1 <= c.day
  BY CivilFields
<1>2. total \in Int
  BY <1>1, SMT DEF MonthIndex
<1> HIDE DEF total
<1>3. FloorDiv(total, 12) = year /\ FloorMod(total, 12) + 1 = month
  <2>1. 12 \in Divisors
    BY SMT DEF Divisors
  <2> QED  BY <1>2, <2>1, FloorDivRoundsDown, SMT
<1>4. year \in Int /\ month \in 1..12 /\ year * 12 + (month - 1) = total
  BY <1>2, SMT
<1> HIDE DEF year, month
<1>5. day \in Int /\ 0 <= day
  <2>1. DaysInMonth(year, month) \in Int /\ 28 <= DaysInMonth(year, month)
    BY <1>4, MonthLength
  <2> QED  BY <1>1, <2>1, SMT DEF Lesser
<1>6. d \in FromYmd(year, month, day)
  BY <1>3 DEF AddSignedMonths, Err, total
<1>7. d \in Date /\ n = [year |-> year, month |-> month, day |-> day]
  BY <1>4, <1>5, <1>6, FromYmdFields
<1>8. MonthIndex(n) = total
  BY <1>4, <1>7, SMT DEF MonthIndex
<1> QED  BY <1>7, <1>8, SMT DEF total

-----------------------------------------------------------------------------
(* Whatever the arguments, a fallible operation yields dates only.         *)
LEMMA CheckedInDate ==
  ASSUME NEW days
  PROVE  FromDaysChecked(days) \in SUBSET Date
BY DEF FromDaysChecked, Ok, Err

LEMMA YmdInDate ==
  ASSUME NEW year, NEW month, NEW day
  PROVE  FromYmd(year, month, day) \in SUBSET Date
BY CheckedInDate DEF FromYmd, Err

LEMMA DayStepsInDate ==
  ASSUME NEW d, NEW days
  PROVE  AddDays(d, days) \in SUBSET Date /\ SubDays(d, days) \in SUBSET Date
BY CheckedInDate DEF AddDays, SubDays

LEMMA SaturatedDaysInDate ==
  ASSUME NEW d \in Date, NEW days \in Int
  PROVE  SaturatingAddDays(d, days) \in Date
BY DateAssumption, SMT DEF SaturatingAddDays, Date

LEMMA SaturatedMonthsInDate ==
  ASSUME NEW d, NEW months
  PROVE  SaturatingAddMonths(d, months) \in Date
<1>1. AddMonths(d, months) \in SUBSET Date
  BY YmdInDate DEF AddMonths, AddSignedMonths, Err
<1> QED  BY <1>1, UnwrapOrInDate, LimitsAreDates DEF SaturatingAddMonths

LEMMA MonthEndsInDate ==
  ASSUME NEW d
  PROVE  FirstDayOfMonth(d) \in Date /\ LastDayOfMonth(d) \in Date
BY CheckedInDate, UnwrapOrInDate, LimitsAreDates DEF FirstDayOfMonth, LastDayOfMonth

LEMMA DurationStepsInDate ==
  ASSUME NEW d, NEW ns
  PROVE  AddSigned(d, ns) \in SUBSET Date /\ SubSigned(d, ns) \in SUBSET Date
<1>1. ASSUME NEW x PROVE AddSigned(d, x) \in SUBSET Date
  BY DayStepsInDate DEF AddSigned
<1> QED  BY <1>1 DEF SubSigned

LEMMA SearchesInDate ==
  ASSUME NEW d, NEW w
  PROVE  /\ NextOccurrence(d, w) \in SUBSET Date
         /\ PreviousOccurrence(d, w) \in SUBSET Date
         /\ NextOrSame(d, w) \in SUBSET Date
         /\ PreviousOrSame(d, w) \in SUBSET Date
BY DayStepsInDate DEF NextOccurrence, PreviousOccurrence, NextOrSame, PreviousOrSame

LEMMA ReplacementsInDate ==
  ASSUME NEW d, NEW x
  PROVE  /\ WithYear(d, x) \in SUBSET Date
         /\ WithMonth(d, x) \in SUBSET Date
         /\ WithDay(d, x) \in SUBSET Date
BY YmdInDate DEF WithYear, WithMonth, WithDay

-----------------------------------------------------------------------------
(* Weekdays.  Every week has one day of each, so a checked day on the       *)
(* weekday is the one of its week, if that is a date.                      *)
LEMMA WeekdayIsRemainder ==
  ASSUME NEW d \in Int
  PROVE  WeekdayOfDays(d) = (d + 3) % 7 /\ WeekdayOfDays(d) \in 0..6
<1>1. d + 3 \in Int /\ 7 \in Divisors
  BY SMT DEF Divisors
<1>2. WeekdayOfDays(d) = (d + 3) % 7
  BY <1>1, FloorDivRoundsDown DEF WeekdayOfDays
<1> QED  BY <1>2, SMT

LEMMA RemainderOfNat ==
  ASSUME NEW a \in Nat
  PROVE  TruncRem(a, 7) = a % 7
BY SMT DEF TruncRem, TruncDiv, Magnitude

LEMMA OnePerWeek ==
  ASSUME NEW w \in Weekdays, NEW first \in Int,
         NEW day \in first..first+6, WeekdayOfDays(day) = w
  PROVE  FromDaysChecked(day) = {d \in first..first+6 : WeekdayOfDays(d) = w} \cap Date
<1>1. ASSUME NEW d \in first..first+6, WeekdayOfDays(d) = w
      PROVE  d = day
  <2>1. (d + 3) % 7 = (day + 3) % 7
    BY <1>1, WeekdayIsRemainder, SMT
  <2> QED  BY <1>1, <2>1, SMT
<1> QED  BY <1>1 DEF FromDaysChecked, Ok, Err

LEMMA SearchesFind ==
  ASSUME NEW date0 \in Int, NEW w \in Weekdays
  PROVE  \E next \in date0+1..date0+7 :
           /\ WeekdayOfDays(next) = w /\ WeekdayOfDays(next - 7) = w
           /\ NextOccurrence(date0, w) = FromDaysChecked(next)
           /\ PreviousOrSame(date0, w) = FromDaysChecked(next - 7)
<1> DEFINE v    == WeekdayOfDays(date0)
           step == IF w - v <= 0 THEN w - v + 7 ELSE w - v
           back == (v - w + 7) % 7
           next == date0 + step
<1>1. v \in 0..6 /\ v = (date0 + 3) % 7 /\ w \in 0..6
  BY WeekdayIsRemainder DEF Weekdays
<1>2. NextOccurrence(date0, w) = FromDaysChecked(next)
  BY DEF NextOccurrence, AddDays
<1>3. PreviousOrSame(date0, w) = FromDaysChecked(date0 - back)
  <2>1. v - w + 7 \in Nat
    BY <1>1, SMT
  <2> QED  BY <2>1, RemainderOfNat DEF PreviousOrSame, SubDays
<1> HIDE DEF v
<1>4. /\ step \in 1..7 /\ back = 7 - step
      /\ (date0 + step + 3) % 7 = w /\ (date0 + step - 7 + 3) % 7 = w
  BY <1>1, SMT
<1> HIDE DEF step, back
<1>5. /\ next \in date0+1..date0+7 /\ next - 7 = date0 - back
      /\ next \in Int /\ next - 7 \in Int
  BY <1>4, SMT
<1>6. WeekdayOfDays(next) = w /\ WeekdayOfDays(next - 7) = w
  BY <1>4, <1>5, WeekdayIsRemainder, SMT
<1> QED  BY <1>2, <1>3, <1>5, <1>6

LEMMA SearchesFindOrStay ==
  ASSUME NEW date0 \in Int, NEW w \in Weekdays
  PROVE  \E same \in date0..date0+6 :
           /\ WeekdayOfDays(same) = w /\ WeekdayOfDays(same - 7) = w
           /\ NextOrSame(date0, w) = FromDaysChecked(same)
           /\ PreviousOccurrence(date0, w) = FromDaysChecked(same - 7)
<1> DEFINE v    == WeekdayOfDays(date0)
           step == (w - v + 7) % 7
           back == IF v - w <= 0 THEN v - w + 7 ELSE v - w
           same == date0 + step
<1>1. v \in 0..6 /\ v = (date0 + 3) % 7 /\ w \in 0..6
  BY WeekdayIsRemainder DEF Weekdays
<1>2. PreviousOccurrence(date0, w) = FromDaysChecked(date0 - back)
  BY DEF PreviousOccurrence, SubDays
<1>3. NextOrSame(date0, w) = FromDaysChecked(same)
  <2>1. w - v + 7 \in Nat
    BY <1>1, SMT
  <2> QED  BY <2>1, RemainderOfNat DEF NextOrSame, AddDays
<1> HIDE DEF v
<1>4. /\ step \in 0..6 /\ back = 7 - step
      /\ (date0 + step + 3) % 7 = w /\ (date0 + step - 7 + 3) % 7 = w
  BY <1>1, SMT
<1> HIDE DEF step, back
<1>5. /\ same \in date0..date0+6 /\ same - 7 = date0 - back
      /\ same \in Int /\ same - 7 \in Int
  BY <1>4, SMT
<1>6. WeekdayOfDays(same) = w /\ WeekdayOfDays(same - 7) = w
  BY <1>4, <1>5, WeekdayIsRemainder, SMT
<1> QED  BY <1>2, <1>3, <1>5, <1>6

-----------------------------------------------------------------------------
(* A duration steps by its whole days, rounded down.                       *)
LEMMA DurationStep ==
  ASSUME NEW date0 \in Int, NEW ns \in Int
  PROVE  /\ EuclidDiv(ns, NsPerDay) \in Int
         /\ AddSigned(date0, ns) = FromDaysChecked(date0 + EuclidDiv(ns, NsPerDay))
<1> DEFINE days == EuclidDiv(ns, NsPerDay)
<1>1. days \in Int
  BY EuclidSplits, DayLengthAssumption
<1>2. AddSigned(date0, ns)
        = IF days >= 0 THEN FromDaysChecked(date0 + days)
                       ELSE FromDaysChecked(date0 - Magnitude(days))
  BY DEF AddSigned, AddDays, SubDays
<1> HIDE DEF days
<1>3. ~(days >= 0) => date0 - Magnitude(days) = date0 + days
  BY <1>1, SMT DEF Magnitude
<1> QED  BY <1>1, <1>2, <1>3 DEF days

(* The days of the opposite duration: one less, but for whole days.        *)
LEMMA OppositeDays ==
  ASSUME NEW a \in Int, NEW b \in Nat \ {0}
  PROVE  EuclidDiv(-a, b)
           = IF a % b = 0 THEN -EuclidDiv(a, b) ELSE -EuclidDiv(a, b) - 1
<1> DEFINE q == EuclidDiv(a, b)
           r == EuclidRem(a, b)
           p == EuclidDiv(-a, b)
           t == EuclidRem(-a, b)
<1>1. q \in Int /\ r \in 0..b-1 /\ a = q * b + r
  BY EuclidSplits
<1>2. -a \in Int /\ p \in Int /\ t \in 0..b-1 /\ -a = p * b + t
  <2>1. -a \in Int
    OBVIOUS
  <2> QED  BY <2>1, EuclidSplits
<1> HIDE DEF q, r, p, t
<1>3. a % b = r
  <2> DEFINE e == a \div b
  <2>1. e \in Int /\ e * b <= a /\ a < e * b + b /\ a % b = a - e * b
    OBVIOUS
  <2> HIDE DEF e
  <2>2. q * b <= a /\ a < q * b + b /\ q * b \in Int
    BY <1>1
  <2>3. e = q
    BY <1>1, <2>1, <2>2, SameQuotient
  <2> QED  BY <1>1, <2>1, <2>2, <2>3
<1>4. /\ (-q) * b = -(q * b) /\ (-q - 1) * b = -(q * b) - b
      /\ q * b \in Int /\ p * b \in Int /\ -q \in Int /\ -q - 1 \in Int
  BY <1>1, <1>2
<1>5. CASE r = 0
  <2>1. /\ (-q) * b <= -a /\ -a < (-q) * b + b
        /\ p * b <= -a /\ -a < p * b + b
    BY <1>1, <1>2, <1>4, <1>5
  <2>2. p = -q
    BY <1>2, <1>4, <2>1, SameQuotient
  <2> QED  BY <1>3, <1>5, <2>2 DEF p, q
<1>6. CASE r # 0
  <2>1. /\ (-q - 1) * b <= -a /\ -a < (-q - 1) * b + b
        /\ p * b <= -a /\ -a < p * b + b
    BY <1>1, <1>2, <1>4, <1>6
  <2>2. p = -q - 1
    BY <1>2, <1>4, <2>1, SameQuotient
  <2> QED  BY <1>3, <1>6, <2>2 DEF p, q
<1> QED  BY <1>5, <1>6

-----------------------------------------------------------------------------
(* Where a month step goes, whether or not there is such a date.           *)
MonthTarget(d, months) ==
  LET c     == CivilFromDays(d)
      total == MonthIndex(c) + months
      year  == total \div 12
      month == (total % 12) + 1
  IN  [year |-> year, month |-> month, day |-> Lesser(c.day, DaysInMonth(year, month))]

LEMMA TargetOfMonthStep ==
  ASSUME NEW d \in Int, NEW months \in Int
  PROVE  LET c == CivilFromDays(d)
             t == MonthTarget(d, months)
         IN  /\ t.year \in Int /\ t.month \in 1..12 /\ t.day \in Int
             /\ IsCivil(t.year, t.month, t.day)
             /\ t.year * 12 + t.month = c.year * 12 + c.month + months
             /\ t.day = Lesser(c.day, DaysInMonth(t.year, t.month))
             /\ DaysFromCivil(t.year, t.month, t.day) \in Int
             /\ AddSignedMonths(d, months)
                  = IF t.year \in YearMin..YearMax
                    THEN FromDaysChecked(DaysFromCivil(t.year, t.month, t.day)) ELSE Err
<1> DEFINE c     == CivilFromDays(d)
           t     == MonthTarget(d, months)
           total == MonthIndex(c) + months
           year  == total \div 12
           month == (total % 12) + 1
           last  == DaysInMonth(year, month)
           day   == Lesser(c.day, last)
<1>1. /\ c.year \in Int /\ c.month \in Int /\ c.day \in Int
      /\ IsCivil(c.year, c.month, c.day)
  BY DaysRoundTrip
<1> HIDE DEF c
<1>2. total \in Int /\ total = c.year * 12 + c.month - 1 + months /\ 1 <= c.day
  BY <1>1, SMT DEF MonthIndex, IsCivil
<1>3. t = [year |-> year, month |-> month, day |-> day]
  BY DEF MonthTarget, c
<1> HIDE DEF total, t
<1>4. FloorDiv(total, 12) = year /\ FloorMod(total, 12) + 1 = month
  <2>1. 12 \in Divisors
    BY SMT DEF Divisors
  <2> QED  BY <1>2, <2>1, FloorDivRoundsDown, SMT
<1>5. year \in Int /\ month \in 1..12 /\ month \in Int /\ year * 12 + month = total + 1
  BY <1>2, SMT
<1> HIDE DEF year, month
<1>6. last \in Int /\ 28 <= last /\ last = DaysInMonth(year, month)
  BY <1>5, MonthLength
<1> HIDE DEF last
<1>7. day \in Int /\ 1 <= day /\ day <= last /\ day # 0
  BY <1>1, <1>2, <1>6, SMT DEF Lesser
<1> HIDE DEF day
<1>8. IsCivil(year, month, day)
  BY <1>5, <1>6, <1>7, SMT DEF IsCivil
<1>9. DaysFromCivil(year, month, day) \in Int
  BY <1>5, <1>7, <1>8, CivilRoundTrips
<1>10. FromYmd(year, month, day) = FromDaysChecked(DaysFromCivil(year, month, day))
  BY <1>5, <1>6, <1>7 DEF FromYmd
<1>11. AddSignedMonths(d, months)
         = IF year \in YearMin..YearMax
           THEN FromDaysChecked(DaysFromCivil(year, month, day)) ELSE Err
  BY <1>4, <1>6, <1>10 DEF AddSignedMonths, total, day, c
<1>12. t.year = year /\ t.month = month /\ t.day = day
  BY <1>3
<1>13. year * 12 + month = c.year * 12 + c.month + months
  BY <1>1, <1>2, <1>5, SMT
<1> QED
  BY <1>5, <1>6, <1>7, <1>8, <1>9, <1>11, <1>12, <1>13 DEF day, c, t

(* Targets are in the order of the dates they are stepped from, and on the *)
(* side of the date that the step goes to.                                 *)
LEMMA TargetsInOrder ==
  ASSUME NEW d1 \in Int, NEW d2 \in Int, d1 <= d2, NEW months \in Int
  PROVE  LET t1 == MonthTarget(d1, months)
             t2 == MonthTarget(d2, months)
         IN  /\ t1.year <= t2.year
             /\ DaysFromCivil(t1.year, t1.month, t1.day)
                  <= DaysFromCivil(t2.year, t2.month, t2.day)
<1> DEFINE t1 == MonthTarget(d1, months)
           t2 == MonthTarget(d2, months)
           c1 == CivilFromDays(d1)
           c2 == CivilFromDays(d2)
           i1 == c1.year * 12 + c1.month
           i2 == c2.year * 12 + c2.month
           y1 == t1.year  m1 == t1.month  e1 == t1.day
           y2 == t2.year  m2 == t2.month  e2 == t2.day
<1>1. /\ y1 \in Int /\ m1 \in 1..12 /\ e1 \in Int /\ IsCivil(y1, m1, e1)
      /\ y1 * 12 + m1 = i1 + months /\ e1 = Lesser(c1.day, DaysInMonth(y1, m1))
  BY TargetOfMonthStep
<1>2. /\ y2 \in Int /\ m2 \in 1..12 /\ e2 \in Int /\ IsCivil(y2, m2, e2)
      /\ y2 * 12 + m2 = i2 + months /\ e2 = Lesser(c2.day, DaysInMonth(y2, m2))
  BY TargetOfMonthStep
<1>3. i1 <= i2 /\ (i1 = i2 => c1.day <= c2.day)
  BY CivilInOrder
<1>4. /\ i1 \in Int /\ i2 \in Int /\ c1.day \in Int /\ c2.day \in Int
  <2>1. /\ c1.year \in Int /\ c1.month \in Int /\ c1.day \in Int
        /\ c2.year \in Int /\ c2.month \in Int /\ c2.day \in Int
    BY DaysRoundTrip
  <2> HIDE DEF c1, c2
  <2> QED  BY <2>1, SMT
<1> HIDE DEF t1, t2, c1, c2, i1, i2, y1, m1, e1, y2, m2, e2
<1>5. m1 \in Int /\ m2 \in Int
  BY <1>1, <1>2, SMT
<1>6. CASE i1 < i2
  <2>1. y1 * 12 + m1 < y2 * 12 + m2 /\ y1 <= y2
    BY <1>1, <1>2, <1>4, <1>5, <1>6, SMT
  <2>2. DaysFromCivil(y1, m1, e1) <= DaysFromCivil(y2, m2, e2)
    BY <1>1, <1>2, <1>5, <2>1, CivilsInOrder
  <2> QED  BY <2>1, <2>2 DEF t1, t2, y1, m1, e1, y2, m2, e2
<1>7. CASE i1 = i2
  <2>1. y1 = y2 /\ m1 = m2
    BY <1>1, <1>2, <1>4, <1>7, SMT
  <2>2. e1 <= e2
    <3>1. DaysInMonth(y1, m1) \in Int
      BY <1>1, MonthLength
    <3> QED  BY <1>1, <1>2, <1>3, <1>4, <1>7, <2>1, <3>1, SMT DEF Lesser
  <2>3. y1 * 12 + m1 = y2 * 12 + m2 /\ y1 <= y2
    BY <1>1, <1>2, <1>5, <2>1, SMT
  <2>4. DaysFromCivil(y1, m1, e1) <= DaysFromCivil(y2, m2, e2)
    BY <1>1, <1>2, <1>5, <2>2, <2>3, CivilsInOrder
  <2> QED  BY <2>3, <2>4 DEF t1, t2, y1, m1, e1, y2, m2, e2
<1> QED  BY <1>3, <1>4, <1>6, <1>7, SMT

LEMMA TargetIsAhead ==
  ASSUME NEW d \in Int, NEW months \in Int
  PROVE  LET t == MonthTarget(d, months)
         IN  /\ months >= 0 => d <= DaysFromCivil(t.year, t.month, t.day)
             /\ months <= 0 => DaysFromCivil(t.year, t.month, t.day) <= d
<1> DEFINE t == MonthTarget(d, months)
           c == CivilFromDays(d)
           y == t.year  m == t.month  e == t.day
<1>1. /\ c.year \in Int /\ c.month \in Int /\ c.day \in Int
      /\ IsCivil(c.year, c.month, c.day)
      /\ DaysFromCivil(c.year, c.month, c.day) = d
  BY DaysRoundTrip
<1>2. /\ y \in Int /\ m \in 1..12 /\ e \in Int /\ IsCivil(y, m, e)
      /\ y * 12 + m = c.year * 12 + c.month + months
      /\ e = Lesser(c.day, DaysInMonth(y, m))
  BY TargetOfMonthStep
<1>3. m \in Int /\ c.month \in 1..12 /\ c.day <= DaysInMonth(c.year, c.month)
  BY <1>1, <1>2, SMT DEF IsCivil
<1> HIDE DEF c, y, m, e
<1>4. CASE months = 0
  <2>1. y = c.year /\ m = c.month
    BY <1>1, <1>2, <1>3, <1>4, SMT
  <2>2. DaysInMonth(y, m) \in Int
    BY <1>2, MonthLength
  <2>3. e = c.day
    BY <1>1, <1>2, <1>3, <2>1, <2>2, SMT DEF Lesser
  <2>4. DaysFromCivil(y, m, e) = d
    BY <1>1, <2>1, <2>3
  <2> QED  BY <1>4, <2>4, SMT DEF y, m, e
<1>5. CASE months > 0
  <2>1. c.year * 12 + c.month < y * 12 + m
    BY <1>1, <1>2, <1>3, <1>5, SMT
  <2>2. d <= DaysFromCivil(y, m, e)
    BY <1>1, <1>2, <1>3, <2>1, CivilsInOrder
  <2> QED  BY <1>5, <2>2, SMT DEF y, m, e
<1>6. CASE months < 0
  <2>1. y * 12 + m < c.year * 12 + c.month
    BY <1>1, <1>2, <1>3, <1>6, SMT
  <2>2. DaysFromCivil(y, m, e) <= d
    BY <1>1, <1>2, <1>3, <2>1, CivilsInOrder
  <2> QED  BY <1>6, <2>2, SMT DEF y, m, e
<1> QED  BY <1>4, <1>5, <1>6, SMT

LEMMA NextIsNearest ==
  ASSUME NEW d \in Int, NEW w \in Weekdays
  PROVE  /\ NextOccurrence(d, w)
              = {e \in d+1..d+7 : WeekdayOfDays(e) = w} \cap Date
         /\ PreviousOccurrence(d, w)
              = {e \in d-7..d-1 : WeekdayOfDays(e) = w} \cap Date
         /\ NextOrSame(d, w)
              = {e \in d..d+6 : WeekdayOfDays(e) = w} \cap Date
<1>1. PICK next \in d+1..d+7 : /\ WeekdayOfDays(next) = w
                               /\ NextOccurrence(d, w) = FromDaysChecked(next)
  BY SearchesFind
<1>2. PICK same \in d..d+6 : /\ WeekdayOfDays(same) = w /\ WeekdayOfDays(same - 7) = w
                             /\ NextOrSame(d, w) = FromDaysChecked(same)
                             /\ PreviousOccurrence(d, w) = FromDaysChecked(same - 7)
  BY SearchesFindOrStay
<1>3. /\ d + 1 \in Int /\ d + 1 + 6 = d + 7
      /\ d - 7 \in Int /\ d - 7 + 6 = d - 1
      /\ same - 7 \in d-7..d-1
  BY SMT
<1>4. FromDaysChecked(next) = {e \in d+1..d+7 : WeekdayOfDays(e) = w} \cap Date
  BY <1>1, <1>3, OnePerWeek
<1>5. FromDaysChecked(same - 7) = {e \in d-7..d-1 : WeekdayOfDays(e) = w} \cap Date
  BY <1>2, <1>3, OnePerWeek
<1>6. FromDaysChecked(same) = {e \in d..d+6 : WeekdayOfDays(e) = w} \cap Date
  BY <1>2, OnePerWeek
<1> QED  BY <1>1, <1>2, <1>4, <1>5, <1>6

(* Back from the next occurrence is previous_or_same.                      *)
LEMMA BackFromNext ==
  ASSUME NEW d \in Int, NEW w \in Weekdays, NEW n \in NextOccurrence(d, w)
  PROVE  PreviousOccurrence(n, w) = PreviousOrSame(d, w)
<1>1. PICK next \in d+1..d+7 : /\ WeekdayOfDays(next) = w /\ WeekdayOfDays(next - 7) = w
                               /\ NextOccurrence(d, w) = FromDaysChecked(next)
                               /\ PreviousOrSame(d, w) = FromDaysChecked(next - 7)
  BY SearchesFind
<1>2. n = next /\ n \in Int
  BY <1>1, SMT DEF FromDaysChecked, Ok, Err
<1>3. PreviousOccurrence(n, w)
        = {e \in n-7..n-1 : WeekdayOfDays(e) = w} \cap Date
  BY <1>2, NextIsNearest
<1>4. n - 7 \in Int /\ n - 7 + 6 = n - 1 /\ n - 7 \in n-7..n-1
  BY <1>2, SMT
<1>5. FromDaysChecked(n - 7) = {e \in n-7..n-1 : WeekdayOfDays(e) = w} \cap Date
  BY <1>1, <1>2, <1>4, OnePerWeek
<1> QED  BY <1>1, <1>2, <1>3, <1>5

(* AddSignedMonths through its target.                                     *)
LEMMA DateYearsFit ==
  ASSUME NEW d \in Date
  PROVE  CivilFromDays(d).year \in YearMin..YearMax
<1>1. /\ d \in Int /\ DateMin \in Int /\ DateMax \in Int
      /\ DateMin <= d /\ d <= DateMax
  BY DateAssumption, SMT DEF Date
<1> DEFINE c == CivilFromDays(d)
           a == CivilFromDays(DateMin)
           b == CivilFromDays(DateMax)
<1>2. /\ a.year * 12 + a.month <= c.year * 12 + c.month
      /\ c.year * 12 + c.month <= b.year * 12 + b.month
  BY <1>1, CivilInOrder
<1>3. /\ a.year \in Int /\ a.month \in Int /\ 1 <= a.month /\ a.month <= 12
      /\ b.year \in Int /\ b.month \in Int /\ 1 <= b.month /\ b.month <= 12
      /\ c.year \in Int /\ c.month \in Int /\ 1 <= c.month /\ c.month <= 12
  BY LimitsAreDates, CivilFields
<1>4. a.year \in YearMin..YearMax /\ b.year \in YearMin..YearMax
  BY YearWidthAssumption
<1> HIDE DEF a, b, c
<1>5. a.year <= c.year /\ c.year <= b.year
  BY <1>2, <1>3, SMT
<1>6. c.year \in YearMin..YearMax
  BY <1>3, <1>4, <1>5, YearAssumption, SMT
<1> QED  BY <1>6 DEF c

LEMMA MonthStepsInOrder ==
  ASSUME NEW d1 \in Date, NEW d2 \in Date, d1 <= d2, NEW months \in Int
  PROVE  /\ \A b \in AddSignedMonths(d1, months), a \in AddSignedMonths(d2, months) :
              b <= a
         /\ months >= 0 =>
              (AddSignedMonths(d1, months) = Err => AddSignedMonths(d2, months) = Err)
         /\ months <= 0 =>
              (AddSignedMonths(d2, months) = Err => AddSignedMonths(d1, months) = Err)
<1> DEFINE t1 == MonthTarget(d1, months)
           t2 == MonthTarget(d2, months)
           x1 == DaysFromCivil(t1.year, t1.month, t1.day)
           x2 == DaysFromCivil(t2.year, t2.month, t2.day)
           y1 == t1.year
           y2 == t2.year
           Steps(y, x) == IF y \in YearMin..YearMax THEN FromDaysChecked(x) ELSE Err
<1>1. /\ d1 \in Int /\ d2 \in Int
      /\ DateMin <= d1 /\ d1 <= DateMax /\ DateMin <= d2 /\ d2 <= DateMax
  BY DateAssumption, SMT DEF Date
<1>2. y1 \in Int /\ x1 \in Int /\ AddSignedMonths(d1, months) = Steps(y1, x1)
  BY <1>1, TargetOfMonthStep
<1>3. y2 \in Int /\ x2 \in Int /\ AddSignedMonths(d2, months) = Steps(y2, x2)
  BY <1>1, TargetOfMonthStep
<1>4. y1 <= y2 /\ x1 <= x2
  BY <1>1, TargetsInOrder
<1>5. /\ months >= 0 => d1 <= x1
      /\ months <= 0 => x2 <= d2
  BY <1>1, TargetIsAhead
<1>6. /\ months >= 0 => y1 >= YearMin
      /\ months <= 0 => y2 <= YearMax
  <2> DEFINE c1 == CivilFromDays(d1)
             c2 == CivilFromDays(d2)
  <2>1. /\ c1.year \in Int /\ c1.month \in Int /\ 1 <= c1.month /\ c1.month <= 12
        /\ c2.year \in Int /\ c2.month \in Int /\ 1 <= c2.month /\ c2.month <= 12
    BY CivilFields
  <2>2. c1.year \in YearMin..YearMax /\ c2.year \in YearMin..YearMax
    BY DateYearsFit
  <2>3. /\ t1.month \in 1..12 /\ y1 * 12 + t1.month = c1.year * 12 + c1.month + months
        /\ t2.month \in 1..12 /\ y2 * 12 + t2.month = c2.year * 12 + c2.month + months
    BY <1>1, TargetOfMonthStep
  <2> HIDE DEF c1, c2, t1, t2, y1, y2
  <2> QED  BY <1>2, <1>3, <2>1, <2>2, <2>3, YearAssumption, SMT
<1> HIDE DEF t1, t2, x1, x2, y1, y2
<1>7. \A y, x : Steps(y, x) \in {Ok(x), Err}
               /\ (Steps(y, x) = Err <=> ~(y \in YearMin..YearMax /\ x \in Date))
  BY DEF FromDaysChecked, Ok, Err
<1>8. \A b \in AddSignedMonths(d1, months), a \in AddSignedMonths(d2, months) : b <= a
  BY <1>2, <1>3, <1>4, <1>7 DEF Ok, Err
<1>9. ASSUME months >= 0, AddSignedMonths(d1, months) = Err
      PROVE  AddSignedMonths(d2, months) = Err
  <2>1. ~(y1 \in YearMin..YearMax /\ x1 \in Date)
    BY <1>2, <1>7, <1>9
  <2>2. ~(y2 \in YearMin..YearMax /\ x2 \in Date)
    BY <1>1, <1>2, <1>3, <1>4, <1>5, <1>6, <1>9, <2>1,
       DateAssumption, YearAssumption, SMT DEF Date
  <2> QED  BY <1>3, <1>7, <2>2
<1>10. ASSUME months <= 0, AddSignedMonths(d2, months) = Err
      PROVE  AddSignedMonths(d1, months) = Err
  <2>1. ~(y2 \in YearMin..YearMax /\ x2 \in Date)
    BY <1>3, <1>7, <1>10
  <2>2. ~(y1 \in YearMin..YearMax /\ x1 \in Date)
    BY <1>1, <1>2, <1>3, <1>4, <1>5, <1>6, <1>10, <2>1,
       DateAssumption, YearAssumption, SMT DEF Date
  <2> QED  BY <1>2, <1>7, <2>2
<1> QED  BY <1>8, <1>9, <1>10

-----------------------------------------------------------------------------
(* The first days of the years, and what lies a fixed way from them.       *)
FirstDay(year) == DaysFromCivil(year, 1, 1)

LEMMA DaysOfYear ==
  ASSUME NEW year \in Int
  PROVE  /\ FirstDay(year) \in Int
         /\ FirstDay(year + 1) = FirstDay(year) + DaysInYear(year)
         /\ DaysInYear(year) \in {365, 366}
         /\ DaysFromCivil(year, 1, 4) = FirstDay(year) + 3
         /\ DaysFromCivil(year, 12, 28) = FirstDay(year + 1) - 4
<1>1. DaysInYear(year) \in {365, 366}
  BY DEF DaysInYear
<1>2. FirstDay(year + 1) = FirstDay(year) + DaysInYear(year)
  BY YearLength DEF FirstDay
<1>3. 1 \in 1..12 /\ 12 \in 1..12 /\ 1 \in Int /\ 4 \in Int /\ 28 \in Int
  BY SMT
<1>4. /\ FirstDay(year) \in Int
      /\ DaysFromCivil(year, 1, 4) = FirstDay(year) + 4 - 1
      /\ DaysFromCivil(year, 12, 1) \in Int
      /\ DaysFromCivil(year, 12, 28) = DaysFromCivil(year, 12, 1) + 28 - 1
  BY <1>3, DaysOfMonth DEF FirstDay
<1>5. FirstDay(year + 1) = DaysFromCivil(year, 12, 1) + 31
  BY YearTurns DEF FirstDay
<1> QED  BY <1>1, <1>2, <1>4, <1>5, SMT

(* The first week of an ISO year starts within three days of New Year.     *)
LEMMA WeekOneStarts ==
  ASSUME NEW year \in Int
  PROVE  /\ MondayOfWeekOne(year) \in Int
         /\ (MondayOfWeekOne(year) + 3) % 7 = 0
         /\ FirstDay(year) - 3 <= MondayOfWeekOne(year)
         /\ MondayOfWeekOne(year) <= FirstDay(year) + 3
<1> DEFINE jan4 == FirstDay(year) + 3
           wd   == WeekdayOfDays(jan4)
<1>1. /\ jan4 \in Int /\ DaysFromCivil(year, 1, 4) = jan4
      /\ FirstDay(year) \in Int /\ jan4 = FirstDay(year) + 3
  BY DaysOfYear, SMT
<1> HIDE DEF jan4
<1>2. MondayOfWeekOne(year) = jan4 - wd
  BY <1>1 DEF MondayOfWeekOne
<1>3. wd = (jan4 + 3) % 7 /\ wd \in 0..6
  BY <1>1, WeekdayIsRemainder
<1> HIDE DEF wd
<1> DEFINE one == jan4 - wd
<1>4. /\ one \in Int /\ (one + 3) % 7 = 0
      /\ FirstDay(year) - 3 <= one /\ one <= FirstDay(year) + 3
  BY <1>1, <1>3, SMT
<1> QED  BY <1>2, <1>4

(* The ISO week of a day: its Thursday is in the year, and its Monday as   *)
(* many weeks after that of week one as the number says.                   *)
LEMMA IsoWeek ==
  ASSUME NEW days \in Int
  PROVE  LET iso    == IsoWeekOfDays(days)
             monday == days - WeekdayOfDays(days)
         IN  /\ iso.year \in Int /\ iso.week \in Nat \ {0} /\ monday \in Int
             /\ FirstDay(iso.year) <= monday + 3
             /\ monday + 3 < FirstDay(iso.year + 1)
             /\ monday = MondayOfWeekOne(iso.year) + (iso.week - 1) * 7
             /\ (monday + 3) % 7 = 0
<1> DEFINE wd       == WeekdayOfDays(days)
           monday   == days - wd
           thursday == days + (Thursday - wd)
           year     == CivilFromDays(thursday).year
           one      == MondayOfWeekOne(year)
           week     == FloorDiv(days - one, 7) + 1
<1>1. IsoWeekOfDays(days) = [year |-> year, week |-> week]
  BY DEF IsoWeekOfDays
<1>2. wd \in 0..6 /\ wd = (days + 3) % 7
  BY WeekdayIsRemainder
<1> HIDE DEF wd
<1>3. thursday \in Int /\ monday \in Int /\ thursday = monday + 3 /\ (monday + 3) % 7 = 0
  BY <1>2, SMT DEF Thursday
<1>4. year \in Int
  BY <1>3, DaysRoundTrip
<1>5. FirstDay(year) <= thursday /\ thursday < FirstDay(year + 1)
  BY <1>3, <1>4, YearOfDay DEF FirstDay
<1> HIDE DEF year
<1>6. /\ one \in Int /\ (one + 3) % 7 = 0
      /\ FirstDay(year) - 3 <= one /\ one <= FirstDay(year) + 3
      /\ FirstDay(year) \in Int
  BY <1>4, WeekOneStarts, DaysOfYear
<1> HIDE DEF one
<1>7. week = ((days - one) \div 7) + 1
  <2>1. days - one \in Int /\ 7 \in Divisors
    BY <1>6, SMT DEF Divisors
  <2> QED  BY <2>1, FloorDivRoundsDown
<1> HIDE DEF week
<1>8. week \in Nat \ {0} /\ monday = one + (week - 1) * 7
  <2> HIDE DEF thursday
  <2>1. days = monday + wd /\ one <= monday
    BY <1>2, <1>3, <1>5, <1>6, SMT
  <2> HIDE DEF monday
  <2> DEFINE k == ((monday + 3) \div 7) - ((one + 3) \div 7)
  <2>2. k \in Int /\ monday - one = k * 7
    BY <1>3, <1>6, SMT
  <2> HIDE DEF k
  <2>3. k >= 0 /\ (days - one) \div 7 = k
    BY <1>2, <1>3, <1>6, <2>1, <2>2, SMT
  <2> QED  BY <1>3, <1>6, <1>7, <2>2, <2>3, SMT
<1> QED  BY <1>1, <1>3, <1>4, <1>5, <1>8 DEF one, wd

(* 28 December is always in the last week of its own year.                 *)
LEMMA LastWeek ==
  ASSUME NEW year \in Int
  PROVE  LET last == IsoWeekOfDays(DaysFromCivil(year, 12, 28))
         IN  /\ last.week \in Nat
             /\ FirstDay(year + 1) - 4 < MondayOfWeekOne(year) + last.week * 7
<1> DEFINE dec28  == DaysFromCivil(year, 12, 28)
           last   == IsoWeekOfDays(dec28)
           monday == dec28 - WeekdayOfDays(dec28)
<1>1. /\ dec28 \in Int /\ dec28 = FirstDay(year + 1) - 4 /\ FirstDay(year) \in Int
      /\ FirstDay(year + 1) = FirstDay(year) + DaysInYear(year)
      /\ DaysInYear(year) \in {365, 366} /\ FirstDay(year + 1) \in Int
  BY DaysOfYear, SMT
<1>2. WeekdayOfDays(dec28) \in 0..6
  BY <1>1, WeekdayIsRemainder
<1>3. /\ last.year \in Int /\ last.week \in Nat \ {0} /\ monday \in Int
      /\ FirstDay(last.year) <= monday + 3 /\ monday + 3 < FirstDay(last.year + 1)
      /\ monday = MondayOfWeekOne(last.year) + (last.week - 1) * 7
  BY <1>1, IsoWeek, SMTT(30)
<1>4. last.year = year
  <2>1. /\ monday + 3 \in Int
        /\ FirstDay(year) <= monday + 3 /\ monday + 3 < FirstDay(year + 1)
    <3> HIDE DEF dec28
    <3> QED  BY <1>1, <1>2, <1>3, SMT
  <2>2. CivilFromDays(monday + 3).year = year
    BY <2>1, YearOfDay DEF FirstDay
  <2>3. CivilFromDays(monday + 3).year = last.year
    BY <1>3, <2>1, YearOfDay DEF FirstDay
  <2> QED  BY <2>2, <2>3
<1>5. MondayOfWeekOne(year) \in Int
  BY WeekOneStarts
<1> DEFINE w == last.week
<1>6. w \in Nat \ {0} /\ monday = MondayOfWeekOne(year) + (w - 1) * 7
  BY <1>3, <1>4
<1>7. w \in Nat /\ FirstDay(year + 1) - 4 < MondayOfWeekOne(year) + w * 7
  <2> HIDE DEF w, dec28
  <2> QED  BY <1>1, <1>2, <1>5, <1>6, SMT
<1> QED  BY <1>7

(* What the accessors of a date report, its constructors take back.        *)
LEMMA OrdinalTakenBack ==
  ASSUME NEW d \in Date
  PROVE  LET c == CivilFromDays(d)
         IN  FromYo(c.year, DayOfYear(c.year, c.month, c.day)) = {d}
<1> DEFINE c == CivilFromDays(d)
           n == DayOfYear(c.year, c.month, c.day)
<1>1. /\ c.year \in Int /\ d \in Int
      /\ DaysFromCivil(c.year, c.month, c.day) = d
  BY CivilFields, DateIsInt
<1>2. FirstDay(c.year) <= d /\ d < FirstDay(c.year + 1)
  BY <1>1, YearOfDay DEF FirstDay
<1>3. n = d - FirstDay(c.year) + 1
  BY <1>1 DEF DayOfYear, FirstDay
<1> HIDE DEF n
<1>4. FromYo(c.year, n)
        = IF n = 0 \/ n > DaysInYear(c.year) THEN Err
          ELSE FromDaysChecked(FirstDay(c.year) + n - 1)
  BY DEF FromYo, FirstDay
<1> DEFINE y == c.year
<1>5. /\ FirstDay(y) \in Int /\ DaysInYear(y) \in Int
      /\ FirstDay(y + 1) = FirstDay(y) + DaysInYear(y)
  BY <1>1, DaysOfYear, SMT
<1>6. FirstDay(y) <= d /\ d < FirstDay(y + 1) /\ n = d - FirstDay(y) + 1
  BY <1>2, <1>3
<1> HIDE DEF y
<1>7. n # 0 /\ ~(n > DaysInYear(y)) /\ FirstDay(y) + n - 1 = d
  BY <1>1, <1>5, <1>6, SMT
<1> QED  BY <1>4, <1>7 DEF y, n, FromDaysChecked, Ok

LEMMA IsoWeekTakenBack ==
  ASSUME NEW d \in Date
  PROVE  LET iso    == IsoWeekOfDays(d)
             monday == d - WeekdayOfDays(d)
         IN  FromIsoYwd(iso.year, iso.week, WeekdayOfDays(d))
               = IF monday < DateMin THEN Err ELSE {d}
<1> DEFINE iso    == IsoWeekOfDays(d)
           wd     == WeekdayOfDays(d)
           monday == d - wd
           y      == iso.year
           w      == iso.week
           last   == IsoWeekOfDays(DaysFromCivil(y, 12, 28)).week
           one    == MondayOfWeekOne(y)
<1>1. d \in Int /\ DateMin \in Int /\ DateMin <= d /\ d <= DateMax /\ DateMax \in Int
  BY DateAssumption, SMT DEF Date
<1>2. wd \in 0..6
  BY <1>1, WeekdayIsRemainder
<1>3. /\ y \in Int /\ w \in Nat \ {0} /\ monday \in Int
      /\ FirstDay(y) <= monday + 3 /\ monday + 3 < FirstDay(y + 1)
      /\ monday = one + (w - 1) * 7
  BY <1>1, IsoWeek
<1>4. last \in Nat /\ FirstDay(y + 1) - 4 < one + last * 7
  BY <1>3, LastWeek
<1>5. one \in Int /\ FirstDay(y + 1) \in Int
  BY <1>3, WeekOneStarts, DaysOfYear, SMTT(30)
<1>6. MondayOfIsoWeek(y, w)
        = IF w = 0 \/ w > last THEN Err ELSE FromDaysChecked(one + (w - 1) * 7)
  BY DEF MondayOfIsoWeek
<1>7. monday = d - wd
  OBVIOUS
<1> HIDE DEF iso, wd, monday, y, w, last, one
<1>8. w # 0 /\ ~(w > last) /\ monday + wd = d /\ monday <= DateMax
  BY <1>1, <1>2, <1>3, <1>4, <1>5, <1>7, SMT
<1>9. MondayOfIsoWeek(y, w) = FromDaysChecked(monday)
  BY <1>3, <1>6, <1>8
<1>10. monday \in Date <=> ~(monday < DateMin)
  BY <1>1, <1>3, <1>8, SMT DEF Date
<1>11. FromIsoYwd(y, w, wd) = UNION {AddDays(m, wd) : m \in FromDaysChecked(monday)}
  BY <1>9 DEF FromIsoYwd
<1>12. AddDays(monday, wd) = {d}
  BY <1>8 DEF AddDays, FromDaysChecked, Ok
<1>13. FromIsoYwd(y, w, wd) = IF monday < DateMin THEN Err ELSE {d}
  BY <1>10, <1>11, <1>12 DEF FromDaysChecked, Ok, Err
<1> QED  BY <1>13 DEF y, w, wd, monday, iso

LEMMA AccessorsTakenBack ==
  ASSUME NEW d \in Date
  PROVE  LET c == CivilFromDays(d)
         IN  /\ FromYmd(c.year, c.month, c.day) = {d}
             /\ FromNumDaysFromCe(NumDaysFromCe(d)) = {d}
<1> DEFINE c == CivilFromDays(d)
<1>1. /\ c.year \in Int /\ c.month \in Int /\ c.day \in Int
      /\ 1 <= c.month /\ c.month <= 12
      /\ 1 <= c.day /\ c.day <= DaysInMonth(c.year, c.month)
      /\ DaysFromCivil(c.year, c.month, c.day) = d
  BY CivilFields
<1> HIDE DEF c
<1>2. c.month \in 1..12 /\ c.day # 0
  BY <1>1, SMT
<1>3. FromYmd(c.year, c.month, c.day) = {d}
  BY <1>1, <1>2 DEF FromYmd, FromDaysChecked, Ok
<1>4. FromNumDaysFromCe(NumDaysFromCe(d)) = {d}
  <2>1. NumDaysFromCe(d) - DaysCommonEra = d
    BY DateIsInt, SMT DEF NumDaysFromCe, DaysCommonEra
  <2> QED  BY <2>1 DEF FromNumDaysFromCe, FromDaysChecked, Ok
<1> QED  BY <1>3, <1>4 DEF c

-----------------------------------------------------------------------------
(* The days around New Year.                                               *)
LEMMA NearNewYear ==
  ASSUME NEW year \in Int, NEW k \in -3..3
  PROVE  CivilFromDays(FirstDay(year) + k)
           = IF k < 0 THEN [year |-> year - 1, month |-> 12, day |-> 32 + k]
                      ELSE [year |-> year, month |-> 1, day |-> k + 1]
<1>1. CASE k < 0
  <2>1. /\ year - 1 \in Int /\ 12 \in 1..12 /\ 12 \in Int /\ 32 + k \in Int
        /\ IsCivil(year - 1, 12, 32 + k) /\ year - 1 + 1 = year
    BY <1>1, SMT DEF IsCivil, DaysInMonth
  <2>2. /\ DaysFromCivil(year - 1, 12, 1) \in Int
        /\ DaysFromCivil(year - 1, 12, 32 + k)
             = DaysFromCivil(year - 1, 12, 1) + (32 + k) - 1
    BY <2>1, DaysOfMonth
  <2>3. DaysFromCivil(year - 1 + 1, 1, 1) = DaysFromCivil(year - 1, 12, 1) + 31
    BY <2>1, YearTurns
  <2>4. DaysFromCivil(year - 1, 12, 32 + k) = FirstDay(year) + k
    BY <2>1, <2>2, <2>3, SMT DEF FirstDay
  <2>5. CivilFromDays(FirstDay(year) + k)
          = [year |-> year - 1, month |-> 12, day |-> 32 + k]
    BY <2>1, <2>4, CivilRoundTrips
  <2> QED  BY <1>1, <2>5
<1>2. CASE ~(k < 0)
  <2>1. 1 \in 1..12 /\ 1 \in Int /\ k + 1 \in Int /\ IsCivil(year, 1, k + 1)
    BY <1>2, SMT DEF IsCivil, DaysInMonth
  <2>2. /\ FirstDay(year) \in Int
        /\ DaysFromCivil(year, 1, k + 1) = FirstDay(year) + (k + 1) - 1
    BY <2>1, DaysOfMonth DEF FirstDay
  <2>3. DaysFromCivil(year, 1, k + 1) = FirstDay(year) + k
    BY <2>1, <2>2, SMT
  <2>4. CivilFromDays(FirstDay(year) + k) = [year |-> year, month |-> 1, day |-> k + 1]
    BY <2>1, <2>3, CivilRoundTrips
  <2> QED  BY <1>2, <2>4
<1> QED  BY <1>1, <1>2

(* The Monday of a week determines its ISO year and number.                *)
LEMMA IsoWeekOfMonday ==
  ASSUME NEW days \in Int, NEW year \in Int, NEW week \in Int,
         FirstDay(year) <= days - WeekdayOfDays(days) + 3,
         days - WeekdayOfDays(days) + 3 < FirstDay(year + 1),
         days - WeekdayOfDays(days) = MondayOfWeekOne(year) + (week - 1) * 7
  PROVE  IsoWeekOfDays(days) = [year |-> year, week |-> week]
<1> DEFINE iso == IsoWeekOfDays(days)
           y   == iso.year
           w   == iso.week
           monday == days - WeekdayOfDays(days)
<1>1. iso = [year |-> y, week |-> w]
  BY DEF IsoWeekOfDays
<1>2. /\ y \in Int /\ w \in Nat \ {0} /\ monday \in Int
      /\ FirstDay(y) <= monday + 3 /\ monday + 3 < FirstDay(y + 1)
      /\ monday = MondayOfWeekOne(y) + (w - 1) * 7
  BY IsoWeek
<1>6. monday = MondayOfWeekOne(year) + (week - 1) * 7
  OBVIOUS
<1>7. FirstDay(year) <= monday + 3 /\ monday + 3 < FirstDay(year + 1)
  OBVIOUS
<1> HIDE DEF iso, y, w, monday
<1>3. monday + 3 \in Int
  BY <1>2, SMT
<1>4. y = year
  BY <1>2, <1>3, <1>7, YearOfDay DEF FirstDay
<1>5. w = week
  <2>1. MondayOfWeekOne(year) \in Int
    BY WeekOneStarts
  <2> QED  BY <1>2, <1>4, <1>6, <2>1, SMT
<1> QED  BY <1>1, <1>4, <1>5 DEF iso

(* What a day does to the ISO week: nothing within a week; on a Monday the *)
(* next number, or week one when the Monday lies within three days of New  *)
(* Year.                                                                   *)
LEMMA IsoWeekTurns ==
  ASSUME NEW days \in Int
  PROVE  LET iso   == IsoWeekOfDays(days)
             c     == CivilFromDays(days + 1)
             opens == \/ c.month = 12 /\ c.day >= 29
                      \/ c.month = 1 /\ c.day <= 4
         IN  IsoWeekOfDays(days + 1) =
               IF WeekdayOfDays(days) # 6 THEN [year |-> iso.year, week |-> iso.week]
               ELSE IF opens THEN [year |-> iso.year + 1, week |-> 1]
               ELSE [year |-> iso.year, week |-> iso.week + 1]
<1> DEFINE iso    == IsoWeekOfDays(days)
           c      == CivilFromDays(days + 1)
           y      == iso.year
           w      == iso.week
           wd     == WeekdayOfDays(days)
           wdNext == WeekdayOfDays(days + 1)
           monday == days - wd
           one    == MondayOfWeekOne(y)
           next   == MondayOfWeekOne(y + 1)
           opens  == \/ c.month = 12 /\ c.day >= 29
                     \/ c.month = 1 /\ c.day <= 4
<1>1. /\ y \in Int /\ w \in Nat \ {0} /\ monday \in Int
      /\ FirstDay(y) <= monday + 3 /\ monday + 3 < FirstDay(y + 1)
      /\ monday = one + (w - 1) * 7 /\ (monday + 3) % 7 = 0
  BY IsoWeek
<1>2. /\ wd = (days + 3) % 7 /\ wd \in 0..6
      /\ wdNext = (days + 1 + 3) % 7 /\ wdNext \in 0..6
  <2>1. days + 1 \in Int
    BY SMT
  <2> QED  BY <2>1, WeekdayIsRemainder
<1>3. monday = days - wd /\ days + 1 \in Int
  BY SMT
<1>4. /\ y + 1 \in Int /\ y + 1 + 1 \in Int /\ one \in Int /\ w \in Int /\ w + 1 \in Int
      /\ FirstDay(y) \in Int /\ FirstDay(y + 1) \in Int /\ FirstDay(y + 1 + 1) \in Int
      /\ FirstDay(y + 1 + 1) >= FirstDay(y + 1) + 365
  <2>1. y + 1 \in Int /\ y + 1 + 1 \in Int /\ w \in Int /\ w + 1 \in Int
    BY <1>1, SMT
  <2>2. /\ FirstDay(y) \in Int /\ FirstDay(y + 1) \in Int /\ FirstDay(y + 1 + 1) \in Int
        /\ FirstDay(y + 1 + 1) = FirstDay(y + 1) + DaysInYear(y + 1)
        /\ DaysInYear(y + 1) \in {365, 366}
    BY <1>1, <2>1, DaysOfYear
  <2>3. one \in Int
    BY <1>1, WeekOneStarts
  <2> QED  BY <2>1, <2>2, <2>3, SMT
<1>5. /\ next \in Int /\ (next + 3) % 7 = 0
      /\ FirstDay(y + 1) - 3 <= next /\ next <= FirstDay(y + 1) + 3
  BY <1>4, WeekOneStarts
<1>6. c.year \in Int /\ c.month \in Int /\ c.day \in Int
      /\ IsCivil(c.year, c.month, c.day)
      /\ DaysFromCivil(c.year, c.month, c.day) = days + 1
  BY <1>3, DaysRoundTrip
<1>7. CASE wd # 6
  <2>1. monday = (days + 1) - wdNext
    <3> HIDE DEF monday, wd, wdNext
    <3> QED  BY <1>1, <1>2, <1>3, <1>7, SMT
  <2>2. /\ FirstDay(y) <= (days + 1) - wdNext + 3
        /\ (days + 1) - wdNext + 3 < FirstDay(y + 1)
        /\ (days + 1) - wdNext = one + (w - 1) * 7
    <3> HIDE DEF monday, y, w, wdNext
    <3> QED  BY <1>1, <2>1
  <2>3. IsoWeekOfDays(days + 1) = [year |-> y, week |-> w]
    <3> HIDE DEF monday, y, w, iso
    <3> QED  BY <1>1, <1>3, <1>4, <2>2, IsoWeekOfMonday
  <2> QED  BY <1>7, <2>3
<1>8. CASE wd = 6 /\ monday + 10 < FirstDay(y + 1)
  <2>1. days + 1 = monday + 7 /\ days + 1 = (days + 1) - wdNext
    <3> HIDE DEF monday, wd, wdNext
    <3> QED  BY <1>1, <1>2, <1>3, <1>8, SMT
  <2>2. /\ FirstDay(y) <= days + 1 + 3 /\ days + 1 + 3 < FirstDay(y + 1)
        /\ days + 1 = one + ((w + 1) - 1) * 7
    <3> HIDE DEF monday, wd, wdNext, one, y, w
    <3> QED  BY <1>1, <1>3, <1>4, <1>8, <2>1, SMT
  <2>3. IsoWeekOfDays(days + 1) = [year |-> y, week |-> w + 1]
    <3>1. /\ FirstDay(y) <= (days + 1) - wdNext + 3
          /\ (days + 1) - wdNext + 3 < FirstDay(y + 1)
          /\ (days + 1) - wdNext = one + ((w + 1) - 1) * 7
      <4> HIDE DEF wdNext, one, y, w
      <4> QED  BY <2>1, <2>2
    <3> HIDE DEF y, w, iso
    <3> QED  BY <1>1, <1>3, <1>4, <3>1, IsoWeekOfMonday
  <2>4. c.year = y
    <3>1. FirstDay(y) <= days + 1 /\ days + 1 < FirstDay(y + 1)
      <4> HIDE DEF monday, wd, wdNext, y, w
      <4> QED  BY <1>1, <1>3, <1>4, <2>1, <2>2, SMT
    <3> QED  BY <1>1, <1>3, <3>1, YearOfDay DEF FirstDay
  <2>5. ~opens
    <3>1. 1 \in 1..12 /\ 12 \in 1..12
      BY SMT
    <3>2. ASSUME c.month = 1 PROVE days + 1 = FirstDay(y) + c.day - 1
      <4>1. DaysFromCivil(y, 1, c.day) = days + 1
        BY <1>6, <2>4, <3>2
      <4>2. DaysFromCivil(y, 1, c.day) = DaysFromCivil(y, 1, 1) + c.day - 1
        BY <1>1, <1>6, <3>1, DaysOfMonth
      <4> QED  BY <4>1, <4>2 DEF FirstDay
    <3>3. ASSUME c.month = 12 PROVE days + 1 = FirstDay(y + 1) - 31 + c.day - 1
      <4>1. /\ DaysFromCivil(y, 12, 1) \in Int
            /\ days + 1 = DaysFromCivil(y, 12, 1) + c.day - 1
        <5>1. DaysFromCivil(y, 12, c.day) = days + 1
          BY <1>6, <2>4, <3>3
        <5> QED  BY <1>1, <1>6, <3>1, <5>1, DaysOfMonth
      <4>2. FirstDay(y + 1) = DaysFromCivil(y, 12, 1) + 31
        BY <1>1, YearTurns DEF FirstDay
      <4> HIDE DEF c, y
      <4> QED  BY <1>4, <1>6, <4>1, <4>2, SMT
    <3> HIDE DEF c, y, w, wd, monday, wdNext
    <3> QED  BY <1>1, <1>3, <1>4, <1>6, <1>8, <2>1, <3>2, <3>3, SMT
  <2> QED  BY <1>8, <2>3, <2>5
<1>9. CASE wd = 6 /\ ~(monday + 10 < FirstDay(y + 1))
  <2>1. days + 1 = monday + 7 /\ days + 1 = (days + 1) - wdNext
    <3> HIDE DEF monday, wd, wdNext
    <3> QED  BY <1>1, <1>2, <1>3, <1>9, SMT
  <2> DEFINE k == days + 1 - FirstDay(y + 1)
  <2>2. k \in -3..3 /\ k \in Int /\ days + 1 = FirstDay(y + 1) + k
    <3> HIDE DEF monday, wd, wdNext, y, w
    <3> QED  BY <1>1, <1>3, <1>4, <1>9, <2>1, SMT
  <2>3. days + 1 = next
    <3>1. (days + 1 + 3) % 7 = 0
      <4> HIDE DEF monday, wd, wdNext, y, w
      <4> QED  BY <1>1, <1>3, <1>4, <1>9, <2>1, SMT
    <3> HIDE DEF monday, wd, wdNext, y, w, next, k
    <3> QED  BY <1>3, <1>4, <1>5, <2>2, <3>1, SMT
  <2>4. /\ FirstDay(y + 1) <= days + 1 + 3 /\ days + 1 + 3 < FirstDay(y + 1 + 1)
        /\ days + 1 = next + (1 - 1) * 7 /\ 1 \in Int
    <3> HIDE DEF y, next, k
    <3> QED  BY <1>3, <1>4, <1>5, <2>2, <2>3, SMT
  <2>5. IsoWeekOfDays(days + 1) = [year |-> y + 1, week |-> 1]
    <3>1. /\ FirstDay(y + 1) <= (days + 1) - wdNext + 3
          /\ (days + 1) - wdNext + 3 < FirstDay(y + 1 + 1)
          /\ (days + 1) - wdNext = next + (1 - 1) * 7
      <4> HIDE DEF wdNext, next, y
      <4> QED  BY <2>1, <2>4
    <3> HIDE DEF y
    <3> QED  BY <1>3, <1>4, <2>4, <3>1, IsoWeekOfMonday
  <2>6. opens
    <3>1. c = IF k < 0 THEN [year |-> (y + 1) - 1, month |-> 12, day |-> 32 + k]
              ELSE [year |-> y + 1, month |-> 1, day |-> k + 1]
      <4> HIDE DEF k, y
      <4>1. CivilFromDays(FirstDay(y + 1) + k)
              = IF k < 0 THEN [year |-> (y + 1) - 1, month |-> 12, day |-> 32 + k]
                ELSE [year |-> y + 1, month |-> 1, day |-> k + 1]
        BY <1>4, <2>2, NearNewYear
      <4> QED  BY <2>2, <4>1
    <3> HIDE DEF k, y, c
    <3> QED  BY <2>2, <3>1, SMT
  <2> QED  BY <1>9, <2>5, <2>6
<1> QED  BY <1>7, <1>8, <1>9

=============================================================================
