--------------------------- MODULE StrftimeProofs ---------------------------
(***************************************************************************)
(* Theorems about every caller that formats a value and reads the text     *)
(* back, directive by directive (StrftimeRead), for every width of a day   *)
(* count and all sources: which directives fail to read what they wrote,   *)
(* that a date, a time and an instant read back are the ones written, and  *)
(* that a date resolved from any text shows the fields it came from.       *)
(***************************************************************************)
EXTENDS StrftimeRead, DateOpsProofs

-----------------------------------------------------------------------------
(* Weeks of the year, counted from the first Sunday or Monday.             *)
LEMMA DaysSinceStart ==
  ASSUME NEW start \in Weekdays, NEW days \in Int
  PROVE  /\ DaysSince(start, days) = (WeekdayOfDays(days) + (7 - start)) % 7
         /\ DaysSince(start, days) \in 0..6
         /\ (days + 3 - DaysSince(start, days)) % 7 = start
<1> DEFINE wd == WeekdayOfDays(days)
<1>1. wd = (days + 3) % 7 /\ wd \in 0..6
  BY WeekdayIsRemainder
<1>2. DaysSince(start, days) = (wd + (7 - start)) % 7
  <2>1. wd + (7 - start) \in Nat
    BY <1>1, SMT DEF Weekdays
  <2> QED  BY <2>1, RemainderOfNat DEF DaysSince
<1> HIDE DEF wd
<1> DEFINE since == (wd + (7 - start)) % 7
<1>3. since \in 0..6 /\ (days + 3 - since) % 7 = start
  BY <1>1, SMT DEF Weekdays
<1> QED  BY <1>2, <1>3 DEF wd

LEMMA FirstWeekOfYear ==
  ASSUME NEW start \in Weekdays, NEW year \in Int
  PROVE  /\ FirstOfYear(year, start) \in Int
         /\ FirstDay(year) <= FirstOfYear(year, start)
         /\ FirstOfYear(year, start) <= FirstDay(year) + 6
         /\ (FirstOfYear(year, start) + 3) % 7 = start
<1> DEFINE jan1  == FirstDay(year)
           since == DaysSince(start, jan1)
<1>1. jan1 \in Int
  BY DaysOfYear
<1>2. FirstOfYear(year, start) = jan1 + TruncRem(7 - since, 7)
  BY DEF FirstOfYear, FirstDay
<1> HIDE DEF jan1
<1>3. since \in 0..6 /\ (jan1 + 3 - since) % 7 = start
  BY <1>1, DaysSinceStart
<1> HIDE DEF since
<1>4. TruncRem(7 - since, 7) = (7 - since) % 7
  <2>1. 7 - since \in Nat
    BY <1>3, SMT
  <2> QED  BY <2>1, RemainderOfNat
<1>5. (7 - since) % 7 = IF since = 0 THEN 0 ELSE 7 - since
  BY <1>3, SMT
<1> DEFINE first == jan1 + (IF since = 0 THEN 0 ELSE 7 - since)
<1>6. first \in Int /\ jan1 <= first /\ first <= jan1 + 6 /\ (first + 3) % 7 = start
  BY <1>1, <1>3, SMT DEF Weekdays
<1>7. FirstOfYear(year, start) = first
  BY <1>2, <1>4, <1>5
<1> QED  BY <1>6, <1>7 DEF jan1

(* The week and the weekday say how far a day is from that first day.      *)
LEMMA WeekOfYearCounts ==
  ASSUME NEW start \in Weekdays, NEW days \in Int
  PROVE  LET year == CivilFromDays(days).year
         IN  /\ WeekOfYear(days, start) \in 0..53
             /\ days = FirstOfYear(year, start)
                         + (WeekOfYear(days, start) - 1) * 7 + DaysSince(start, days)
<1> DEFINE year  == CivilFromDays(days).year
           first == FirstOfYear(year, start)
           since == DaysSince(start, days)
           gap   == days - since - first
           week  == TruncDiv(gap, 7) + 1
<1>1. year \in Int
  BY DaysRoundTrip
<1>2. /\ FirstDay(year) \in Int /\ FirstDay(year + 1) \in Int
      /\ FirstDay(year + 1) <= FirstDay(year) + 366
  <2>1. year + 1 \in Int /\ FirstDay(year) \in Int
        /\ FirstDay(year + 1) = FirstDay(year) + DaysInYear(year)
        /\ DaysInYear(year) \in {365, 366}
    BY <1>1, DaysOfYear, SMT
  <2> HIDE DEF year
  <2> QED  BY <2>1, SMT
<1>3. FirstDay(year) <= days /\ days < FirstDay(year + 1)
  BY <1>1, YearOfDay DEF FirstDay
<1>4. WeekOfYear(days, start) = IF week > 0 THEN week ELSE 0
  BY DEF WeekOfYear
<1> HIDE DEF year
<1>5. /\ first \in Int /\ FirstDay(year) <= first /\ first <= FirstDay(year) + 6
      /\ (first + 3) % 7 = start
  BY <1>1, FirstWeekOfYear
<1>6. since \in 0..6 /\ (days + 3 - since) % 7 = start
  BY DaysSinceStart
<1> HIDE DEF first, since
<1> DEFINE k == ((days + 3 - since) \div 7) - ((first + 3) \div 7)
<1>7. k \in Int /\ gap = 7 * k
  BY <1>5, <1>6, SMT
<1>8. -1 <= k /\ k <= 52
  <2> HIDE DEF k
  <2> QED  BY <1>2, <1>3, <1>5, <1>6, <1>7, SMT
<1> HIDE DEF k
<1>9. TruncDiv(gap, 7) = k
  <2> HIDE DEF gap
  <2> QED  BY <1>7, <1>8, SMT DEF TruncDiv, Magnitude
<1> DEFINE w == IF k + 1 > 0 THEN k + 1 ELSE 0
<1>10. w \in 0..53 /\ days = first + (w - 1) * 7 + since
  BY <1>5, <1>6, <1>7, <1>8, SMT
<1>11. WeekOfYear(days, start) = w
  <2> HIDE DEF gap
  <2> QED  BY <1>4, <1>9
<1> QED  BY <1>10, <1>11 DEF year, first, since

(* A week of the year with its weekday names one day, or none in its year. *)
LEMMA WeekIsTakenBack ==
  ASSUME NEW d \in Date, NEW start \in Weekdays
  PROVE  DateFromWeek(CivilFromDays(d).year, WeekOfYear(d, start), WeekdayOfDays(d), start)
           = {d}
<1> DEFINE year == CivilFromDays(d).year
           week == WeekOfYear(d, start)
           wd   == WeekdayOfDays(d)
           days == FirstOfYear(year, start) + (week - 1) * 7 + TruncRem(wd + (7 - start), 7)
<1>1. d \in Int
  BY DateIsInt
<1>2. week \in 0..53 /\ days = d
  BY <1>1, WeekOfYearCounts DEF DaysSince
<1>3. DateFromWeek(year, week, wd, start)
        = {e \in FromDaysChecked(days) : week <= 53 /\ CivilFromDays(e).year = year}
  BY DEF DateFromWeek
<1>4. week <= 53
  <2> HIDE DEF week
  <2> QED  BY <1>2, SMT
<1>5. FromDaysChecked(days) = {d}
  BY <1>2 DEF FromDaysChecked, Ok
<1> QED  BY <1>3, <1>4, <1>5

LEMMA WeekIsShown ==
  ASSUME NEW year \in Int, NEW week \in Nat, NEW weekday \in Weekdays,
         NEW start \in Weekdays, NEW d \in DateFromWeek(year, week, weekday, start)
  PROVE  /\ d \in Date /\ CivilFromDays(d).year = year
         /\ WeekOfYear(d, start) = week /\ WeekdayOfDays(d) = weekday
<1> DEFINE first == FirstOfYear(year, start)
           off   == TruncRem(weekday + (7 - start), 7)
           w     == WeekOfYear(d, start)
           since == DaysSince(start, d)
<1>1. d \in Date /\ d = first + (week - 1) * 7 + off /\ CivilFromDays(d).year = year
  BY DEF DateFromWeek, FromDaysChecked, Ok, Err
<1>2. d \in Int
  BY <1>1, DateIsInt
<1>3. first \in Int /\ (first + 3) % 7 = start
  BY FirstWeekOfYear
<1>4. off = (weekday + (7 - start)) % 7
  <2>1. weekday + (7 - start) \in Nat
    BY SMT DEF Weekdays
  <2> QED  BY <2>1, RemainderOfNat
<1>5. WeekdayOfDays(d) = weekday
  <2>1. WeekdayOfDays(d) = (d + 3) % 7
    BY <1>2, WeekdayIsRemainder
  <2>2. (d + 3) % 7 = weekday
    <3> HIDE DEF first, off
    <3>1. off \in 0..6 /\ (off + start) % 7 = weekday
      BY <1>4, SMT DEF Weekdays
    <3>2. d + 3 = (first + 3) + off + 7 * (week - 1)
      BY <1>1, <1>2, <1>3, <3>1, SMT
    <3>3. ((first + 3) + off) % 7 = weekday
      BY <1>3, <3>1, SMT DEF Weekdays
    <3> QED  BY <1>3, <3>1, <3>2, <3>3, SMT
  <2> QED  BY <2>1, <2>2
<1>6. since = off
  BY <1>2, <1>4, <1>5, DaysSinceStart
<1>7. w \in 0..53 /\ d = first + (w - 1) * 7 + since
  BY <1>1, <1>2, WeekOfYearCounts
<1>8. off \in Int
  <2> HIDE DEF off
  <2> QED  BY <1>4, SMT DEF Weekdays
<1> HIDE DEF first, off, w, since
<1>9. w = week
  BY <1>1, <1>3, <1>6, <1>7, <1>8, SMT
<1> QED  BY <1>1, <1>5, <1>9 DEF w

-----------------------------------------------------------------------------
(* What the directives show of a date: every number has its digits.        *)
LEMMA IsoWeekBounds ==
  ASSUME NEW days \in Int
  PROVE  IsoWeekOfDays(days).week \in 1..53 /\ IsoWeekOfDays(days).year \in Int
<1> DEFINE iso    == IsoWeekOfDays(days)
           y      == iso.year
           w      == iso.week
           monday == days - WeekdayOfDays(days)
           one    == MondayOfWeekOne(y)
<1>1. /\ y \in Int /\ w \in Nat \ {0} /\ monday \in Int
      /\ monday + 3 < FirstDay(y + 1) /\ monday = one + (w - 1) * 7
  BY IsoWeek
<1>2. /\ FirstDay(y) \in Int /\ FirstDay(y + 1) = FirstDay(y) + DaysInYear(y)
      /\ DaysInYear(y) \in {365, 366}
  BY <1>1, DaysOfYear
<1>3. one \in Int /\ FirstDay(y) - 3 <= one
  BY <1>1, WeekOneStarts
<1> HIDE DEF y, w, monday, one
<1>4. w \in 1..53
  BY <1>1, <1>2, <1>3, SMT
<1> QED  BY <1>1, <1>4 DEF y, w

Ordinals    == 1..366
ThreeDigits == 0..999

LEMMA OrdinalBounds ==
  ASSUME NEW days \in Int, NEW c, c = CivilFromDays(days)
  PROVE  DayOfYear(c.year, c.month, c.day) \in Ordinals
<1> DEFINE y == c.year
<1>1. y \in Int /\ DaysFromCivil(y, c.month, c.day) = days
  BY DaysRoundTrip
<1>2. FirstDay(y) <= days /\ days < FirstDay(y + 1)
  BY <1>1, YearOfDay DEF FirstDay
<1>3. /\ FirstDay(y) \in Int /\ FirstDay(y + 1) = FirstDay(y) + DaysInYear(y)
      /\ DaysInYear(y) \in {365, 366}
  BY <1>1, DaysOfYear
<1>4. DayOfYear(y, c.month, c.day) = days - FirstDay(y) + 1
  BY <1>1 DEF DayOfYear, FirstDay
<1> HIDE DEF y
<1>5. days - FirstDay(y) + 1 \in 1..366
  BY <1>2, <1>3, SMT
<1> QED  BY <1>4, <1>5 DEF y, Ordinals

LEMMA TwoDigits ==
  ASSUME NEW year \in Int
  PROVE  /\ EuclidRem(year, 100) \in 0..99 /\ EuclidDiv(year, 100) \in Int
         /\ year = EuclidDiv(year, 100) * 100 + EuclidRem(year, 100)
         /\ EuclidDiv(year, 100) \in 0..99 <=> year \in FourDigits
<1>1. /\ EuclidDiv(year, 100) \in Int /\ EuclidRem(year, 100) \in 0..99
      /\ year = EuclidDiv(year, 100) * 100 + EuclidRem(year, 100)
  <2>1. 100 \in Nat \ {0} /\ 0..100-1 = 0..99
    BY SMT
  <2>2. EuclidRem(year, 100) \in 0..100-1
    BY <2>1, EuclidSplits
  <2> QED  BY <2>1, <2>2, EuclidSplits
<1> DEFINE q == EuclidDiv(year, 100)
           r == EuclidRem(year, 100)
<1> HIDE DEF q, r
<1>2. q \in Int /\ r \in 0..99 /\ year = q * 100 + r
  BY <1>1 DEF q, r
<1>3. q \in 0..99 <=> year \in FourDigits
  <2>1. (0 <= q /\ q <= 99) <=> (0 <= year /\ year <= 9999)
    BY <1>2, SMT
  <2>2. q \in 0..99 <=> 0 <= q /\ q <= 99
    BY <1>2
  <2>3. year \in FourDigits <=> 0 <= year /\ year <= 9999
    BY SMT DEF FourDigits
  <2> QED  BY <2>1, <2>2, <2>3
<1> QED  BY <1>1, <1>3 DEF q

LEMMA HoursOnTheDial ==
  ASSUME NEW hour \in 0..23
  PROVE  Hour12(hour) \in 1..12 /\ hour =
           IF hour >= 12 THEN IF Hour12(hour) = 12 THEN 12 ELSE Hour12(hour) + 12
                         ELSE IF Hour12(hour) = 12 THEN 0 ELSE Hour12(hour)
BY SMT DEF Hour12, TruncRem, TruncDiv, Magnitude

(* The value of every field for a source.                                  *)
Shown(s) ==
  LET c   == CivilFromDays(s.date)
      iso == IsoWeekOfDays(s.date)
  IN  [year      |-> {c.year},
       century   |-> {EuclidDiv(c.year, 100)},
       year2     |-> {EuclidRem(c.year, 100)},
       month     |-> {c.month},
       day       |-> {c.day},
       ordinal   |-> {DayOfYear(c.year, c.month, c.day)},
       isoyear   |-> {iso.year},
       isoyear2  |-> {EuclidRem(iso.year, 100)},
       isoweek   |-> {iso.week},
       weekday   |-> {WeekdayOfDays(s.date)},
       weeksun   |-> {WeekOfYear(s.date, Sunday)},
       weekmon   |-> {WeekOfYear(s.date, Monday)},
       hour      |-> {s.time.hour},
       hour12    |-> {Hour12(s.time.hour)},
       pm        |-> {s.time.hour >= 12},
       minute    |-> {s.time.minute},
       second    |-> {s.time.second},
       nanos     |-> {s.time.nanos},
       offset    |-> s.offset,
       timestamp |-> s.timestamp]

(* Where a directive that stands for itself puts what it reads.            *)
Single == Directives \ {"F", "D", "R", "T", "r"}

FieldOf(d) ==
  IF d \in DOMAIN Unsigned THEN Unsigned[d][1]
  ELSE CASE d = "Y" -> "year"
         [] d = "G" -> "isoyear"
         [] d = "b" -> "month"
         [] d \in {"a", "u", "w"} -> "weekday"
         [] d = "p" -> "pm"
         [] d = ".f" -> "nanos"
         [] d \in {"z", ":z", "Z"} -> "offset"
         [] d = "s" -> "timestamp"

With(p, f, s) == [p EXCEPT ![f] = Shown(s)[f]]

LEMMA NumberIsRead ==
  ASSUME NEW d \in DOMAIN Unsigned, NEW v, NEW s, NEW p, Written(d, View(s)) = {v},
         Shown(s)[Unsigned[d][1]] = {v}
  PROVE  ReadOne(d, View(s), p) = IF v \in 0..10^Unsigned[d][2] - 1
                            THEN {With(p, FieldOf(d), s)} ELSE Err
<1>1. ReadOne(d, View(s), p) = Read(d, v, p)
  BY DEF ReadOne
<1>2. Read(d, v, p) = Put(p, Unsigned[d][1], {n \in {v} : n \in 0..10^Unsigned[d][2] - 1})
  BY DEF Read
<1>3. FieldOf(d) = Unsigned[d][1]
  BY DEF FieldOf
<1> QED  BY <1>1, <1>2, <1>3, ZenonT(60) DEF Put, With, Err

LEMMA Digits ==
  10^2 - 1 = 99 /\ 10^3 - 1 = 999
BY SMT

(* What stands for itself reads what it wrote, or fails.                   *)
ReadsWhatItWrote(d, s, p) ==
  ReadOne(d, View(s), p) = IF FailsToRead(d, s) THEN Err ELSE {With(p, FieldOf(d), s)}

LEMMA ValueIsRead ==
  ASSUME NEW d, NEW f, FieldOf(d) = f, NEW v, NEW w, NEW s, NEW p,
         Written(d, View(s)) = {v}, Shown(s)[f] = {w}, Read(d, v, p) = Put(p, f, {w}),
         ~FailsToRead(d, s)
  PROVE  ReadsWhatItWrote(d, s, p)
BY DEF ReadsWhatItWrote, ReadOne, Put, With

LEMMA NothingIsRead ==
  ASSUME NEW d, NEW s, NEW p, Written(d, View(s)) = {}, FailsToRead(d, s)
  PROVE  ReadsWhatItWrote(d, s, p)
BY DEF ReadsWhatItWrote, ReadOne, Err

LEMMA SourceFields ==
  ASSUME NEW s, IsSource(s), NEW c, c = CivilFromDays(s.date)
  PROVE  /\ s.date \in Date /\ s.date \in Int
         /\ c.year \in Int /\ c.month \in 1..12 /\ c.day \in 1..31
         /\ DayOfYear(c.year, c.month, c.day) \in Ordinals
         /\ IsoWeekOfDays(s.date).year \in Int /\ IsoWeekOfDays(s.date).week \in 1..53
         /\ WeekdayOfDays(s.date) \in 0..6
         /\ WeekOfYear(s.date, Sunday) \in 0..53 /\ WeekOfYear(s.date, Monday) \in 0..53
         /\ s.time.hour \in 0..23 /\ s.time.minute \in 0..59
         /\ s.time.second \in 0..59 /\ s.time.nanos \in 0..10^9 - 1
         /\ s.offset \subseteq Int
<1>0. s.date \in Date 
      /\ s.time \in [hour : 0..23, minute : 0..59, second : 0..59, nanos : 0..10^9 - 1]
      /\ (s.offset = {} \/ \E o \in s.offset : o \in OffsetSeconds /\ s.offset = {o})
  BY DEF IsSource
<1>1. s.date \in Date /\ s.date \in Int
  BY <1>0, DateIsInt
<1>2. /\ c.year \in Int /\ c.month \in Int /\ c.day \in Int
      /\ 1 <= c.month /\ c.month <= 12 /\ 1 <= c.day
      /\ c.day <= DaysInMonth(c.year, c.month)
  BY <1>1, CivilFields
<1>3. c.month \in 1..12 /\ c.day \in 1..31
  <2>1. c.month \in 1..12
    BY <1>2, SMT
  <2>2. DaysInMonth(c.year, c.month) \in Int /\ DaysInMonth(c.year, c.month) <= 31
    BY <1>2, <2>1, MonthLength
  <2> QED  BY <1>2, <2>1, <2>2, SMT
<1>4. Sunday \in Weekdays /\ Monday \in Weekdays
  BY SMT DEF Sunday, Monday, Weekdays
<1>5. /\ s.time.hour \in 0..23 /\ s.time.minute \in 0..59
      /\ s.time.second \in 0..59 /\ s.time.nanos \in 0..10^9 - 1
  <2> DEFINE nanos == 0..10^9 - 1
  <2>1. s.time \in [hour : 0..23, minute : 0..59, second : 0..59, nanos : nanos]
    BY <1>0
  <2> HIDE DEF nanos
  <2>2. /\ s.time.hour \in 0..23 /\ s.time.minute \in 0..59
        /\ s.time.second \in 0..59 /\ s.time.nanos \in nanos
    BY <2>1
  <2> QED  BY <2>2 DEF nanos
<1>6. s.offset \subseteq Int
  <2>1. OffsetSeconds \subseteq Int
    BY SMT DEF OffsetSeconds
  <2> QED  BY <1>0, <2>1
<1> QED
  BY <1>1, <1>2, <1>3, <1>4, <1>5, <1>6, OrdinalBounds, IsoWeekBounds, WeekdayIsRemainder,
     WeekOfYearCounts, ZenonT(60)

LEMMA NumbersAreRead ==
  ASSUME NEW s, IsSource(s), NEW p, NEW d \in DOMAIN Unsigned
  PROVE  ReadOne(d, View(s), p) = IF FailsToRead(d, s) THEN Err ELSE {With(p, FieldOf(d), s)}
<1> DEFINE c    == CivilFromDays(s.date)
           Goal(k) == ReadOne(k, View(s), p) =
                        IF FailsToRead(k, s) THEN Err ELSE {With(p, FieldOf(k), s)}
<1>1. DOMAIN Unsigned = {"C", "y", "m", "d", "j", "g", "V", "U", "W", "H", "I", "M", "S", "f"}
  BY DEF Unsigned
<1>2. /\ c.year \in Int /\ c.month \in 0..99 /\ c.day \in 0..99
      /\ DayOfYear(c.year, c.month, c.day) \in ThreeDigits
      /\ IsoWeekOfDays(s.date).year \in Int /\ IsoWeekOfDays(s.date).week \in 0..99
      /\ WeekOfYear(s.date, Sunday) \in 0..99 /\ WeekOfYear(s.date, Monday) \in 0..99
      /\ s.time.hour \in 0..99 /\ s.time.minute \in 0..99
      /\ s.time.second \in 0..99 /\ Hour12(s.time.hour) \in 0..99
  <2>0. c = CivilFromDays(s.date)
    BY Zenon DEF c
  <2> HIDE DEF c
  <2>1. \A n : (n \in 1..12 \/ n \in 1..31 \/ n \in 1..53 \/ n \in 0..53 \/ n \in 0..59
                \/ n \in 0..23) => n \in 0..99
    BY SMT
  <2>2. \A n \in Ordinals : n \in ThreeDigits
    BY SMT DEF Ordinals, ThreeDigits
  <2>3. /\ c.year \in Int /\ c.month \in 1..12 /\ c.day \in 1..31
        /\ DayOfYear(c.year, c.month, c.day) \in Ordinals
        /\ IsoWeekOfDays(s.date).year \in Int /\ IsoWeekOfDays(s.date).week \in 1..53
        /\ WeekOfYear(s.date, Sunday) \in 0..53 /\ WeekOfYear(s.date, Monday) \in 0..53
        /\ s.time.hour \in 0..23 /\ s.time.minute \in 0..59 /\ s.time.second \in 0..59
    BY <2>0, SourceFields, ZenonT(30)
  <2>4. Hour12(s.time.hour) \in 1..12
    BY <2>3, HoursOnTheDial
  <2>5. c.month \in 0..99 /\ c.day \in 0..99 /\ IsoWeekOfDays(s.date).week \in 0..99
    BY <2>1, <2>3
  <2>6. WeekOfYear(s.date, Sunday) \in 0..99 /\ WeekOfYear(s.date, Monday) \in 0..99
    BY <2>1, <2>3
  <2>7. s.time.hour \in 0..99 /\ s.time.minute \in 0..99 /\ s.time.second \in 0..99
    BY <2>1, <2>3
  <2>8. Hour12(s.time.hour) \in 0..99
    BY <2>1, <2>4
  <2>9. DayOfYear(c.year, c.month, c.day) \in ThreeDigits
    BY <2>2, <2>3, Zenon
  <2> QED  BY <2>3, <2>5, <2>6, <2>7, <2>8, <2>9, Zenon
<1>3. \A year \in Int : /\ EuclidRem(year, 100) \in 0..99
                        /\ EuclidDiv(year, 100) \in 0..99 <=> year \in FourDigits
  BY TwoDigits
<1> HIDE DEF c
<1>4. Goal("C")
  <2> DEFINE v == EuclidDiv(c.year, 100)
  <2>1. /\ "C" \in DOMAIN Unsigned /\ Unsigned["C"][1] = "century" /\ Unsigned["C"][2] = 2
        /\ Written("C", View(s)) = {v} /\ Shown(s)["century"] = {v}
    BY DEF Unsigned, Written, View, Shown, c
  <2>2. FailsToRead("C", s) <=> c.year \notin FourDigits
    BY DEF FailsToRead, c
  <2>3. FailsToRead("C", s) <=> v \notin 0..10^2 - 1
    BY <1>2, <1>3, <2>2, Digits, SMTT(30)
  <2> HIDE DEF v
  <2>4. ReadOne("C", View(s), p) = IF v \in 0..10^2 - 1
                             THEN {With(p, FieldOf("C"), s)} ELSE Err
    BY <2>1, NumberIsRead
  <2> QED  BY <2>3, <2>4
<1> DEFINE Writes(k, v, n) == /\ Written(k, View(s)) = {v} /\ Shown(s)[Unsigned[k][1]] = {v}
                              /\ Unsigned[k][2] = n
           Reads(k) == \E v : /\ Written(k, View(s)) = {v} /\ Shown(s)[Unsigned[k][1]] = {v}
                              /\ v \in 0..10^Unsigned[k][2] - 1
<1>5. /\ Writes("y", EuclidRem(c.year, 100), 2) /\ Writes("m", c.month, 2)
      /\ Writes("d", c.day, 2) /\ Writes("j", DayOfYear(c.year, c.month, c.day), 3)
  BY DEF Written, View, Shown, Unsigned, c
<1>6. /\ Writes("g", EuclidRem(IsoWeekOfDays(s.date).year, 100), 2)
      /\ Writes("V", IsoWeekOfDays(s.date).week, 2)
      /\ Writes("U", WeekOfYear(s.date, Sunday), 2)
      /\ Writes("W", WeekOfYear(s.date, Monday), 2)
  BY DEF Written, View, Shown, Unsigned
<1>7. /\ Writes("H", s.time.hour, 2) /\ Writes("I", Hour12(s.time.hour), 2)
      /\ Writes("M", s.time.minute, 2) /\ Writes("S", s.time.second, 2)
      /\ Writes("f", s.time.nanos, 9)
  BY SMTT(30) DEF Written, View, Shown, Unsigned
<1>8. s.time.nanos \in 0..10^9 - 1
  BY SourceFields
<1> HIDE DEF Writes
<1>9. ASSUME NEW k, NEW v, NEW n, Writes(k, v, n), v \in 0..10^n - 1
      PROVE  Reads(k)
  BY <1>9 DEF Writes
<1>10. ASSUME NEW k \in DOMAIN Unsigned \ {"C"} PROVE Goal(k)
  <2>1. Reads(k)
    <3>1. /\ EuclidRem(c.year, 100) \in 0..10^2 - 1 /\ c.month \in 0..10^2 - 1
          /\ c.day \in 0..10^2 - 1 /\ DayOfYear(c.year, c.month, c.day) \in 0..10^3 - 1
          /\ EuclidRem(IsoWeekOfDays(s.date).year, 100) \in 0..10^2 - 1
          /\ IsoWeekOfDays(s.date).week \in 0..10^2 - 1
          /\ WeekOfYear(s.date, Sunday) \in 0..10^2 - 1
          /\ WeekOfYear(s.date, Monday) \in 0..10^2 - 1
          /\ s.time.hour \in 0..10^2 - 1 /\ Hour12(s.time.hour) \in 0..10^2 - 1
          /\ s.time.minute \in 0..10^2 - 1 /\ s.time.second \in 0..10^2 - 1
      <4>1. /\ \A n \in 0..99 : n \in 0..10^2 - 1
            /\ \A n \in ThreeDigits : n \in 0..10^3 - 1
        BY Digits DEF ThreeDigits
      <4>2. /\ EuclidRem(c.year, 100) \in 0..99
            /\ EuclidRem(IsoWeekOfDays(s.date).year, 100) \in 0..99
        BY <1>2, <1>3
      <4> QED  BY <1>2, <4>1, <4>2, ZenonT(60)
    <3> HIDE DEF Reads
    <3>2. Reads("y") /\ Reads("m") /\ Reads("d") /\ Reads("j")
      BY <1>5, <1>9, <3>1, Zenon
    <3>3. Reads("g") /\ Reads("V") /\ Reads("U") /\ Reads("W")
      BY <1>6, <1>9, <3>1, Zenon
    <3>4. Reads("H") /\ Reads("I") /\ Reads("M") /\ Reads("S") /\ Reads("f")
      BY <1>7, <1>8, <1>9, <3>1, Zenon
    <3> QED  BY <1>1, <3>2, <3>3, <3>4
  <2>2. ~FailsToRead(k, s)
    BY <1>1 DEF FailsToRead
  <2> QED  BY <2>1, <2>2, NumberIsRead
<1> QED  BY <1>4, <1>10

LEMMA NamesAreRead ==
  ASSUME NEW s, IsSource(s), NEW p,
         NEW d \in {"Y", "G", "b", "a", "u", "w", "p", ".f", "z", ":z", "Z", "s"}
  PROVE  ReadsWhatItWrote(d, s, p)
<1> DEFINE c  == CivilFromDays(s.date)
           wd == WeekdayOfDays(s.date)
           Goal(k) == ReadsWhatItWrote(k, s, p)
           Writes(k, f, v, w) == /\ Written(k, View(s)) = {v} /\ Shown(s)[f] = {w}
                                 /\ Read(k, v, p) = Put(p, f, {w})
                                 /\ FieldOf(k) = f /\ ~FailsToRead(k, s)
<1>1. \A k \in {"Y", "G", "b", "a", "u", "w", "p", ".f", "z", ":z", "Z", "s"} :
        k \notin DOMAIN Unsigned
  BY DEF Unsigned
<1>0. ASSUME NEW k, NEW f, NEW v, NEW w, Writes(k, f, v, w) PROVE Goal(k)
  BY <1>0, ValueIsRead
<1>2. Goal("Y") /\ Goal("G") /\ Goal("b") /\ Goal("a") /\ Goal("p")
  <2>1. /\ Writes("Y", "year", c.year, c.year)
        /\ Writes("G", "isoyear", IsoWeekOfDays(s.date).year, IsoWeekOfDays(s.date).year)
    BY <1>1 DEF Written, View, Shown, Read, FieldOf, FailsToRead
  <2>2. Writes("b", "month", c.month, c.month) /\ Writes("a", "weekday", wd, wd)
    BY <1>1 DEF Written, View, Shown, Read, FieldOf, FailsToRead
  <2>3. Writes("p", "pm", s.time.hour >= 12, s.time.hour >= 12)
    BY <1>1 DEF Written, View, Shown, Read, FieldOf, FailsToRead
  <2> HIDE DEF Writes, Goal
  <2> QED  BY <1>0, <2>1, <2>2, <2>3
<1>3. Goal("u") /\ Goal("w")
  <2>1. wd \in 0..6
    BY SourceFields
  <2>2. /\ Written("u", View(s)) = {wd + 1} /\ Written("w", View(s)) = {TruncRem(wd + 1, 7)}
        /\ Shown(s)["weekday"] = {wd} /\ FieldOf("u") = "weekday" /\ FieldOf("w") = "weekday"
        /\ ~FailsToRead("u", s) /\ ~FailsToRead("w", s)
    BY <1>1 DEF Written, View, Shown, FieldOf, FailsToRead
  <2> HIDE DEF wd
  <2>3. Read("u", wd + 1, p) = Put(p, "weekday", {wd})
    <3>0. wd + 1 \in 1..7 /\ (wd + 1) - 1 = wd
      BY <2>1, SMT
    <3>1. {wd + 1} \cap 1..7 = {wd + 1} /\ (wd + 1) - 1 = wd
      BY <3>0
    <3>2. {n - 1 : n \in {wd + 1} \cap 1..7} = {wd}
      BY <3>1
    <3>3. Read("u", wd + 1, p) = Put(p, "weekday", {n - 1 : n \in {wd + 1} \cap 1..7})
      BY <1>1 DEF Read
    <3> QED  BY <3>2, <3>3
  <2>4. Read("w", TruncRem(wd + 1, 7), p) = Put(p, "weekday", {wd})
    <3>1. TruncRem(wd + 1, 7) = IF wd = 6 THEN 0 ELSE wd + 1
      BY <2>1, SMT DEF TruncRem, TruncDiv, Magnitude
    <3>2. WeekdayFromSunday(IF wd = 6 THEN 0 ELSE wd + 1) = {wd}
      BY <2>1, SMT DEF WeekdayFromSunday, Sunday
    <3>3. Read("w", TruncRem(wd + 1, 7), p)
            = Put(p, "weekday", WeekdayFromSunday(TruncRem(wd + 1, 7)))
      BY <1>1 DEF Read
    <3> QED  BY <3>1, <3>2, <3>3
  <2>5. Writes("u", "weekday", wd + 1, wd)
    BY <2>2, <2>3
  <2>6. Writes("w", "weekday", TruncRem(wd + 1, 7), wd)
    BY <2>2, <2>4
  <2> HIDE DEF Writes, Goal
  <2> QED  BY <1>0, <2>5, <2>6
<1>4. Goal(".f")
  <2> DEFINE n == s.time.nanos
  <2>1. /\ Written(".f", View(s)) = {n} \ {0} /\ FieldOf(".f") = "nanos"
        /\ Shown(s)["nanos"] = {n} /\ (FailsToRead(".f", s) <=> n = 0)
        /\ Read(".f", n, p) = Put(p, "nanos", {n})
    BY <1>1 DEF Written, View, Shown, Read, FieldOf, FailsToRead
  <2>2. CASE n = 0
    BY <2>1, <2>2, NothingIsRead
  <2>3. CASE n # 0
    <3>1. {n} \ {0} = {n}
      BY <2>3
    <3>2. Writes(".f", "nanos", n, n)
      BY <2>1, <2>3, <3>1
    <3> HIDE DEF Writes, Goal
    <3> QED  BY <1>0, <3>2
  <2> QED  BY <2>2, <2>3
<1>5. Goal("z") /\ Goal(":z") /\ Goal("Z")
  <2>1. /\ Written("z", View(s)) = s.offset /\ Written(":z", View(s)) = s.offset
        /\ Written("Z", View(s)) = s.offset \cap {0}
    BY DEF Written, View
  <2>2. /\ Shown(s)["offset"] = s.offset
        /\ FieldOf("z") = "offset" /\ FieldOf(":z") = "offset" /\ FieldOf("Z") = "offset"
    BY <1>1 DEF Shown, FieldOf
  <2>3. \A v : /\ Read("z", v, p) = Put(p, "offset", {n \in {v} : n % 60 = 0})
               /\ Read(":z", v, p) = Put(p, "offset", {v})
               /\ Read("Z", v, p) = Put(p, "offset", {v})
    BY <1>1 DEF Read
  <2>4. /\ FailsToRead("z", s) <=> ~\E o \in s.offset : o % 60 = 0
        /\ FailsToRead(":z", s) <=> s.offset = {}
        /\ FailsToRead("Z", s) <=> s.offset # {0}
    BY DEF FailsToRead
  <2>5. CASE s.offset = {}
    <3>1. /\ Written("z", View(s)) = {} /\ Written(":z", View(s)) = {} /\ Written("Z", View(s)) = {}
          /\ FailsToRead("z", s) /\ FailsToRead(":z", s) /\ FailsToRead("Z", s)
      BY <2>1, <2>4, <2>5
    <3> QED  BY <3>1, NothingIsRead
  <2>6. ASSUME NEW o \in s.offset, s.offset = {o} PROVE Goal("z") /\ Goal(":z") /\ Goal("Z")
    <3>1. Writes(":z", "offset", o, o)
      BY <2>1, <2>2, <2>3, <2>4, <2>6
    <3>2. Goal("Z")
      <4>1. CASE o = 0
        <5>1. Writes("Z", "offset", o, o)
          BY <2>1, <2>2, <2>3, <2>4, <2>6, <4>1
        <5> HIDE DEF Writes, Goal
        <5> QED  BY <1>0, <5>1
      <4>2. CASE o # 0
        <5>1. Written("Z", View(s)) = {} /\ FailsToRead("Z", s)
          BY <2>1, <2>4, <2>6, <4>2
        <5> QED  BY <5>1, NothingIsRead
      <4> QED  BY <4>1, <4>2
    <3>3. Goal("z")
      <4>1. CASE o % 60 = 0
        <5>1. {n \in {o} : n % 60 = 0} = {o}
          BY <4>1
        <5>2. Read("z", o, p) = Put(p, "offset", {o})
          BY <2>3, <5>1
        <5>3. Writes("z", "offset", o, o)
          BY <2>1, <2>2, <2>4, <2>6, <4>1, <5>2
        <5> HIDE DEF Writes, Goal
        <5> QED  BY <1>0, <5>3
      <4>2. CASE o % 60 # 0
        <5>1. {n \in {o} : n % 60 = 0} = {}
          BY <4>2
        <5>2. ReadOne("z", View(s), p) = Read("z", o, p)
          BY <2>1, <2>6 DEF ReadOne
        <5>3. FailsToRead("z", s)
          BY <2>4, <2>6, <4>2
        <5>4. Read("z", o, p) = {}
          <6>1. Read("z", o, p) = Put(p, "offset", {})
            BY <2>3, <5>1
          <6> QED  BY <6>1 DEF Put
        <5> QED  BY <5>2, <5>3, <5>4 DEF Err, ReadsWhatItWrote
      <4> QED  BY <4>1, <4>2
    <3> HIDE DEF Writes, Goal
    <3> QED  BY <1>0, <3>1, <3>2, <3>3
  <2> QED  BY <2>5, <2>6 DEF IsSource
<1>6. Goal("s")
  <2>1. /\ Written("s", View(s)) = s.timestamp /\ Shown(s)["timestamp"] = s.timestamp
        /\ FieldOf("s") = "timestamp" /\ (FailsToRead("s", s) <=> s.timestamp = {})
    BY <1>1 DEF Written, View, Shown, FieldOf, FailsToRead
  <2>2. \A v : Read("s", v, p) = Put(p, "timestamp", {v})
    BY <1>1 DEF Read
  <2>3. s.timestamp = {} \/ \E v : s.timestamp = {v}
    <3>1. s.timestamp = {UnixSeconds(s) - o : o \in s.offset}
          /\ (s.offset = {} \/ \E o \in s.offset : s.offset = {o})
      BY DEF IsSource
    <3> QED  BY <3>1
  <2>4. CASE s.timestamp = {}
    BY <2>1, <2>4, NothingIsRead
  <2>5. ASSUME NEW v, s.timestamp = {v} PROVE Goal("s")
    <3>1. Writes("s", "timestamp", v, v)
      BY <2>1, <2>2, <2>5
    <3> HIDE DEF Writes, Goal
    <3> QED  BY <1>0, <3>1
  <2> QED  BY <2>3, <2>4, <2>5
<1> HIDE DEF Goal
<1>7. Goal(d)
  BY <1>2, <1>3, <1>4, <1>5, <1>6
<1> QED  BY <1>7 DEF Goal

LEMMA SinglesAreRead ==
  ASSUME NEW s, IsSource(s), NEW p, NEW d \in Single
  PROVE  ReadsWhatItWrote(d, s, p)
BY NumbersAreRead, NamesAreRead DEF ReadsWhatItWrote, Single, Directives

-----------------------------------------------------------------------------
(* Parsed parts that show a source in some fields and nothing in others.   *)
Filled(p, F, s) == [f \in Fields |-> IF f \in F THEN Shown(s)[f] ELSE p[f]]

Touched(d) ==
  CASE d = "F" -> {"year", "month", "day"}
    [] d = "D" -> {"month", "day", "year2"}
    [] d = "R" -> {"hour", "minute"}
    [] d = "T" -> {"hour", "minute", "second"}
    [] d = "r" -> {"hour12", "minute", "second", "pm"}
    [] OTHER   -> {FieldOf(d)}

LEMMA FieldOfSingle ==
  ASSUME NEW d \in Single
  PROVE  FieldOf(d) \in Fields
<1>1. CASE d \in DOMAIN Unsigned
  BY <1>1 DEF FieldOf, Unsigned, Fields
<1>2. CASE d \notin DOMAIN Unsigned
  <2>1. d \in {"Y", "G", "b", "a", "u", "w", "p", ".f", "z", ":z", "Z", "s"}
    BY <1>2 DEF Single, Directives
  <2> QED  BY <1>2, <2>1 DEF FieldOf, Fields
<1> QED  BY <1>1, <1>2

LEMMA WithIsFilled ==
  ASSUME NEW p, p = [f \in Fields |-> p[f]], NEW g \in Fields, NEW s
  PROVE  With(p, g, s) = Filled(p, {g}, s)
BY DEF With, Filled

LEMMA FilledTwice ==
  ASSUME NEW p, NEW F, NEW G, NEW s
  PROVE  /\ Filled(Filled(p, F, s), G, s) = Filled(p, F \cup G, s)
         /\ Filled(p, F, s) = [f \in Fields |-> Filled(p, F, s)[f]]
BY DEF Filled

LEMMA PartsAreRead ==
  ASSUME NEW s, IsSource(s), NEW p, p = [f \in Fields |-> p[f]],
         NEW d \in Single, ~FailsToRead(d, s)
  PROVE  ReadOne(d, View(s), p) = {Filled(p, {FieldOf(d)}, s)}
BY SinglesAreRead, WithIsFilled, FieldOfSingle DEF ReadsWhatItWrote

(* One directive after another.                                            *)
LEMMA ThenIsRead ==
  ASSUME NEW s, IsSource(s), NEW p, NEW F, NEW parts, parts = {Filled(p, F, s)},
         NEW d \in Single, ~FailsToRead(d, s), NEW G, G = F \cup {FieldOf(d)}
  PROVE  UNION {ReadOne(d, View(s), q) : q \in parts} = {Filled(p, G, s)}
<1> DEFINE q == Filled(p, F, s)
           g == FieldOf(d)
<1>1. UNION {ReadOne(d, View(s), x) : x \in parts} = ReadOne(d, View(s), q)
  OBVIOUS
<1>2. q = [f \in Fields |-> q[f]]
  BY FilledTwice
<1>3. Filled(q, {g}, s) = Filled(p, G, s)
  BY FilledTwice
<1>4. ReadOne(d, View(s), q) = {Filled(q, {g}, s)}
  <2> HIDE DEF q
  <2> QED  BY <1>2, PartsAreRead
<1> HIDE DEF q
<1> QED  BY <1>1, <1>3, <1>4

LEMMA StepsAreTaken ==
  ASSUME NEW d, NEW view, NEW p
  PROVE  LET Then(parts, k) == UNION {ReadOne(k, view, q) : q \in parts}
             First(k)       == ReadOne(k, view, p)
         IN  /\ d = "F" => ReadBack(d, view, p) = Then(Then(First("Y"), "m"), "d")
             /\ d = "D" => ReadBack(d, view, p) = Then(Then(First("m"), "d"), "y")
             /\ d = "R" => ReadBack(d, view, p) = Then(First("H"), "M")
             /\ d = "T" => ReadBack(d, view, p) = Then(Then(First("H"), "M"), "S")
             /\ d = "r" => ReadBack(d, view, p) = Then(Then(Then(First("I"), "M"), "S"), "p")
             /\ d \notin {"F", "D", "R", "T", "r"} => ReadBack(d, view, p) = First(d)
<1> DEFINE Then(parts, k) == UNION {ReadOne(k, view, q) : q \in parts}
           First(k)       == ReadOne(k, view, p)
           Step(steps, i, parts) == UNION {ReadStep(steps, i, view, q) : q \in parts}
           On(steps) == Step(steps, 4, Step(steps, 3, Step(steps, 2, ReadStep(steps, 1, view, p))))
<1>1. ReadBack(d, view, p) = On(Steps(d))
  BY DEF ReadBack
<1>2. ASSUME NEW steps, NEW i, NEW parts
      PROVE  /\ i \in DOMAIN steps => Step(steps, i, parts) = Then(parts, steps[i])
             /\ i \notin DOMAIN steps => Step(steps, i, parts) = parts
  BY DEF ReadStep
<1>3. ASSUME NEW steps, 1 \in DOMAIN steps
      PROVE  ReadStep(steps, 1, view, p) = First(steps[1])
  BY <1>3 DEF ReadStep
<1> HIDE DEF Step, Then, First
<1>4. ASSUME NEW a, Steps(d) = <<a>>
      PROVE  On(Steps(d)) = First(a)
  <2> DEFINE steps == Steps(d)
  <2>1. DOMAIN steps = 1..1 /\ steps[1] = a
    BY <1>4
  <2> HIDE DEF steps
  <2>2. ReadStep(steps, 1, view, p) = First(a)
    BY <1>3, <2>1
  <2>3. Step(steps, 2, First(a)) = First(a)
    BY <1>2, <2>1
  <2>4. Step(steps, 3, First(a)) = First(a)
    BY <1>2, <2>1
  <2>5. Step(steps, 4, First(a)) = First(a)
    BY <1>2, <2>1
  <2> QED  BY <2>2, <2>3, <2>4, <2>5 DEF steps
<1>5. ASSUME NEW a, NEW b, Steps(d) = <<a, b>>
      PROVE  On(Steps(d)) = Then(First(a), b)
  <2> DEFINE steps == Steps(d)
  <2>1. DOMAIN steps = 1..2 /\ steps[1] = a /\ steps[2] = b
    BY <1>5
  <2> HIDE DEF steps
  <2>2. ReadStep(steps, 1, view, p) = First(a)
    BY <1>3, <2>1
  <2>3. Step(steps, 2, First(a)) = Then(First(a), b)
    BY <1>2, <2>1
  <2>4. Step(steps, 3, Then(First(a), b)) = Then(First(a), b)
    BY <1>2, <2>1
  <2>5. Step(steps, 4, Then(First(a), b)) = Then(First(a), b)
    BY <1>2, <2>1
  <2> QED  BY <2>2, <2>3, <2>4, <2>5 DEF steps
<1>6. ASSUME NEW a, NEW b, NEW c, Steps(d) = <<a, b, c>>
      PROVE  On(Steps(d)) = Then(Then(First(a), b), c)
  <2> DEFINE steps == Steps(d)
  <2>1. DOMAIN steps = 1..3 /\ steps[1] = a /\ steps[2] = b /\ steps[3] = c
    BY <1>6
  <2> HIDE DEF steps
  <2>2. ReadStep(steps, 1, view, p) = First(a)
    BY <1>3, <2>1
  <2>3. Step(steps, 2, First(a)) = Then(First(a), b)
    BY <1>2, <2>1
  <2>4. Step(steps, 3, Then(First(a), b)) = Then(Then(First(a), b), c)
    BY <1>2, <2>1
  <2>5. Step(steps, 4, Then(Then(First(a), b), c)) = Then(Then(First(a), b), c)
    BY <1>2, <2>1
  <2> QED  BY <2>2, <2>3, <2>4, <2>5 DEF steps
<1>7. ASSUME NEW a, NEW b, NEW c, NEW e, Steps(d) = <<a, b, c, e>>
      PROVE  On(Steps(d)) = Then(Then(Then(First(a), b), c), e)
  <2> DEFINE steps == Steps(d)
  <2>1. DOMAIN steps = 1..4 /\ steps[1] = a /\ steps[2] = b /\ steps[3] = c /\ steps[4] = e
    BY <1>7
  <2> HIDE DEF steps
  <2>2. ReadStep(steps, 1, view, p) = First(a)
    BY <1>3, <2>1
  <2>3. Step(steps, 2, First(a)) = Then(First(a), b)
    BY <1>2, <2>1
  <2>4. Step(steps, 3, Then(First(a), b)) = Then(Then(First(a), b), c)
    BY <1>2, <2>1
  <2>5. Step(steps, 4, Then(Then(First(a), b), c)) = Then(Then(Then(First(a), b), c), e)
    BY <1>2, <2>1
  <2> QED  BY <2>2, <2>3, <2>4, <2>5 DEF steps
<1> HIDE DEF On
<1>8. /\ d = "F" => Steps(d) = <<"Y", "m", "d">>
      /\ d = "D" => Steps(d) = <<"m", "d", "y">>
      /\ d = "R" => Steps(d) = <<"H", "M">>
      /\ d = "T" => Steps(d) = <<"H", "M", "S">>
      /\ d = "r" => Steps(d) = <<"I", "M", "S", "p">>
      /\ d \notin {"F", "D", "R", "T", "r"} => Steps(d) = <<d>>
  BY DEF Steps, Composite
<1>9. /\ d = "F" => ReadBack(d, view, p) = Then(Then(First("Y"), "m"), "d")
      /\ d = "D" => ReadBack(d, view, p) = Then(Then(First("m"), "d"), "y")
      /\ d = "R" => ReadBack(d, view, p) = Then(First("H"), "M")
      /\ d = "T" => ReadBack(d, view, p) = Then(Then(First("H"), "M"), "S")
      /\ d = "r" => ReadBack(d, view, p) = Then(Then(Then(First("I"), "M"), "S"), "p")
      /\ d \notin {"F", "D", "R", "T", "r"} => ReadBack(d, view, p) = First(d)
  <2>1. CASE d = "F"
    <3>1. Steps(d) = <<"Y", "m", "d">>
      BY <1>8, <2>1
    <3>2. On(Steps(d)) = Then(Then(First("Y"), "m"), "d")
      BY <1>6, <3>1
    <3> QED  BY <1>1, <2>1, <3>2
  <2>2. CASE d = "D"
    <3>1. Steps(d) = <<"m", "d", "y">>
      BY <1>8, <2>2
    <3>2. On(Steps(d)) = Then(Then(First("m"), "d"), "y")
      BY <1>6, <3>1
    <3> QED  BY <1>1, <2>2, <3>2
  <2>3. CASE d = "R"
    <3>1. Steps(d) = <<"H", "M">>
      BY <1>8, <2>3
    <3>2. On(Steps(d)) = Then(First("H"), "M")
      BY <1>5, <3>1
    <3> QED  BY <1>1, <2>3, <3>2
  <2>4. CASE d = "T"
    <3>1. Steps(d) = <<"H", "M", "S">>
      BY <1>8, <2>4
    <3>2. On(Steps(d)) = Then(Then(First("H"), "M"), "S")
      BY <1>6, <3>1
    <3> QED  BY <1>1, <2>4, <3>2
  <2>5. CASE d = "r"
    <3>1. Steps(d) = <<"I", "M", "S", "p">>
      BY <1>8, <2>5
    <3>2. On(Steps(d)) = Then(Then(Then(First("I"), "M"), "S"), "p")
      BY <1>7, <3>1
    <3> QED  BY <1>1, <2>5, <3>2
  <2>6. CASE d \notin {"F", "D", "R", "T", "r"}
    <3>1. Steps(d) = <<d>>
      BY <1>8, <2>6
    <3>2. On(Steps(d)) = First(d)
      BY <1>4, <3>1
    <3> QED  BY <1>1, <2>6, <3>2
  <2> QED  BY <2>1, <2>2, <2>3, <2>4, <2>5, <2>6
<1> QED  BY <1>9 DEF Then, First

LEMMA DirectiveIsRead ==
  ASSUME NEW s, IsSource(s), NEW p, p = [f \in Fields |-> p[f]], NEW d \in Directives
  PROVE  ReadBack(d, View(s), p) = IF FailsToRead(d, s) THEN Err ELSE {Filled(p, Touched(d), s)}
<1> DEFINE Parts == {"Y", "m", "d", "y", "H", "I", "M", "S", "p"}
           Then(parts, k) == UNION {ReadOne(k, View(s), q) : q \in parts}
           Has(parts, F) == parts = {Filled(p, F, s)}
<1>1. \A k \in Parts : k \in Single /\ ~FailsToRead(k, s)
  BY DEF Single, Directives, Unsigned, FailsToRead
<1>2. /\ FieldOf("Y") = "year" /\ FieldOf("m") = "month" /\ FieldOf("d") = "day"
      /\ FieldOf("y") = "year2" /\ FieldOf("H") = "hour" /\ FieldOf("I") = "hour12"
      /\ FieldOf("M") = "minute" /\ FieldOf("S") = "second" /\ FieldOf("p") = "pm"
  BY DEF FieldOf, Unsigned
<1>3. ASSUME NEW k \in Parts PROVE Has(ReadOne(k, View(s), p), {FieldOf(k)})
  BY <1>1, PartsAreRead
<1>4. ASSUME NEW F, NEW parts, NEW k \in Parts, Has(parts, F)
      PROVE  Has(Then(parts, k), F \cup {FieldOf(k)})
  <2>1. parts = {Filled(p, F, s)} /\ k \in Single /\ ~FailsToRead(k, s)
    BY <1>1, <1>4
  <2> QED  BY <2>1, ThenIsRead
<1> HIDE DEF Then, Has
<1>5. CASE d = "F"
  <2>1. ReadBack(d, View(s), p) = Then(Then(ReadOne("Y", View(s), p), "m"), "d")
    BY <1>5, StepsAreTaken DEF Then
  <2>2. Has(ReadOne("Y", View(s), p), {"year"})
    BY <1>2, <1>3
  <2>3. Has(Then(ReadOne("Y", View(s), p), "m"), {"year"} \cup {"month"})
    BY <1>2, <1>4, <2>2
  <2>4. Has(ReadBack(d, View(s), p), ({"year"} \cup {"month"}) \cup {"day"})
    BY <1>2, <1>4, <2>1, <2>3, ZenonT(60)
  <2>5. ({"year"} \cup {"month"}) \cup {"day"} = Touched(d)
    BY <1>5 DEF Touched
  <2> QED  BY <1>5, <2>4, <2>5 DEF FailsToRead, Has
<1>6. CASE d = "D"
  <2>1. ReadBack(d, View(s), p) = Then(Then(ReadOne("m", View(s), p), "d"), "y")
    BY <1>6, StepsAreTaken DEF Then
  <2>2. Has(ReadOne("m", View(s), p), {"month"})
    BY <1>2, <1>3
  <2>3. Has(Then(ReadOne("m", View(s), p), "d"), {"month"} \cup {"day"})
    BY <1>2, <1>4, <2>2
  <2>4. Has(ReadBack(d, View(s), p), ({"month"} \cup {"day"}) \cup {"year2"})
    BY <1>2, <1>4, <2>1, <2>3, ZenonT(60)
  <2>5. ({"month"} \cup {"day"}) \cup {"year2"} = Touched(d)
    BY <1>6 DEF Touched
  <2> QED  BY <1>6, <2>4, <2>5 DEF FailsToRead, Has
<1>7. CASE d = "R"
  <2>1. ReadBack(d, View(s), p) = Then(ReadOne("H", View(s), p), "M")
    BY <1>7, StepsAreTaken DEF Then
  <2>2. Has(ReadOne("H", View(s), p), {"hour"})
    BY <1>2, <1>3
  <2>3. Has(ReadBack(d, View(s), p), {"hour"} \cup {"minute"})
    BY <1>2, <1>4, <2>1, <2>2
  <2>4. {"hour"} \cup {"minute"} = Touched(d)
    BY <1>7 DEF Touched
  <2> QED  BY <1>7, <2>3, <2>4 DEF FailsToRead, Has
<1>8. CASE d = "T"
  <2>1. ReadBack(d, View(s), p) = Then(Then(ReadOne("H", View(s), p), "M"), "S")
    BY <1>8, StepsAreTaken DEF Then
  <2>2. Has(ReadOne("H", View(s), p), {"hour"})
    BY <1>2, <1>3
  <2>3. Has(Then(ReadOne("H", View(s), p), "M"), {"hour"} \cup {"minute"})
    BY <1>2, <1>4, <2>2
  <2>4. Has(ReadBack(d, View(s), p), ({"hour"} \cup {"minute"}) \cup {"second"})
    BY <1>2, <1>4, <2>1, <2>3
  <2>5. ({"hour"} \cup {"minute"}) \cup {"second"} = Touched(d)
    BY <1>8 DEF Touched
  <2> QED  BY <1>8, <2>4, <2>5 DEF FailsToRead, Has
<1>9. CASE d = "r"
  <2> DEFINE halfway == Then(Then(ReadOne("I", View(s), p), "M"), "S")
  <2>1. ReadBack(d, View(s), p) = Then(halfway, "p")
    BY <1>9, StepsAreTaken DEF Then
  <2>2. Has(ReadOne("I", View(s), p), {"hour12"})
    BY <1>2, <1>3
  <2>3. Has(Then(ReadOne("I", View(s), p), "M"), {"hour12"} \cup {"minute"})
    BY <1>2, <1>4, <2>2
  <2>4. Has(halfway, ({"hour12"} \cup {"minute"}) \cup {"second"})
    BY <1>2, <1>4, <2>3
  <2> HIDE DEF halfway
  <2>5. Has(ReadBack(d, View(s), p), (({"hour12"} \cup {"minute"}) \cup {"second"}) \cup {"pm"})
    BY <1>2, <1>4, <2>1, <2>4, ZenonT(60)
  <2>6. (({"hour12"} \cup {"minute"}) \cup {"second"}) \cup {"pm"} = Touched(d)
    BY <1>9 DEF Touched
  <2> QED  BY <1>9, <2>5, <2>6 DEF FailsToRead, Has
<1>10. CASE d \in Single
  <2>1. d \notin {"F", "D", "R", "T", "r"}
    BY <1>10 DEF Single
  <2>2. ReadBack(d, View(s), p) = ReadOne(d, View(s), p) /\ Touched(d) = {FieldOf(d)}
    BY <2>1, StepsAreTaken DEF Touched
  <2> QED  BY <1>10, <2>2, SinglesAreRead, WithIsFilled, FieldOfSingle DEF ReadsWhatItWrote
<1> QED  BY <1>5, <1>6, <1>7, <1>8, <1>9, <1>10 DEF Single

-----------------------------------------------------------------------------
(* The inductive invariant: fields are numbers of their kind, and without   *)
(* other text they show the source or nothing.                             *)
Counts == {"year2", "isoyear2", "month", "day", "ordinal", "isoweek", "weeksun", "weekmon"}

PartsTyped(p) ==
  /\ p = [f \in Fields |-> p[f]]
  /\ \A f \in {"year", "century", "isoyear"} : p[f] \subseteq Int
  /\ \A f \in Counts : p[f] \subseteq Nat
  /\ p["weekday"] \subseteq Weekdays

ShowsOrNothing(p, s) == \A f \in Fields : p[f] \in {{}, Shown(s)[f]}

Inv ==
  /\ kit \in Kits /\ source \in kit.sources
  /\ PartsTyped(pp)
  /\ ~kit.mixed => ShowsOrNothing(pp, source)

LEMMA KitSource ==
  ASSUME NEW k \in Kits, NEW s \in k.sources
  PROVE  IsSource(s) /\ k.directives \subseteq Directives /\ k.numbers \subseteq Nat
BY KitAssumption

LEMMA EmptyParts ==
  PartsTyped(Empty) /\ \A s : ShowsOrNothing(Empty, s)
BY DEF PartsTyped, Empty, Counts, Fields, ShowsOrNothing

LEMMA ShownIsTyped ==
  ASSUME NEW s, IsSource(s)
  PROVE  PartsTyped(Shown(s))
<1> DEFINE c   == CivilFromDays(s.date)
           iso == IsoWeekOfDays(s.date)
<1>1. Shown(s) = [f \in Fields |-> Shown(s)[f]]
  BY DEF Shown, Fields
<1>2. /\ Shown(s)["year"] = {c.year} /\ Shown(s)["century"] = {EuclidDiv(c.year, 100)}
      /\ Shown(s)["isoyear"] = {iso.year} /\ Shown(s)["year2"] = {EuclidRem(c.year, 100)}
      /\ Shown(s)["isoyear2"] = {EuclidRem(iso.year, 100)} /\ Shown(s)["month"] = {c.month}
      /\ Shown(s)["day"] = {c.day} /\ Shown(s)["ordinal"] = {DayOfYear(c.year, c.month, c.day)}
      /\ Shown(s)["isoweek"] = {iso.week} /\ Shown(s)["weeksun"] = {WeekOfYear(s.date, Sunday)}
      /\ Shown(s)["weekmon"] = {WeekOfYear(s.date, Monday)}
      /\ Shown(s)["weekday"] = {WeekdayOfDays(s.date)}
  BY DEF Shown
<1>3. /\ c.year \in Int /\ c.month \in 1..12 /\ c.day \in 1..31
      /\ DayOfYear(c.year, c.month, c.day) \in Ordinals
      /\ iso.year \in Int /\ iso.week \in 1..53 /\ WeekdayOfDays(s.date) \in 0..6
      /\ WeekOfYear(s.date, Sunday) \in 0..53 /\ WeekOfYear(s.date, Monday) \in 0..53
  <2> HIDE DEF c
  <2>1. c = CivilFromDays(s.date)
    BY Zenon DEF c
  <2> QED  BY <2>1, SourceFields, ZenonT(60)
<1> HIDE DEF c, iso
<1>4. /\ EuclidRem(c.year, 100) \in 0..99 /\ EuclidDiv(c.year, 100) \in Int
      /\ EuclidRem(iso.year, 100) \in 0..99
  BY <1>3, TwoDigits
<1>5. \A n : n \in 1..12 \/ n \in 1..31 \/ n \in Ordinals \/ n \in 1..53 \/ n \in 0..53
             \/ n \in 0..99 => n \in Nat
  BY SMT DEF Ordinals
<1>6. \A f \in {"year", "century", "isoyear"} : Shown(s)[f] \subseteq Int
  BY <1>2, <1>3, <1>4
<1>7. \A f \in Counts : Shown(s)[f] \subseteq Nat
  <2>1. /\ Shown(s)["year2"] \subseteq Nat /\ Shown(s)["isoyear2"] \subseteq Nat
        /\ Shown(s)["month"] \subseteq Nat /\ Shown(s)["day"] \subseteq Nat
        /\ Shown(s)["ordinal"] \subseteq Nat /\ Shown(s)["isoweek"] \subseteq Nat
        /\ Shown(s)["weeksun"] \subseteq Nat /\ Shown(s)["weekmon"] \subseteq Nat
    BY <1>2, <1>3, <1>4, <1>5
  <2> QED  BY <2>1 DEF Counts
<1>8. Shown(s)["weekday"] \subseteq Weekdays
  BY <1>2, <1>3 DEF Weekdays
<1> QED  BY <1>1, <1>6, <1>7, <1>8 DEF PartsTyped

LEMMA FilledStays ==
  ASSUME NEW s, IsSource(s), NEW p, PartsTyped(p), NEW F
  PROVE  /\ PartsTyped(Filled(p, F, s))
         /\ ShowsOrNothing(p, s) => ShowsOrNothing(Filled(p, F, s), s)
<1>1. PartsTyped(Shown(s))
  BY ShownIsTyped
<1>2. \A f \in Fields : Filled(p, F, s)[f] = p[f] \/ Filled(p, F, s)[f] = Shown(s)[f]
  BY DEF Filled
<1>3. {"year", "century", "isoyear", "weekday"} \subseteq Fields /\ Counts \subseteq Fields
  BY DEF Fields, Counts
<1>4. Filled(p, F, s) = [f \in Fields |-> Filled(p, F, s)[f]]
  BY FilledTwice
<1>5. \A f \in {"year", "century", "isoyear"} : Filled(p, F, s)[f] \subseteq Int
  <2> TAKE f \in {"year", "century", "isoyear"}
  <2>1. p[f] \subseteq Int /\ Shown(s)[f] \subseteq Int /\ f \in Fields
    BY <1>1, <1>3 DEF PartsTyped
  <2> QED  BY <1>2, <2>1
<1>6. \A f \in Counts : Filled(p, F, s)[f] \subseteq Nat
  <2> TAKE f \in Counts
  <2>1. p[f] \subseteq Nat /\ Shown(s)[f] \subseteq Nat /\ f \in Fields
    BY <1>1, <1>3 DEF PartsTyped
  <2> QED  BY <1>2, <2>1
<1>7. Filled(p, F, s)["weekday"] \subseteq Weekdays
  <2>1. p["weekday"] \subseteq Weekdays /\ Shown(s)["weekday"] \subseteq Weekdays
        /\ "weekday" \in Fields
    BY <1>1, <1>3 DEF PartsTyped
  <2> QED  BY <1>2, <2>1
<1>8. ShowsOrNothing(p, s) => ShowsOrNothing(Filled(p, F, s), s)
  BY <1>2 DEF ShowsOrNothing
<1>9. PartsTyped(Filled(p, F, s))
  BY <1>4, <1>5, <1>6, <1>7 DEF PartsTyped
<1> QED  BY <1>8, <1>9

LEMMA NumberStays ==
  ASSUME NEW p, PartsTyped(p), NEW d \in DOMAIN Unsigned, NEW n \in Nat,
         NEW q \in Read(d, n, p)
  PROVE  PartsTyped(q)
<1> DEFINE g == Unsigned[d][1]
<1>1. q = [p EXCEPT ![g] = {n}]
  BY DEF Read, Put
<1>2. g \in Fields \ {"year", "isoyear", "weekday"}
  BY DEF Unsigned, Fields
<1> HIDE DEF g
<1>3. p = [f \in Fields |-> p[f]]
  BY DEF PartsTyped
<1>4. q = [f \in Fields |-> IF f = g THEN {n} ELSE p[f]]
  BY <1>1, <1>3
<1>5. \A f \in Fields : q[f] = IF f = g THEN {n} ELSE p[f]
  BY <1>4
<1>6. {"year", "century", "isoyear", "weekday"} \subseteq Fields /\ Counts \subseteq Fields
  BY DEF Fields, Counts
<1>7. n \in Int
  OBVIOUS
<1>8. q = [f \in Fields |-> q[f]]
  BY <1>4
<1>9. \A f \in {"year", "century", "isoyear"} : q[f] \subseteq Int
  BY <1>5, <1>6, <1>7 DEF PartsTyped
<1>10. \A f \in Counts : q[f] \subseteq Nat
  BY <1>5, <1>6 DEF PartsTyped
<1>11. q["weekday"] \subseteq Weekdays
  BY <1>2, <1>5, <1>6 DEF PartsTyped
<1> QED  BY <1>8, <1>9, <1>10, <1>11 DEF PartsTyped

LEMMA NoNameStays ==
  ASSUME NEW p, PartsTyped(p), NEW d \in DOMAIN Named
  PROVE  PartsTyped(ReadNoName(d, p))
<1> DEFINE q == ReadNoName(d, p)
           g == Named[d]
<1>1. g \in Fields
  BY DEF Named, Fields
<1>2. p = [f \in Fields |-> p[f]]
  BY DEF PartsTyped
<1>3. q = [p EXCEPT ![g] = {}]
  BY DEF ReadNoName
<1> HIDE DEF q, g
<1>4. q = [f \in Fields |-> IF f = g THEN {} ELSE p[f]]
  BY <1>2, <1>3
<1>5. \A f \in Fields : q[f] = IF f = g THEN {} ELSE p[f]
  BY <1>4
<1>6. {"year", "century", "isoyear", "weekday"} \subseteq Fields /\ Counts \subseteq Fields
  BY DEF Fields, Counts
<1>7. q = [f \in Fields |-> q[f]]
  BY <1>4
<1>8. \A f \in {"year", "century", "isoyear"} : q[f] \subseteq Int
  BY <1>5, <1>6 DEF PartsTyped
<1>9. \A f \in Counts : q[f] \subseteq Nat
  BY <1>5, <1>6 DEF PartsTyped
<1>10. q["weekday"] \subseteq Weekdays
  BY <1>5, <1>6 DEF PartsTyped
<1>11. PartsTyped(q)
  BY <1>7, <1>8, <1>9, <1>10 DEF PartsTyped
<1> QED  BY <1>11 DEF q

LEMMA DirectiveStays ==
  ASSUME NEW s, IsSource(s), NEW p, PartsTyped(p), NEW d \in Directives,
         NEW q \in ReadBack(d, View(s), p)
  PROVE  ~FailsToRead(d, s) /\ q = Filled(p, Touched(d), s)
<1>1. p = [f \in Fields |-> p[f]]
  BY DEF PartsTyped
<1>2. ReadBack(d, View(s), p) = IF FailsToRead(d, s) THEN Err ELSE {Filled(p, Touched(d), s)}
  BY <1>1, DirectiveIsRead
<1> QED  BY <1>2 DEF Err

LEMMA Invariance == Spec => []Inv
<1>1. Init => Inv
  BY EmptyParts DEF Init, Inv
<1>2. Inv /\ [Next]_vars => Inv'
  <2> SUFFICES ASSUME Inv, [Next]_vars PROVE Inv'
    OBVIOUS
  <2>1. kit \in Kits /\ source \in kit.sources /\ PartsTyped(pp)
        /\ (~kit.mixed => ShowsOrNothing(pp, source))
    BY DEF Inv
  <2>2. IsSource(source) /\ kit.directives \subseteq Directives /\ kit.numbers \subseteq Nat
    BY <2>1, KitSource
  <2>3. CASE ReadDirective
    <3>1. PICK d \in kit.directives : pp' \in ReadBack(d, View(source), pp)
      BY <2>3 DEF ReadDirective
    <3>2. pp' = Filled(pp, Touched(d), source)
      BY <2>1, <2>2, <3>1, DirectiveStays
    <3>3. PartsTyped(pp') /\ (ShowsOrNothing(pp, source) => ShowsOrNothing(pp', source))
      BY <2>1, <2>2, <3>2, FilledStays
    <3> QED  BY <2>1, <2>3, <3>3 DEF Inv, ReadDirective
  <2>4. CASE AnotherText
    <3>1. kit' = kit /\ kit.mixed
      BY <2>4 DEF AnotherText
    <3>2. CASE source' \in kit.sources /\ UNCHANGED pp
      BY <2>1, <3>1, <3>2 DEF Inv
    <3>3. ASSUME NEW d \in kit.directives \cap DOMAIN Unsigned, NEW n \in kit.numbers,
                 pp' \in Read(d, n, pp), UNCHANGED source
          PROVE  Inv'
      <4>1. PartsTyped(pp')
        <5>1. d \in DOMAIN Unsigned /\ n \in Nat
          BY <2>2
        <5> QED  BY <2>1, <3>3, <5>1, NumberStays
      <4> QED  BY <2>1, <3>1, <3>3, <4>1 DEF Inv
    <3>4. ASSUME NEW d \in kit.directives \cap DOMAIN Named, pp' = ReadNoName(d, pp),
                 UNCHANGED source
          PROVE  Inv'
      <4>1. PartsTyped(pp')
        BY <2>1, <3>4, NoNameStays
      <4> QED  BY <2>1, <3>1, <3>4, <4>1 DEF Inv
    <3> QED  BY <2>4, <3>2, <3>3, <3>4 DEF AnotherText
  <2>5. CASE UNCHANGED vars
    BY <2>1, <2>5 DEF Inv, vars
  <2> QED  BY <2>3, <2>4, <2>5 DEF Next
<1> QED  BY <1>1, <1>2, PTL DEF Spec

(* In every format and over any text, a directive fails to read what it     *)
(* wrote of a value in the listed cases and in no other (parse_directive   *)
(* against write_directive).                                               *)
THEOREM Failures == Spec => []OnlyTheseFail
<1>1. Inv => OnlyTheseFail
  <2> SUFFICES ASSUME Inv, NEW d \in kit.directives
               PROVE  ReadBack(d, View(source), pp) = Err <=> FailsToRead(d, source)
    BY DEF OnlyTheseFail
  <2>1. kit \in Kits /\ source \in kit.sources /\ pp = [f \in Fields |-> pp[f]]
    BY DEF Inv, PartsTyped
  <2>2. IsSource(source) /\ d \in Directives
    BY <2>1, KitSource
  <2>3. ReadBack(d, View(source), pp)
          = IF FailsToRead(d, source) THEN Err ELSE {Filled(pp, Touched(d), source)}
    BY <2>1, <2>2, DirectiveIsRead
  <2> QED  BY <2>3 DEF Err
<1> QED  BY <1>1, Invariance, PTL

-----------------------------------------------------------------------------
(* The year that is resolved.                                              *)
LEMMA GuessTwoDigits ==
  ASSUME NEW year \in 1969..2068
  PROVE  Inferred(EuclidRem(year, 100)) = year
<1> DEFINE q == EuclidDiv(year, 100)
           r == EuclidRem(year, 100)
<1>1. year \in Int /\ 1969 <= year /\ year <= 2068
  BY SMT
<1>2. q \in Int /\ r \in 0..99 /\ year = q * 100 + r
  BY <1>1, TwoDigits
<1> HIDE DEF q, r
<1>3. Inferred(r) = year
  BY <1>1, <1>2, SMT DEF Inferred
<1> QED  BY <1>3 DEF r

LEMMA CombinedYear ==
  ASSUME NEW s, IsSource(s), NEW p, ShowsOrNothing(p, s),
         NEW year, year = CivilFromDays(s.date).year,
         p.year = {} /\ p.century = {} /\ p.year2 # {} => year \in 1969..2068
  PROVE  CombineYear(p) = IF p.year # {} \/ p.year2 # {} THEN {year} ELSE {}
<1> DEFINE q == EuclidDiv(year, 100)
           r == EuclidRem(year, 100)
<1>1. /\ p.year \in {{}, {year}} /\ p.century \in {{}, {q}} /\ p.year2 \in {{}, {r}}
  <2>1. p["year"] \in {{}, Shown(s)["year"]} /\ p["century"] \in {{}, Shown(s)["century"]}
        /\ p["year2"] \in {{}, Shown(s)["year2"]}
    BY DEF ShowsOrNothing, Fields
  <2>2. Shown(s)["year"] = {year} /\ Shown(s)["century"] = {q} /\ Shown(s)["year2"] = {r}
    BY DEF Shown
  <2> QED  BY <2>1, <2>2
<1>2. q * 100 + r = year
  <2>1. year \in Int
    BY SourceFields
  <2> QED  BY <2>1, TwoDigits
<1>3. p.year = {} /\ p.century = {} /\ p.year2 # {} => Inferred(r) = year
  BY GuessTwoDigits
<1> HIDE DEF q, r
<1>4. CASE p.year # {}
  BY <1>1, <1>4 DEF CombineYear
<1>5. CASE p.year = {} /\ p.century # {}
  <2>1. CombineYear(p) = {a * 100 + b : a \in p.century, b \in p.year2}
    BY <1>5 DEF CombineYear
  <2>2. CASE p.year2 = {}
    BY <1>5, <2>1, <2>2
  <2>3. CASE p.year2 # {}
    <3>1. p.century = {q} /\ p.year2 = {r}
      BY <1>1, <1>5, <2>3
    <3>2. CombineYear(p) = {q * 100 + r}
      BY <2>1, <3>1
    <3> QED  BY <1>2, <1>5, <2>3, <3>2
  <2> QED  BY <2>2, <2>3
<1>6. CASE p.year = {} /\ p.century = {}
  <2>1. CombineYear(p) = {Inferred(y2) : y2 \in p.year2}
    BY <1>6 DEF CombineYear
  <2>2. CASE p.year2 = {}
    BY <1>6, <2>1, <2>2
  <2>3. CASE p.year2 # {}
    <3>1. p.year2 = {r}
      BY <1>1, <2>3
    <3>2. CombineYear(p) = {Inferred(r)}
      BY <2>1, <3>1
    <3> QED  BY <1>3, <1>6, <2>3, <3>2
  <2> QED  BY <2>2, <2>3
<1> QED  BY <1>4, <1>5, <1>6

LEMMA ResolvedIsoYear ==
  ASSUME NEW s, IsSource(s), NEW p, ShowsOrNothing(p, s),
         NEW year, year = IsoWeekOfDays(s.date).year,
         p.isoyear = {} /\ p.isoyear2 # {} => year \in 1969..2068
  PROVE  IsoYear(p) = IF p.isoyear # {} \/ p.isoyear2 # {} THEN {year} ELSE {}
<1> DEFINE r == EuclidRem(year, 100)
<1>1. p.isoyear \in {{}, {year}} /\ p.isoyear2 \in {{}, {r}}
  <2>1. p["isoyear"] \in {{}, Shown(s)["isoyear"]} /\ p["isoyear2"] \in {{}, Shown(s)["isoyear2"]}
    BY DEF ShowsOrNothing, Fields
  <2>2. Shown(s)["isoyear"] = {year} /\ Shown(s)["isoyear2"] = {r}
    BY DEF Shown
  <2> QED  BY <2>1, <2>2
<1>2. p.isoyear = {} /\ p.isoyear2 # {} => Inferred(r) = year
  BY GuessTwoDigits
<1> HIDE DEF r
<1>3. CASE p.isoyear # {}
  BY <1>1, <1>3 DEF IsoYear
<1>4. CASE p.isoyear = {} /\ p.isoyear2 = {}
  BY <1>4 DEF IsoYear
<1>5. CASE p.isoyear = {} /\ p.isoyear2 # {}
  <2>1. IsoYear(p) = {Inferred(y2) : y2 \in p.isoyear2}
    BY <1>5 DEF IsoYear
  <2>2. p.isoyear2 = {r}
    BY <1>1, <1>5
  <2>3. IsoYear(p) = {Inferred(r)}
    BY <2>1, <2>2
  <2> QED  BY <1>2, <1>5, <2>3
<1> QED  BY <1>3, <1>4, <1>5

LEMMA StartsAreWeekdays == Sunday \in Weekdays /\ Monday \in Weekdays
BY SMT DEF Sunday, Monday, Weekdays

LEMMA IsoWeekIsRecord ==
  ASSUME NEW days
  PROVE  LET iso == IsoWeekOfDays(days) IN iso = [year |-> iso.year, week |-> iso.week]
BY DEF IsoWeekOfDays

(* A text of one value is its date as soon as the fields describe one.      *)
LEMMA DateRead ==
  ASSUME IsSource(source), NEW p, PartsTyped(p), ShowsOrNothing(p, source), GuessedRight(p)
  PROVE  ToDate(p) = IF DateDescribed(p) THEN {source.date} ELSE Err
<1> DEFINE D    == source.date
           c    == CivilFromDays(D)
           iso  == IsoWeekOfDays(D)
           wd   == WeekdayOfDays(D)
           n    == DayOfYear(c.year, c.month, c.day)
           sun  == WeekOfYear(D, Sunday)
           mon  == WeekOfYear(D, Monday)
<1>1. /\ p.month \in {{}, {c.month}} /\ p.day \in {{}, {c.day}} /\ p.ordinal \in {{}, {n}}
      /\ p.isoweek \in {{}, {iso.week}} /\ p.weekday \in {{}, {wd}}
      /\ p.weeksun \in {{}, {sun}} /\ p.weekmon \in {{}, {mon}}
  <2>1. /\ p["month"] \in {{}, Shown(source)["month"]} /\ p["day"] \in {{}, Shown(source)["day"]}
        /\ p["ordinal"] \in {{}, Shown(source)["ordinal"]}
        /\ p["isoweek"] \in {{}, Shown(source)["isoweek"]}
        /\ p["weekday"] \in {{}, Shown(source)["weekday"]}
        /\ p["weeksun"] \in {{}, Shown(source)["weeksun"]}
        /\ p["weekmon"] \in {{}, Shown(source)["weekmon"]}
    BY DEF ShowsOrNothing, Fields
  <2>2. /\ Shown(source)["month"] = {c.month} /\ Shown(source)["day"] = {c.day}
        /\ Shown(source)["ordinal"] = {n} /\ Shown(source)["isoweek"] = {iso.week}
        /\ Shown(source)["weekday"] = {wd} /\ Shown(source)["weeksun"] = {sun}
        /\ Shown(source)["weekmon"] = {mon}
    BY DEF Shown
  <2> HIDE DEF c, iso, wd, n, sun, mon
  <2> QED  BY <2>1, <2>2
<1>2. D \in Date /\ D \in Int
  BY SourceFields
<1>3. CASE p.timestamp # {}
  BY <1>3 DEF ToDate, DateDescribed
<1>4. CASE p.timestamp = {} /\ p.isoweek # {}
  <2> DEFINE S(y, w, x) == {d \in FromIsoYwd(y, w, x) : IsoWeekOfDays(d) = [year |-> y, week |-> w]}
  <2>1. ToDate(p) = UNION {S(y, w, x) : y \in IsoYear(p), w \in p.isoweek, x \in p.weekday}
    BY <1>4 DEF ToDate
  <2>2. p.isoyear = {} /\ p.isoyear2 # {} => iso.year \in 1969..2068
    BY <1>4 DEF GuessedRight, YearGuessed, YearKnown
  <2>3. IsoYear(p) = IF p.isoyear # {} \/ p.isoyear2 # {} THEN {iso.year} ELSE {}
    BY <2>2, ResolvedIsoYear
  <2>4. DateDescribed(p) <=> /\ D - wd \in Date /\ p.weekday # {}
                             /\ p.isoyear # {} \/ p.isoyear2 # {}
    BY <1>4 DEF DateDescribed, YearKnown, YearGuessed
  <2>5. S(iso.year, iso.week, wd) = IF D - wd \in Date THEN {D} ELSE {}
    <3>1. FromIsoYwd(iso.year, iso.week, wd) = IF D - wd < DateMin THEN Err ELSE {D}
      BY <1>2, IsoWeekTakenBack
    <3>2. D - wd \in Date <=> ~(D - wd < DateMin)
      <4>1. wd \in 0..6
        BY <1>2, WeekdayIsRemainder
      <4> HIDE DEF wd
      <4> QED  BY <1>2, <4>1, DateAssumption, SMT DEF Date
    <3>3. iso = [year |-> iso.year, week |-> iso.week]
      BY <1>2, IsoWeekIsRecord
    <3> QED  BY <3>1, <3>2, <3>3 DEF Err
  <2>6. p.isoweek = {iso.week}
    BY <1>1, <1>4
  <2> HIDE DEF S, D, c, iso, wd, n, sun, mon
  <2>7. CASE DateDescribed(p)
    <3>1. IsoYear(p) = {iso.year} /\ p.weekday = {wd}
      BY <1>1, <2>3, <2>4, <2>7
    <3>2. ToDate(p) = S(iso.year, iso.week, wd)
      BY <2>1, <2>6, <3>1
    <3> QED  BY <2>4, <2>5, <2>7, <3>2 DEF D
  <2>8. CASE ~DateDescribed(p)
    <3>1. CASE IsoYear(p) = {} \/ p.weekday = {}
      BY <2>1, <2>8, <3>1 DEF Err
    <3>2. CASE IsoYear(p) # {} /\ p.weekday # {}
      <4>1. IsoYear(p) = {iso.year} /\ p.weekday = {wd} /\ D - wd \notin Date
        BY <1>1, <2>3, <2>4, <2>8, <3>2
      <4>2. ToDate(p) = S(iso.year, iso.week, wd)
        BY <2>1, <2>6, <4>1
      <4> QED  BY <2>5, <2>8, <4>1, <4>2 DEF Err
    <3> QED  BY <3>1, <3>2
  <2> QED  BY <2>7, <2>8
<1>5. CASE p.timestamp = {} /\ p.isoweek = {}
  <2>1. p.year = {} /\ p.century = {} /\ p.year2 # {} => c.year \in 1969..2068
    BY <1>5 DEF GuessedRight, YearGuessed, YearKnown
  <2>2. CombineYear(p) = IF p.year # {} \/ p.year2 # {} THEN {c.year} ELSE {}
    BY <2>1, CombinedYear
  <2>3. DateDescribed(p)
          <=> /\ p.year # {} \/ p.year2 # {}
              /\ IF p.weeksun # {} \/ p.weekmon # {} THEN p.weekday # {}
                 ELSE p.ordinal # {} \/ (p.month # {} /\ p.day # {})
    BY <1>5 DEF DateDescribed, YearKnown, YearGuessed
  <2>4. CASE p.weeksun # {}
    <3>1. ToDate(p) = UNION {DateFromWeek(y, w, x, Sunday) :
                               y \in CombineYear(p), w \in p.weeksun, x \in p.weekday}
      BY <1>5, <2>4 DEF ToDate
    <3>2. DateFromWeek(c.year, sun, wd, Sunday) = {D}
      BY <1>2, WeekIsTakenBack, StartsAreWeekdays
    <3> HIDE DEF D, c, iso, wd, n, sun, mon
    <3>3. CASE CombineYear(p) = {} \/ p.weekday = {}
      BY <2>2, <2>3, <2>4, <3>1, <3>3 DEF Err
    <3>4. CASE CombineYear(p) # {} /\ p.weekday # {}
      <4>1. CombineYear(p) = {c.year} /\ p.weekday = {wd} /\ p.weeksun = {sun}
        BY <1>1, <2>2, <2>4, <3>4
      <4>2. ToDate(p) = {D}
        BY <3>1, <3>2, <4>1
      <4> QED  BY <2>2, <2>3, <2>4, <3>4, <4>2 DEF D
    <3> QED  BY <3>3, <3>4
  <2>5. CASE p.weeksun = {} /\ p.weekmon # {}
    <3>1. ToDate(p) = UNION {DateFromWeek(y, w, x, Monday) :
                               y \in CombineYear(p), w \in p.weekmon, x \in p.weekday}
      BY <1>5, <2>5 DEF ToDate
    <3>2. DateFromWeek(c.year, mon, wd, Monday) = {D}
      BY <1>2, WeekIsTakenBack, StartsAreWeekdays
    <3> HIDE DEF D, c, iso, wd, n, sun, mon
    <3>3. CASE CombineYear(p) = {} \/ p.weekday = {}
      BY <2>2, <2>3, <2>5, <3>1, <3>3 DEF Err
    <3>4. CASE CombineYear(p) # {} /\ p.weekday # {}
      <4>1. CombineYear(p) = {c.year} /\ p.weekday = {wd} /\ p.weekmon = {mon}
        BY <1>1, <2>2, <2>5, <3>4
      <4>2. ToDate(p) = {D}
        BY <3>1, <3>2, <4>1
      <4> QED  BY <2>2, <2>3, <2>5, <3>4, <4>2 DEF D
    <3> QED  BY <3>3, <3>4
  <2>6. CheckWeekday(p.weekday, {D}) = {D} /\ CheckWeekday(p.weekday, {}) = {}
    BY <1>1 DEF CheckWeekday
  <2>7. CASE p.weeksun = {} /\ p.weekmon = {} /\ p.ordinal # {}
    <3> DEFINE U == UNION {FromYo(y, k) : y \in CombineYear(p), k \in p.ordinal}
    <3>1. ToDate(p) = CheckWeekday(p.weekday, U)
      BY <1>5, <2>7 DEF ToDate
    <3>2. FromYo(c.year, n) = {D}
      BY <1>2, OrdinalTakenBack
    <3> HIDE DEF D, c, iso, wd, n, sun, mon
    <3>3. CASE CombineYear(p) = {}
      <4>1. U = {}
        BY <3>3
      <4> HIDE DEF U
      <4> QED  BY <2>2, <2>3, <2>6, <2>7, <3>1, <3>3, <4>1 DEF Err
    <3>4. CASE CombineYear(p) # {}
      <4>1. CombineYear(p) = {c.year} /\ p.ordinal = {n}
        BY <1>1, <2>2, <2>7, <3>4
      <4>2. U = {D}
        BY <3>2, <4>1
      <4> HIDE DEF U
      <4>3. ToDate(p) = {D} /\ DateDescribed(p)
        BY <2>2, <2>3, <2>6, <2>7, <3>1, <3>4, <4>2
      <4> QED  BY <4>3 DEF D
    <3> QED  BY <3>3, <3>4
  <2>8. CASE p.weeksun = {} /\ p.weekmon = {} /\ p.ordinal = {}
    <3> DEFINE U == UNION {FromYmd(y, m, k) : y \in CombineYear(p), m \in p.month, k \in p.day}
    <3>1. ToDate(p) = CheckWeekday(p.weekday, U)
      BY <1>5, <2>8 DEF ToDate
    <3>2. FromYmd(c.year, c.month, c.day) = {D}
      BY <1>2, AccessorsTakenBack
    <3> HIDE DEF D, c, iso, wd, n, sun, mon
    <3>3. CASE CombineYear(p) = {} \/ p.month = {} \/ p.day = {}
      <4>1. U = {}
        BY <3>3
      <4> HIDE DEF U
      <4> QED  BY <2>2, <2>3, <2>6, <2>8, <3>1, <3>3, <4>1 DEF Err
    <3>4. CASE CombineYear(p) # {} /\ p.month # {} /\ p.day # {}
      <4>1. CombineYear(p) = {c.year} /\ p.month = {c.month} /\ p.day = {c.day}
        BY <1>1, <2>2, <2>8, <3>4
      <4>2. U = {D}
        BY <3>2, <4>1
      <4> HIDE DEF U
      <4> QED  BY <2>2, <2>3, <2>6, <2>8, <3>1, <3>4, <4>2 DEF D
    <3> QED  BY <3>3, <3>4
  <2> QED  BY <2>4, <2>5, <2>7, <2>8
<1> QED  BY <1>3, <1>4, <1>5

-----------------------------------------------------------------------------
LEMMA TextOfOneValue ==
  ASSUME Inv, ~kit.mixed
  PROVE  IsSource(source) /\ PartsTyped(pp) /\ ShowsOrNothing(pp, source)
BY KitSource DEF Inv

(* In every format, read in any order and with any repetitions, a text is   *)
(* the date it was written from, or no date (ParsedParts::to_date).        *)
THEOREM DatesRoundTrip == Spec => []DateIsRecovered
<1>1. Inv => DateIsRecovered
  <2> SUFFICES ASSUME Inv, ~kit.mixed, GuessedRight(pp)
               PROVE  ToDate(pp) = IF DateDescribed(pp) THEN {source.date} ELSE Err
    BY DEF DateIsRecovered
  <2> QED  BY TextOfOneValue, DateRead
<1> QED  BY <1>1, Invariance, PTL

(* A longer format describes what a shorter one does, unless it brings a    *)
(* week or a timestamp that takes precedence.                              *)
LEMMA MoreFields ==
  ASSUME NEW p, NEW q, NEW s, NEW F, q = Filled(p, F, s), ShowsOrNothing(p, s),
         DateDescribed(p),
         \A f \in {"isoweek", "weeksun", "weekmon", "timestamp"} : p[f] = {} => q[f] = {}
  PROVE  DateDescribed(q)
<1>1. \A f \in Fields : p[f] # {} => q[f] # {}
  BY DEF Filled, ShowsOrNothing
<1>2. \A f \in {"isoweek", "weeksun", "weekmon", "timestamp"} : p[f] = {} <=> q[f] = {}
  BY <1>1 DEF Fields
<1>3. /\ p.isoweek = {} <=> q.isoweek = {}
      /\ p.weeksun = {} <=> q.weeksun = {}
      /\ p.weekmon = {} <=> q.weekmon = {}
      /\ p.timestamp = {} <=> q.timestamp = {}
  BY <1>2
<1>4. /\ p.isoyear # {} => q.isoyear # {}
      /\ p.isoyear2 # {} => q.isoyear2 # {}
      /\ p.year # {} => q.year # {}
      /\ p.year2 # {} => q.year2 # {}
      /\ p.weekday # {} => q.weekday # {}
      /\ p.ordinal # {} => q.ordinal # {}
      /\ p.month # {} => q.month # {}
      /\ p.day # {} => q.day # {}
  BY <1>1 DEF Fields
<1>5. YearKnown(q) \/ YearGuessed(q)
  <2>1. IF p.isoweek # {} THEN p.isoyear # {} \/ p.isoyear2 # {}
                          ELSE p.year # {} \/ p.year2 # {}
    BY DEF DateDescribed, YearKnown, YearGuessed
  <2>2. IF q.isoweek # {} THEN q.isoyear # {} \/ q.isoyear2 # {}
                          ELSE q.year # {} \/ q.year2 # {}
    BY <1>3, <1>4, <2>1
  <2> QED  BY <2>2 DEF YearKnown, YearGuessed
<1>6. /\ q.timestamp = {}
      /\ q.isoweek # {} => source.date - WeekdayOfDays(source.date) \in Date
  BY <1>3 DEF DateDescribed
<1>7. IF \E f \in {"isoweek", "weeksun", "weekmon"} : q[f] # {}
      THEN q.weekday # {}
      ELSE q.ordinal # {} \/ (q.month # {} /\ q.day # {})
  BY <1>2, <1>4 DEF DateDescribed
<1> QED  BY <1>5, <1>6, <1>7 DEF DateDescribed

(* Reading more of the same value loses a date only to a field that takes   *)
(* precedence without its companions.                                      *)
THEOREM LongerFormats == Spec => MoreIsNeverLess
<1> DEFINE A == ~kit.mixed /\ GuessedRight(pp) /\ ToDate(pp) # Err =>
                  \A p \in {pp'} :
                    GuessedRight(p) /\ ToDate(p) = Err =>
                      \E f \in {"isoweek", "weeksun", "weekmon", "timestamp"} :
                        pp[f] = {} /\ p[f] # {}
<1>1. Inv /\ Inv' /\ [Next]_vars => [A]_vars
  <2> SUFFICES ASSUME Inv, Inv', Next, ~kit.mixed, GuessedRight(pp), ToDate(pp) # Err,
                      NEW p, p = pp', GuessedRight(p), ToDate(p) = Err,
                      ~\E f \in {"isoweek", "weeksun", "weekmon", "timestamp"} :
                         pp[f] = {} /\ p[f] # {}
               PROVE  FALSE
    BY DEF vars
  <2>1. IsSource(source) /\ PartsTyped(pp) /\ ShowsOrNothing(pp, source)
    BY TextOfOneValue
  <2>2. ReadDirective
    BY DEF Next, AnotherText
  <2>3. PICK d \in kit.directives : pp' \in ReadBack(d, View(source), pp)
    BY <2>2 DEF ReadDirective
  <2>4. d \in Directives
    BY KitAssumption DEF Inv
  <2>5. p = Filled(pp, Touched(d), source)
    BY <2>1, <2>3, <2>4, DirectiveStays
  <2>6. PartsTyped(p) /\ ShowsOrNothing(p, source)
    BY <2>1, <2>5, FilledStays
  <2>7. DateDescribed(pp)
    BY <2>1, DateRead
  <2>8. DateDescribed(p)
    BY <2>1, <2>5, <2>7, MoreFields
  <2>9. ToDate(p) = {source.date}
    BY <2>1, <2>6, <2>8, DateRead
  <2> QED  BY <2>9 DEF Err
<1> QED  BY <1>1, Invariance, PTL DEF Spec, MoreIsNeverLess

-----------------------------------------------------------------------------
(* The time of day.                                                        *)
LEMMA HourRead ==
  ASSUME NEW s, IsSource(s), NEW p, ShowsOrNothing(p, s)
  PROVE  ResolveHour(p) = IF p.hour = {} /\ (p.hour12 = {} \/ p.pm = {})
                          THEN {} ELSE {s.time.hour}
<1> DEFINE hour == s.time.hour
           dial == Hour12(hour)
           Value(h, pm) == IF pm THEN IF h = 12 THEN 12 ELSE h + 12
                                 ELSE IF h = 12 THEN 0 ELSE h
<1>1. p.hour \in {{}, {hour}} /\ p.hour12 \in {{}, {dial}} /\ p.pm \in {{}, {hour >= 12}}
  <2>1. /\ p["hour"] \in {{}, Shown(s)["hour"]} /\ p["hour12"] \in {{}, Shown(s)["hour12"]}
        /\ p["pm"] \in {{}, Shown(s)["pm"]}
    BY DEF ShowsOrNothing, Fields
  <2>2. /\ Shown(s)["hour"] = {hour} /\ Shown(s)["hour12"] = {dial}
        /\ Shown(s)["pm"] = {hour >= 12}
    BY DEF Shown
  <2> QED  BY <2>1, <2>2
<1>2. hour = Value(dial, hour >= 12)
  <2>1. hour \in 0..23
    BY SourceFields
  <2> HIDE DEF hour
  <2> QED  BY <2>1, HoursOnTheDial
<1>3. CASE p.hour # {}
  BY <1>1, <1>3 DEF ResolveHour
<1>4. CASE p.hour = {}
  <2>1. ResolveHour(p) = {Value(h, pm) : h \in p.hour12, pm \in p.pm}
    BY <1>4 DEF ResolveHour
  <2>2. CASE p.hour12 = {} \/ p.pm = {}
    BY <1>4, <2>1, <2>2
  <2>3. CASE p.hour12 # {} /\ p.pm # {}
    <3>1. p.hour12 = {dial} /\ p.pm = {hour >= 12}
      BY <1>1, <2>3
    <3> HIDE DEF Value
    <3>2. ResolveHour(p) = {Value(dial, hour >= 12)}
      BY <2>1, <3>1
    <3> QED  BY <1>2, <1>4, <2>3, <3>2
  <2> QED  BY <2>2, <2>3
<1> QED  BY <1>3, <1>4

-----------------------------------------------------------------------------
LEMMA TimeFields ==
  ASSUME NEW s, IsSource(s), NEW p, ShowsOrNothing(p, s)
  PROVE  /\ s.time.hour \in 0..23 /\ s.time.minute \in 0..59 /\ s.time.second \in 0..59
         /\ p.hour \in {{}, {s.time.hour}} /\ p.minute \in {{}, {s.time.minute}}
         /\ p.second \in {{}, {s.time.second}} /\ p.nanos \in {{}, {s.time.nanos}}
<1>1. /\ p["hour"] \in {{}, Shown(s)["hour"]} /\ p["minute"] \in {{}, Shown(s)["minute"]}
      /\ p["second"] \in {{}, Shown(s)["second"]} /\ p["nanos"] \in {{}, Shown(s)["nanos"]}
  BY DEF ShowsOrNothing, Fields
<1>2. /\ Shown(s)["hour"] = {s.time.hour} /\ Shown(s)["minute"] = {s.time.minute}
      /\ Shown(s)["second"] = {s.time.second} /\ Shown(s)["nanos"] = {s.time.nanos}
  BY DEF Shown
<1>3. s.time.hour \in 0..23 /\ s.time.minute \in 0..59 /\ s.time.second \in 0..59
  BY SourceFields
<1> QED  BY <1>1, <1>2, <1>3

(* The time that is read back: what was not read is zero.                   *)
TimeRead(p, s) ==
  [hour   |-> s.time.hour,
   minute |-> IF p.minute = {} THEN 0 ELSE s.time.minute,
   second |-> IF p.second = {} THEN 0 ELSE s.time.second,
   nanos  |-> IF p.nanos = {} THEN 0 ELSE s.time.nanos]

LEMMA TimeIsRead ==
  ASSUME NEW s, IsSource(s), NEW p, ShowsOrNothing(p, s), p.timestamp = {}
  PROVE  ToTime(p) = IF p.hour = {} /\ (p.hour12 = {} \/ p.pm = {})
                     THEN Err ELSE {TimeRead(p, s)}
<1> DEFINE H == ResolveHour(p)
           M == OptionOr(p.minute, 0)
           S == OptionOr(p.second, 0)
           N == OptionOr(p.nanos, 0)
           m == IF p.minute = {} THEN 0 ELSE s.time.minute
           e == IF p.second = {} THEN 0 ELSE s.time.second
           n == IF p.nanos = {} THEN 0 ELSE s.time.nanos
           h == s.time.hour
           Valid(t) == t.hour < 24 /\ t.minute < 60 /\ t.second < 60
<1>1. /\ h \in 0..23 /\ s.time.minute \in 0..59 /\ s.time.second \in 0..59
      /\ M = {m} /\ S = {e} /\ N = {n}
  BY TimeFields DEF OptionOr
<1>2. m \in 0..59 /\ e \in 0..59
  BY <1>1, SMT
<1>3. H = IF p.hour = {} /\ (p.hour12 = {} \/ p.pm = {}) THEN {} ELSE {h}
  BY HourRead
<1>4. ToTime(p) = {t \in [hour : H, minute : M, second : S, nanos : N] : Valid(t)}
  BY DEF ToTime
<1>5. TimeRead(p, s) = [hour |-> h, minute |-> m, second |-> e, nanos |-> n]
  BY DEF TimeRead
<1>6. h < 24 /\ m < 60 /\ e < 60
  <2> HIDE DEF h, m, e
  <2> QED  BY <1>1, <1>2, SMT
<1> HIDE DEF H, M, S, N, m, e, n, h
<1>7. CASE p.hour = {} /\ (p.hour12 = {} \/ p.pm = {})
  <2>1. H = {}
    BY <1>3, <1>7
  <2>2. [hour : H, minute : M, second : S, nanos : N] = {}
    <3>1. ASSUME NEW t \in [hour : H, minute : M, second : S, nanos : N] PROVE FALSE
      <4>1. t.hour \in H
        OBVIOUS
      <4> QED  BY <2>1, <4>1
    <3> QED  BY <3>1
  <2> QED  BY <1>4, <1>7, <2>2 DEF Err
<1>8. CASE ~(p.hour = {} /\ (p.hour12 = {} \/ p.pm = {}))
  <2> DEFINE r == [hour |-> h, minute |-> m, second |-> e, nanos |-> n]
  <2>1. H = {h}
    BY <1>3, <1>8
  <2>2. [hour : H, minute : M, second : S, nanos : N] = {r}
    <3>1. ASSUME NEW t \in [hour : H, minute : M, second : S, nanos : N] PROVE t = r
      <4>1. t = [hour |-> t.hour, minute |-> t.minute, second |-> t.second, nanos |-> t.nanos]
        OBVIOUS
      <4>2. t.hour = h /\ t.minute = m /\ t.second = e /\ t.nanos = n
        BY <1>1, <2>1
      <4> QED  BY <4>1, <4>2
    <3>2. r \in [hour : H, minute : M, second : S, nanos : N]
      BY <1>1, <2>1
    <3> HIDE DEF r
    <3> QED  BY <3>1, <3>2
  <2>3. Valid(r)
    BY <1>6
  <2> HIDE DEF r, Valid
  <2>4. ToTime(p) = {r}
    BY <1>4, <2>2, <2>3
  <2> QED  BY <1>5, <1>8, <2>4 DEF r
<1> QED  BY <1>7, <1>8

(* The time read back is the one written, with zero for what was not read   *)
(* (ParsedParts::to_time).                                                 *)
THEOREM TimesRoundTrip == Spec => []TimeIsRecovered
<1>1. Inv => TimeIsRecovered
  <2> SUFFICES ASSUME Inv, ~kit.mixed, pp.timestamp = {}
               PROVE  ToTime(pp) =
                        IF pp.hour = {} /\ (pp.hour12 = {} \/ pp.pm = {})
                        THEN Err
                        ELSE {[f \in DOMAIN Midnight |->
                                 IF f = "hour" \/ pp[f] # {} THEN source.time[f] ELSE 0]}
    BY DEF TimeIsRecovered
  <2>1. IsSource(source) /\ ShowsOrNothing(pp, source)
    BY TextOfOneValue
  <2>2. TimeRead(pp, source)
          = [f \in DOMAIN Midnight |-> IF f = "hour" \/ pp[f] # {} THEN source.time[f] ELSE 0]
    BY DEF TimeRead, Midnight
  <2> QED  BY <2>1, <2>2, TimeIsRead
<1> QED  BY <1>1, Invariance, PTL

(* Dates and times of a text of one value, and the seconds they stand for.  *)
LEMMA CivilRead ==
  ASSUME IsSource(source), NEW p, PartsTyped(p), ShowsOrNothing(p, source), GuessedRight(p),
         p.timestamp = {}, NEW c \in ToCivil(p)
  PROVE  /\ c.date = source.date
         /\ c.time = TimeRead(p, source) \/ (~HasAnyTime(p) /\ c.time = Midnight)
<1> DEFINE T == IF HasAnyTime(p) THEN ToTime(p) ELSE {Midnight}
<1>1. ToCivil(p) = [date : ToDate(p), time : T]
  BY DEF ToCivil
<1> HIDE DEF T
<1>2. c.date \in ToDate(p) /\ c.time \in T
  BY <1>1
<1>3. ToDate(p) = IF DateDescribed(p) THEN {source.date} ELSE Err
  BY DateRead
<1>4. c.date = source.date
  BY <1>2, <1>3 DEF Err
<1>5. ToTime(p) = Err \/ ToTime(p) = {TimeRead(p, source)}
  BY TimeIsRead
<1> QED  BY <1>2, <1>4, <1>5 DEF T, Err

(* An instant read back is the one written, but for fields not read: never *)
(* after it, less than a day before it (ParsedParts::to_ticks, to_zoned).   *)
THEOREM InstantsRoundTrip == Spec => []InstantIsRecovered
<1>1. Inv => InstantIsRecovered
  <2> DEFINE written == UnixSeconds(source) - (CHOOSE o \in source.offset : TRUE)
  <2> SUFFICES ASSUME Inv, ~kit.mixed, GuessedRight(pp), NEW r \in ToZoned(pp)
               PROVE  /\ r.ticks[1] <= written /\ written - r.ticks[1] < 86400
                      /\ r.ticks[2] \in {0, source.time.nanos}
                      /\ pp.timestamp # {} => r.ticks = <<written, 0>>
                      /\ pp.timestamp = {} => r.offset \in source.offset
                      /\ pp.hour # {} /\ pp.minute # {} /\ pp.second # {} =>
                           r.ticks[1] = written
    BY DEF InstantIsRecovered
  <2>1. IsSource(source) /\ PartsTyped(pp) /\ ShowsOrNothing(pp, source)
    BY TextOfOneValue
  <2>2. r.ticks \in ToTicks(pp) /\ r.offset \in OptionOr(pp.offset, 0)
    <3>1. ToZoned(pp) = [ticks : ToTicks(pp), offset : OptionOr(pp.offset, 0)]
      BY DEF ToZoned
    <3> QED  BY <3>1
  <2>3. /\ pp.offset \in {{}, source.offset} /\ pp.timestamp \in {{}, source.timestamp}
    <3>1. /\ pp["offset"] \in {{}, Shown(source)["offset"]}
          /\ pp["timestamp"] \in {{}, Shown(source)["timestamp"]}
      BY <2>1 DEF ShowsOrNothing, Fields
    <3>2. /\ Shown(source)["offset"] = source.offset
          /\ Shown(source)["timestamp"] = source.timestamp
      BY DEF Shown
    <3> QED  BY <3>1, <3>2
  <2>4. /\ source.offset = {} \/ \E o \in source.offset : source.offset = {o}
        /\ source.timestamp = {UnixSeconds(source) - o : o \in source.offset}
    BY <2>1 DEF IsSource
  <2>5. PICK o \in source.offset : source.offset = {o}
    <3>1. CASE pp.timestamp # {}
      BY <2>3, <2>4, <3>1
    <3>2. CASE pp.timestamp = {}
      <4>1. ToTicks(pp) = {<<UnixSeconds(c) - o, c.time.nanos>> : c \in ToCivil(pp), o \in pp.offset}
        BY <3>2 DEF ToTicks
      <4>2. pp.offset # {}
        BY <2>2, <4>1
      <4> QED  BY <2>3, <2>4, <4>2
    <3> QED  BY <3>1, <3>2
  <2>6. (CHOOSE x \in source.offset : TRUE) = o
    BY <2>5
  <2>7. written = UnixSeconds(source) - o
    BY <2>6
  <2>8. /\ source.date \in Int /\ source.time.hour \in 0..23 /\ source.time.minute \in 0..59
        /\ source.time.second \in 0..59 /\ o \in Int
    BY <2>1, <2>5, SourceFields
  <2>9. UnixSeconds(source)
          = source.date * 86400 + source.time.hour * 3600 + source.time.minute * 60
              + source.time.second
    BY DEF UnixSeconds
  <2> HIDE DEF written
  <2>10. CASE pp.timestamp # {}
    <3>1. source.timestamp = {written}
      BY <2>4, <2>5, <2>7
    <3>2. ToTicks(pp) = {<<ts, 0>> : ts \in pp.timestamp}
      BY <2>10 DEF ToTicks
    <3>3. r.ticks = <<written, 0>>
      BY <2>2, <2>3, <2>10, <3>1, <3>2
    <3>4. written \in Int
      BY <2>7, <2>8, <2>9, SMT
    <3>5. written <= written /\ written - written < 86400
      BY <3>4, SMT
    <3> QED  BY <2>10, <3>3, <3>5
  <2>11. CASE pp.timestamp = {}
    <3>1. ToTicks(pp) = {<<UnixSeconds(c) - x, c.time.nanos>> : c \in ToCivil(pp), x \in pp.offset}
      BY <2>11 DEF ToTicks
    <3>2. PICK c \in ToCivil(pp), x \in pp.offset : r.ticks = <<UnixSeconds(c) - x, c.time.nanos>>
      BY <2>2, <3>1
    <3>3. pp.offset = {o} /\ x = o
      BY <2>3, <2>5, <3>2
    <3>4. r.offset \in source.offset
      BY <2>2, <2>5, <3>3 DEF OptionOr
    <3>5. /\ c.date = source.date
          /\ c.time = TimeRead(pp, source) \/ (~HasAnyTime(pp) /\ c.time = Midnight)
      BY <2>1, <2>11, CivilRead
    <3>6. /\ c.time.hour \in {0, source.time.hour} /\ c.time.minute \in {0, source.time.minute}
          /\ c.time.second \in {0, source.time.second}
          /\ c.time.nanos \in {0, source.time.nanos}
          /\ pp.hour # {} /\ pp.minute # {} /\ pp.second # {} =>
               /\ c.time.hour = source.time.hour /\ c.time.minute = source.time.minute
               /\ c.time.second = source.time.second
      <4>1. CASE c.time = TimeRead(pp, source)
        BY <4>1 DEF TimeRead
      <4>2. CASE ~HasAnyTime(pp) /\ c.time = Midnight
        <5>1. pp.hour = {}
          BY <4>2 DEF HasAnyTime
        <5> QED  BY <4>2, <5>1 DEF Midnight
      <4> QED  BY <3>5, <4>1, <4>2
    <3> DEFINE back == UnixSeconds(c) - o
    <3>7. back = (source.date * 86400 + c.time.hour * 3600 + c.time.minute * 60
                    + c.time.second) - o
      BY <3>5 DEF UnixSeconds
    <3>8. r.ticks[1] = back /\ r.ticks[2] = c.time.nanos
      BY <3>2, <3>3
    <3> HIDE DEF back
    <3>0. written = (source.date * 86400 + source.time.hour * 3600 + source.time.minute * 60
                       + source.time.second) - o
      BY <2>7, <2>9
    <3>9. /\ back <= written /\ written - back < 86400
          /\ c.time.hour = source.time.hour /\ c.time.minute = source.time.minute
               /\ c.time.second = source.time.second => back = written
      <4> DEFINE D == source.date
                 h == source.time.hour    hh == c.time.hour
                 m == source.time.minute  mm == c.time.minute
                 e == source.time.second  ee == c.time.second
      <4>1. /\ D \in Int /\ h \in 0..23 /\ m \in 0..59 /\ e \in 0..59 /\ o \in Int
            /\ hh = 0 \/ hh = h
            /\ mm = 0 \/ mm = m
            /\ ee = 0 \/ ee = e
        BY <2>8, <3>6
      <4>2. /\ written = (D * 86400 + h * 3600 + m * 60 + e) - o
            /\ back = (D * 86400 + hh * 3600 + mm * 60 + ee) - o
        BY <3>0, <3>7
      <4> HIDE DEF D, h, hh, m, mm, e, ee
      <4>3. /\ back <= written /\ written - back < 86400
            /\ hh = h /\ mm = m /\ ee = e => back = written
        BY <4>1, <4>2, SMT
      <4> QED  BY <4>3 DEF h, hh, m, mm, e, ee
    <3> QED  BY <2>11, <3>4, <3>6, <3>8, <3>9
  <2> QED  BY <2>10, <2>11
<1> QED  BY <1>1, Invariance, PTL

-----------------------------------------------------------------------------
(* A date resolved from any fields shows them.                             *)
LEMMA YearsAreInts ==
  ASSUME NEW p, PartsTyped(p)
  PROVE  CombineYear(p) \subseteq Int /\ IsoYear(p) \subseteq Int
<1>1. /\ p.year \subseteq Int /\ p.century \subseteq Int /\ p.isoyear \subseteq Int
      /\ p.year2 \subseteq Nat /\ p.isoyear2 \subseteq Nat
  <2>1. /\ p["year"] \subseteq Int /\ p["century"] \subseteq Int /\ p["isoyear"] \subseteq Int
        /\ p["year2"] \subseteq Nat /\ p["isoyear2"] \subseteq Nat
    BY DEF PartsTyped, Counts
  <2> QED  BY <2>1
<1>2. \A y2 \in Nat : Inferred(y2) \in Int
  BY SMT DEF Inferred
<1>3. \A a \in Int, y2 \in Nat : a * 100 + y2 \in Int
  BY SMT
<1>4. {Inferred(y2) : y2 \in p.year2} \subseteq Int
  BY <1>1, <1>2
<1>5. {Inferred(y2) : y2 \in p.isoyear2} \subseteq Int
  BY <1>1, <1>2
<1>6. {a * 100 + y2 : a \in p.century, y2 \in p.year2} \subseteq Int
  <2> SUFFICES ASSUME NEW a \in p.century, NEW y2 \in p.year2 PROVE a * 100 + y2 \in Int
    OBVIOUS
  <2> QED  BY <1>1, <1>3
<1>7. CombineYear(p) \subseteq Int
  BY <1>1, <1>4, <1>6 DEF CombineYear
<1>8. IsoYear(p) \subseteq Int
  BY <1>1, <1>5 DEF IsoYear
<1> QED  BY <1>7, <1>8

LEMMA IsoWeekdayIsShown ==
  ASSUME NEW year \in Int, NEW week \in Nat, NEW weekday \in Weekdays,
         NEW d \in FromIsoYwd(year, week, weekday)
  PROVE  d \in Date /\ WeekdayOfDays(d) = weekday
<1> DEFINE one == MondayOfWeekOne(year)
<1>1. PICK monday \in MondayOfIsoWeek(year, week) : d \in AddDays(monday, weekday)
  BY DEF FromIsoYwd
<1>2. monday = one + (week - 1) * 7
  BY <1>1 DEF MondayOfIsoWeek, FromDaysChecked, Ok, Err
<1>3. d = monday + weekday /\ d \in Date
  BY <1>1 DEF AddDays, FromDaysChecked, Ok, Err
<1>4. one \in Int /\ (one + 3) % 7 = 0
  BY WeekOneStarts
<1>5. d \in Int /\ WeekdayOfDays(d) = (d + 3) % 7
  <2>1. d \in Int
    BY <1>3, DateIsInt
  <2> QED  BY <2>1, WeekdayIsRemainder
<1> HIDE DEF one
<1>6. (d + 3) % 7 = weekday
  <2>1. d = one + (week - 1) * 7 + weekday
    BY <1>2, <1>3
  <2> QED  BY <1>4, <2>1, SMT DEF Weekdays
<1> QED  BY <1>3, <1>5, <1>6

LEMMA OrdinalIsShown ==
  ASSUME NEW year \in Int, NEW ordinal \in Nat, NEW d \in FromYo(year, ordinal),
         NEW c, c = CivilFromDays(d)
  PROVE  d \in Date /\ c.year = year /\ DayOfYear(c.year, c.month, c.day) = ordinal
<1> DEFINE first == FirstDay(year)
           next  == FirstDay(year + 1)
<1>1. /\ ordinal # 0 /\ ~(ordinal > DaysInYear(year))
      /\ d = first + ordinal - 1 /\ d \in Date
  BY DEF FromYo, FromDaysChecked, Ok, Err, FirstDay
<1>2. /\ first \in Int /\ next = first + DaysInYear(year) /\ DaysInYear(year) \in {365, 366}
  BY DaysOfYear
<1>3. d \in Int
  BY <1>1, DateIsInt
<1>4. first <= d /\ d < next /\ d - first + 1 = ordinal
  <2> HIDE DEF first, next
  <2> QED  BY <1>1, <1>2, <1>3, SMT
<1>5. c.year = year
  BY <1>3, <1>4, YearOfDay DEF FirstDay
<1>6. DaysFromCivil(c.year, c.month, c.day) = d
  BY <1>3, DaysRoundTrip
<1>7. DayOfYear(c.year, c.month, c.day) = d - first + 1
  BY <1>5, <1>6 DEF DayOfYear, FirstDay
<1> QED  BY <1>1, <1>4, <1>5, <1>7

(* A date resolved from any text has the year, the week, the ordinal or the *)
(* month and day that were read, and their weekday (ParsedParts::to_date).  *)
THEOREM ResolvedDates == Spec => []ResolvedDateShowsFields
<1>1. Inv => ResolvedDateShowsFields
  <2> SUFFICES ASSUME Inv, NEW date \in ToDate(pp), NEW c, c = CivilFromDays(date)
               PROVE  /\ pp.weekday # {} => WeekdayOfDays(date) \in pp.weekday
                      /\ IF pp.isoweek # {}
                         THEN /\ IsoWeekOfDays(date).week \in pp.isoweek
                              /\ IsoWeekOfDays(date).year \in IsoYear(pp)
                         ELSE /\ c.year \in CombineYear(pp)
                              /\ IF pp.weeksun # {}
                                   THEN WeekOfYear(date, Sunday) \in pp.weeksun
                                 ELSE IF pp.weekmon # {}
                                   THEN WeekOfYear(date, Monday) \in pp.weekmon
                                 ELSE IF pp.ordinal # {}
                                   THEN DayOfYear(c.year, c.month, c.day) \in pp.ordinal
                                 ELSE c.month \in pp.month /\ c.day \in pp.day
    BY DEF ResolvedDateShowsFields
  <2>1. PartsTyped(pp)
    BY DEF Inv
  <2>2. CombineYear(pp) \subseteq Int /\ IsoYear(pp) \subseteq Int
    BY <2>1, YearsAreInts
  <2>3. /\ pp.isoweek \subseteq Nat /\ pp.weeksun \subseteq Nat /\ pp.weekmon \subseteq Nat
        /\ pp.ordinal \subseteq Nat /\ pp.month \subseteq Nat /\ pp.day \subseteq Nat
        /\ pp.weekday \subseteq Weekdays
    <3>1. /\ pp["isoweek"] \subseteq Nat /\ pp["weeksun"] \subseteq Nat
          /\ pp["weekmon"] \subseteq Nat /\ pp["ordinal"] \subseteq Nat
          /\ pp["month"] \subseteq Nat /\ pp["day"] \subseteq Nat
          /\ pp["weekday"] \subseteq Weekdays
      BY <2>1 DEF PartsTyped, Counts
    <3> QED  BY <3>1
  <2>4. pp.timestamp = {}
    BY DEF ToDate, Err
  <2>5. CASE pp.isoweek # {}
    <3>1. PICK y \in IsoYear(pp), w \in pp.isoweek, wd \in pp.weekday :
            date \in {d \in FromIsoYwd(y, w, wd) : IsoWeekOfDays(d) = [year |-> y, week |-> w]}
      BY <2>4, <2>5 DEF ToDate
    <3>2. IsoWeekOfDays(date) = [year |-> y, week |-> w] /\ date \in FromIsoYwd(y, w, wd)
      BY <3>1
    <3>3. WeekdayOfDays(date) = wd
      <4>1. y \in Int /\ w \in Nat /\ wd \in Weekdays
        BY <2>2, <2>3
      <4> QED  BY <3>2, <4>1, IsoWeekdayIsShown
    <3>4. IsoWeekOfDays(date).week = w /\ IsoWeekOfDays(date).year = y
      BY <3>2
    <3> QED  BY <2>5, <3>3, <3>4
  <2>6. CASE pp.isoweek = {} /\ pp.weeksun # {}
    <3>1. PICK y \in CombineYear(pp), w \in pp.weeksun, wd \in pp.weekday :
            date \in DateFromWeek(y, w, wd, Sunday)
      BY <2>4, <2>6 DEF ToDate
    <3>2. y \in Int /\ w \in Nat /\ wd \in Weekdays
      BY <2>2, <2>3
    <3>3. c.year = y /\ WeekOfYear(date, Sunday) = w /\ WeekdayOfDays(date) = wd
      BY <3>1, <3>2, WeekIsShown, StartsAreWeekdays
    <3> QED  BY <2>6, <3>3
  <2>7. CASE pp.isoweek = {} /\ pp.weeksun = {} /\ pp.weekmon # {}
    <3>1. PICK y \in CombineYear(pp), w \in pp.weekmon, wd \in pp.weekday :
            date \in DateFromWeek(y, w, wd, Monday)
      BY <2>4, <2>7 DEF ToDate
    <3>2. y \in Int /\ w \in Nat /\ wd \in Weekdays
      BY <2>2, <2>3
    <3>3. c.year = y /\ WeekOfYear(date, Monday) = w /\ WeekdayOfDays(date) = wd
      BY <3>1, <3>2, WeekIsShown, StartsAreWeekdays
    <3> QED  BY <2>7, <3>3
  <2>8. CASE pp.isoweek = {} /\ pp.weeksun = {} /\ pp.weekmon = {} /\ pp.ordinal # {}
    <3> DEFINE U == UNION {FromYo(y, n) : y \in CombineYear(pp), n \in pp.ordinal}
    <3>1. ToDate(pp) = CheckWeekday(pp.weekday, U)
      BY <2>4, <2>8 DEF ToDate
    <3>2. date \in U /\ (pp.weekday # {} => WeekdayOfDays(date) \in pp.weekday)
      <4> HIDE DEF U
      <4> QED  BY <3>1 DEF CheckWeekday
    <3>3. PICK y \in CombineYear(pp), n \in pp.ordinal : date \in FromYo(y, n)
      BY <3>2
    <3>4. y \in Int /\ n \in Nat
      BY <2>2, <2>3
    <3>5. c.year = y /\ DayOfYear(c.year, c.month, c.day) = n
      BY <3>3, <3>4, OrdinalIsShown
    <3> HIDE DEF U
    <3> QED  BY <2>8, <3>2, <3>5
  <2>9. CASE pp.isoweek = {} /\ pp.weeksun = {} /\ pp.weekmon = {} /\ pp.ordinal = {}
    <3> DEFINE U == UNION {FromYmd(y, m, k) :
                             y \in CombineYear(pp), m \in pp.month, k \in pp.day}
    <3>1. ToDate(pp) = CheckWeekday(pp.weekday, U)
      BY <2>4, <2>9 DEF ToDate
    <3>2. date \in U /\ (pp.weekday # {} => WeekdayOfDays(date) \in pp.weekday)
      <4> HIDE DEF U
      <4> QED  BY <3>1 DEF CheckWeekday
    <3>3. PICK y \in CombineYear(pp), m \in pp.month, k \in pp.day : date \in FromYmd(y, m, k)
      BY <3>2
    <3>4. y \in Int /\ m \in Nat /\ k \in Nat
      BY <2>2, <2>3
    <3>5. m \in Int /\ k \in Int /\ 0 <= k
      BY <3>4, SMT
    <3>6. c = [year |-> y, month |-> m, day |-> k]
      BY <3>3, <3>4, <3>5, FromYmdFields
    <3> HIDE DEF U
    <3> QED  BY <2>9, <3>2, <3>6
  <2> QED  BY <2>5, <2>6, <2>7, <2>8, <2>9
<1> QED  BY <1>1, Invariance, PTL

=============================================================================
