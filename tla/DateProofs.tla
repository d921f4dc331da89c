----------------------------- MODULE DateProofs -----------------------------
(***************************************************************************)
(* Theorems about every caller of Date (DateCalls), for every width of the *)
(* day count and of the year and for all arguments: no call leaves the     *)
(* range of a Date, a chain of month steps keeps the month of one jump and *)
(* never runs ahead of it, steps keep the order of dates, searches find    *)
(* the nearest day, and what the accessors show is taken back.  And about  *)
(* the caller of succ and pred (DateWalk): it turns an Odometer.           *)
(***************************************************************************)
EXTENDS DateCalls, DateWalk, DateOpsProofs

-----------------------------------------------------------------------------
(* The inductive invariant: the month and day of the caller's date follow  *)
(* from the anchor of the chain and from how far it moved.                 *)
Inv == TypeOK /\ ChainKeepsMonth

LEMMA ReturnKeepsInv ==
  ASSUME NEW result \in SUBSET Date, Return(result)
  PROVE  Inv'
<1>1. date' \in Date /\ anchor' = date' /\ moved' = 0
  BY DEF Return
<1>2. TypeOK'
  BY <1>1, ArgumentAssumption, SMT DEF TypeOK
<1>3. ASSUME NEW c, c = CivilFromDays(date')
      PROVE  /\ MonthIndex(c) = MonthIndex(c) + 0
             /\ c.day <= c.day
             /\ c.day >= Lesser(c.day, 28)
  BY <1>1, <1>3, CivilFields, SMT DEF MonthIndex, Lesser
<1>4. ChainKeepsMonth'
  BY <1>1, <1>3 DEF ChainKeepsMonth
<1> QED  BY <1>2, <1>4 DEF Inv

LEMMA ReturnMonthsKeepsInv ==
  ASSUME Inv, NEW months \in Int,
         ReturnMonths(AddSignedMonths(date, months), months)
  PROVE  Inv'
<1> DEFINE a == CivilFromDays(anchor)
           c == CivilFromDays(date)
           n == CivilFromDays(date')
<1>1. /\ date \in Date /\ anchor \in Date /\ moved \in Int
      /\ date' \in AddSignedMonths(date, months)
      /\ anchor' = anchor /\ moved' = moved + months
      /\ Magnitude(moved + months) <= ChainBound
  BY ArgumentAssumption, SMT DEF Inv, TypeOK, ReturnMonths
<1>2. /\ date' \in Date
      /\ MonthIndex(n) = MonthIndex(c) + months
      /\ n.day = Lesser(c.day, DaysInMonth(n.year, n.month))
  BY <1>1, MonthStep
<1>3. moved' \in -ChainBound..ChainBound
  BY <1>1, ArgumentAssumption, SMT DEF Magnitude
<1>4. TypeOK'
  BY <1>1, <1>2, <1>3 DEF TypeOK
<1>5. /\ a.year \in Int /\ a.month \in Int /\ a.day \in Int /\ c.day \in Int
      /\ n.year \in Int /\ n.month \in 1..12
  <2>1. /\ a.year \in Int /\ a.month \in Int /\ a.day \in Int /\ c.day \in Int
    BY <1>1, CivilFields
  <2>2. /\ n.year \in Int /\ n.month \in Int /\ 1 <= n.month /\ n.month <= 12
    BY <1>2, CivilFields
  <2> QED  BY <2>1, <2>2, SMT
<1>6. /\ MonthIndex(c) = MonthIndex(a) + moved
      /\ c.day <= a.day /\ c.day >= Lesser(a.day, 28)
  BY DEF Inv, ChainKeepsMonth
<1>7. /\ DaysInMonth(n.year, n.month) \in Int
      /\ 28 <= DaysInMonth(n.year, n.month)
  BY <1>5, MonthLength
<1> HIDE DEF a, c, n
<1>8. n.day <= a.day /\ n.day >= Lesser(a.day, 28)
  BY <1>2, <1>5, <1>6, <1>7, SMT DEF Lesser
<1>9. MonthIndex(n) = MonthIndex(a) + moved'
  <2>1. MonthIndex(a) \in Int
    BY <1>5, SMT DEF MonthIndex
  <2> QED  BY <1>1, <1>2, <1>6, <2>1, SMT
<1>10. ChainKeepsMonth'
  BY <1>1, <1>8, <1>9 DEF ChainKeepsMonth, a, n
<1> QED  BY <1>4, <1>10 DEF Inv

LEMMA InitInv == Init => Inv
<1> SUFFICES ASSUME Init PROVE Inv
  OBVIOUS
<1>1. date \in Date /\ anchor = date /\ moved = 0
  BY DEF Init
<1>2. TypeOK
  BY <1>1, ArgumentAssumption, SMT DEF TypeOK
<1>3. ASSUME NEW c, c = CivilFromDays(date)
      PROVE  /\ MonthIndex(c) = MonthIndex(c) + 0
             /\ c.day <= c.day
             /\ c.day >= Lesser(c.day, 28)
  BY <1>1, <1>3, CivilFields, SMT DEF MonthIndex, Lesser
<1> QED  BY <1>1, <1>2, <1>3 DEF Inv, ChainKeepsMonth

LEMMA NextInv == Inv /\ [Next]_vars => Inv'
<1> SUFFICES ASSUME Inv, [Next]_vars PROVE Inv'
  OBVIOUS
<1>0. date \in Date
  BY DEF Inv, TypeOK
<1>1. CASE Succ
  BY <1>1, DayStepsInDate, ReturnKeepsInv DEF Succ
<1>2. CASE Pred
  BY <1>2, DayStepsInDate, ReturnKeepsInv DEF Pred
<1>3. CASE StepDays
  <2>1. ASSUME NEW n \in SignedDays, Return(Ok(SaturatingAddDays(date, n)))
        PROVE  Inv'
    <3>1. Ok(SaturatingAddDays(date, n)) \in SUBSET Date
      BY <1>0, ArgumentAssumption, SaturatedDaysInDate DEF Ok
    <3> QED  BY <2>1, <3>1, ReturnKeepsInv
  <2> QED  BY <1>3, <2>1, DayStepsInDate, ReturnKeepsInv DEF StepDays
<1>4. CASE StepDuration
  BY <1>4, DurationStepsInDate, ReturnKeepsInv DEF StepDuration
<1>5. CASE StepMonths
  <2>1. ASSUME NEW n \in MonthCounts, ReturnMonths(AddMonths(date, n), n)
        PROVE  Inv'
    BY <2>1, ArgumentAssumption, ReturnMonthsKeepsInv DEF AddMonths
  <2>2. ASSUME NEW n \in MonthCounts, ReturnMonths(SubMonths(date, n), -n)
        PROVE  Inv'
    <3>1. -n \in Int
      BY ArgumentAssumption, SMT
    <3> QED  BY <2>2, <3>1, ReturnMonthsKeepsInv DEF SubMonths
  <2>3. ASSUME NEW n \in YearCounts, ReturnMonths(AddYears(date, n), n * 12)
        PROVE  Inv'
    <3>1. n * 12 \in Int
      BY ArgumentAssumption, SMT
    <3> QED  BY <2>3, <3>1, ReturnMonthsKeepsInv DEF AddYears
  <2> QED  BY <1>5, <2>1, <2>2, <2>3 DEF StepMonths
<1>6. CASE SaturateMonths
  <2>1. ASSUME NEW n PROVE Ok(SaturatingAddMonths(date, n)) \in SUBSET Date
    BY SaturatedMonthsInDate DEF Ok
  <2> QED  BY <1>6, <2>1, ReturnKeepsInv DEF SaturateMonths
<1>7. CASE Replace
  BY <1>7, ReplacementsInDate, ReturnKeepsInv DEF Replace
<1>8. CASE MonthEnd
  <2>1. /\ Ok(FirstDayOfMonth(date)) \in SUBSET Date
        /\ Ok(LastDayOfMonth(date)) \in SUBSET Date
    BY MonthEndsInDate DEF Ok
  <2> QED  BY <1>8, <2>1, ReturnKeepsInv DEF MonthEnd
<1>9. CASE Search
  BY <1>9, SearchesInDate, ReturnKeepsInv DEF Search
<1>10. CASE UNCHANGED vars
  BY <1>10 DEF Inv, TypeOK, ChainKeepsMonth, vars
<1> QED
  BY <1>1, <1>2, <1>3, <1>4, <1>5, <1>6, <1>7, <1>8, <1>9, <1>10 DEF Next

-----------------------------------------------------------------------------
(* No sequence of calls leaves the width of a Date.                        *)
THEOREM TypeCorrect == Spec => []TypeOK
<1>1. Inv => TypeOK
  BY DEF Inv
<1> QED  BY <1>1, InitInv, NextInv, PTL DEF Spec

(* A chain of month steps is always in the month its total reaches, and    *)
(* its day is the anchor's day but for clamping.                           *)
THEOREM ChainStaysInMonth == Spec => []ChainKeepsMonth
<1>1. Inv => ChainKeepsMonth
  BY DEF Inv
<1> QED  BY <1>1, InitInv, NextInv, PTL DEF Spec

LEMMA MonthIndexIsUnique ==
  ASSUME NEW y1 \in Int, NEW m1 \in Int, 1 <= m1, m1 <= 12,
         NEW y2 \in Int, NEW m2 \in Int, 1 <= m2, m2 <= 12,
         y1 * 12 + (m1 - 1) = y2 * 12 + (m2 - 1)
  PROVE  y1 = y2 /\ m1 = m2
BY SMT

(* Two dates of the same month are ordered as their days of the month.     *)
LEMMA SameMonthOrder ==
  ASSUME NEW d1 \in Date, NEW d2 \in Date,
         NEW c1, c1 = CivilFromDays(d1), NEW c2, c2 = CivilFromDays(d2),
         MonthIndex(c1) = MonthIndex(c2), c1.day <= c2.day
  PROVE  d1 <= d2
<1>1. /\ c1.year \in Int /\ c1.month \in Int /\ c1.day \in Int
      /\ IsCivil(c1.year, c1.month, c1.day)
      /\ DaysFromCivil(c1.year, c1.month, c1.day) = d1
  BY CivilFields
<1>2. /\ c2.year \in Int /\ c2.month \in Int /\ c2.day \in Int
      /\ IsCivil(c2.year, c2.month, c2.day)
      /\ DaysFromCivil(c2.year, c2.month, c2.day) = d2
  BY CivilFields
<1>3. c1.year * 12 + c1.month = c2.year * 12 + c2.month
  BY <1>1, <1>2, SMT DEF MonthIndex
<1> QED  BY <1>1, <1>2, <1>3, CivilsInOrder

(* A chain of month steps never runs ahead of one jump of the same total:  *)
(* the jump clamps the anchor's day once, the chain at every stop.         *)
THEOREM ChainBehindJump == Spec => []ChainNeverAhead
<1>1. Inv => ChainNeverAhead
  <2> SUFFICES ASSUME Inv, NEW jump \in AddSignedMonths(anchor, moved)
               PROVE  date <= jump
    BY DEF ChainNeverAhead
  <2> DEFINE a == CivilFromDays(anchor)
             c == CivilFromDays(date)
             j == CivilFromDays(jump)
  <2>1. date \in Date /\ anchor \in Date /\ moved \in Int
    BY ArgumentAssumption, SMT DEF Inv, TypeOK
  <2>2. /\ jump \in Date
        /\ MonthIndex(j) = MonthIndex(a) + moved
        /\ j.day = Lesser(a.day, DaysInMonth(j.year, j.month))
    BY <2>1, MonthStep
  <2>3. MonthIndex(c) = MonthIndex(j) /\ c.day <= a.day
    BY <2>2 DEF Inv, ChainKeepsMonth
  <2>4. /\ c.year \in Int /\ c.month \in Int /\ c.day \in Int
        /\ 1 <= c.month /\ c.month <= 12
        /\ c.day <= DaysInMonth(c.year, c.month)
    BY <2>1, CivilFields
  <2>5. /\ j.year \in Int /\ j.month \in Int /\ j.day \in Int
        /\ 1 <= j.month /\ j.month <= 12
    BY <2>2, CivilFields
  <2>6. a.day \in Int
    BY <2>1, CivilFields
  <2> HIDE DEF a, c, j
  <2>7. j.year = c.year /\ j.month = c.month
    <3>1. c.year * 12 + (c.month - 1) = j.year * 12 + (j.month - 1)
      BY <2>3 DEF MonthIndex
    <3> QED  BY <2>4, <2>5, <3>1, MonthIndexIsUnique
  <2>8. c.day <= j.day
    BY <2>2, <2>3, <2>4, <2>5, <2>6, <2>7, SMT DEF Lesser
  <2> QED  BY <2>1, <2>2, <2>3, <2>8, SameMonthOrder DEF c, j
<1> QED  BY <1>1, InitInv, NextInv, PTL DEF Spec

(* Month steps keep the order of dates, and fail on one side only: the     *)
(* target of a step, clamped or not, is monotone in the date.              *)
THEOREM MonthStepsAreMonotone == Spec => []MonthStepsKeepOrder
<1>1. TypeOK => MonthStepsKeepOrder
  <2> SUFFICES ASSUME TypeOK, date > DateMin,
                      NEW n \in MonthCounts \cup {-k : k \in MonthCounts}
               PROVE  LET before == AddSignedMonths(date - 1, n)
                          after  == AddSignedMonths(date, n)
                      IN  /\ \A b \in before, a \in after : b <= a
                          /\ n >= 0 => (before = Err => after = Err)
                          /\ n <= 0 => (after = Err => before = Err)
    BY Zenon DEF MonthStepsKeepOrder
  <2>1. n \in Int
    BY ArgumentAssumption, SMT
  <2>2. date \in Date /\ date - 1 \in Date /\ date - 1 <= date
    BY DateAssumption, SMT DEF TypeOK, Date
  <2> QED  BY <2>1, <2>2, MonthStepsInOrder
<1> QED  BY <1>1, TypeCorrect, PTL

(* The weekday searches find the nearest day on their side or fail.        *)
THEOREM SearchesAreNearest == Spec => []SearchesFindNearest
<1>1. TypeOK => SearchesFindNearest
  <2>1. ASSUME TypeOK PROVE date \in Int
    BY <2>1, DateIsInt DEF TypeOK
  <2> QED  BY <2>1, NextIsNearest, BackFromNext DEF SearchesFindNearest
<1> QED  BY <1>1, TypeCorrect, PTL

(* Adding a duration and taking it away again loses a day, but for whole   *)
(* days.                                                                   *)
THEOREM DurationsDrift == Spec => []DurationsDriftBackwards
<1>1. TypeOK => DurationsDriftBackwards
  <2> SUFFICES ASSUME TypeOK, NEW ns \in DurationsNs, NEW d \in AddSigned(date, ns)
               PROVE  SubSigned(d, ns)
                        = IF ns % NsPerDay = 0 THEN {date} ELSE {date - 1} \cap Date
    BY DEF DurationsDriftBackwards
  <2> DEFINE days == EuclidDiv(ns, NsPerDay)
             back == EuclidDiv(-ns, NsPerDay)
  <2>1. ns \in Int /\ -ns \in Int /\ date \in Int /\ date \in Date
    BY ArgumentAssumption, DateIsInt, SMT DEF TypeOK
  <2>2. days \in Int /\ AddSigned(date, ns) = FromDaysChecked(date + days)
    BY <2>1, DurationStep
  <2>3. d = date + days /\ d \in Int
    BY <2>1, <2>2, SMT DEF FromDaysChecked, Ok, Err
  <2>4. back \in Int /\ SubSigned(d, ns) = FromDaysChecked(d + back)
    BY <2>1, <2>3, DurationStep DEF SubSigned
  <2>5. back = IF ns % NsPerDay = 0 THEN -days ELSE -days - 1
    BY <2>1, DayLengthAssumption, OppositeDays
  <2> HIDE DEF days, back
  <2>6. CASE ns % NsPerDay = 0
    <3>1. d + back = date
      BY <2>1, <2>2, <2>3, <2>4, <2>5, <2>6, SMT
    <3> QED  BY <2>1, <2>4, <2>6, <3>1 DEF FromDaysChecked, Ok
  <2>7. CASE ns % NsPerDay # 0
    <3>1. d + back = date - 1
      BY <2>1, <2>2, <2>3, <2>4, <2>5, <2>7, SMT
    <3> QED  BY <2>4, <2>7, <3>1 DEF FromDaysChecked, Ok, Err
  <2> QED  BY <2>6, <2>7
<1> QED  BY <1>1, TypeCorrect, PTL

(* Every date is the one its accessors name: by year, month and day, by    *)
(* ordinal, by day of the Common Era and by ISO week, across all turns of  *)
(* the year.                                                               *)
THEOREM AccessorsAreTakenBack == Spec => []AccessorsIdentifyDate
<1>1. TypeOK => AccessorsIdentifyDate
  BY AccessorsTakenBack, OrdinalTakenBack, IsoWeekTakenBack
     DEF TypeOK, AccessorsIdentifyDate
<1> QED  BY <1>1, TypeCorrect, PTL

-----------------------------------------------------------------------------
(* A caller that only takes checked_succ and checked_pred (DateWalk).      *)

(* The months of the odometer are those of the code. *)
LEMMA MonthLengths ==
  ASSUME NEW year \in Int, NEW month \in 1..12
  PROVE  WallCalendar!MonthDays(year, month) = DaysInMonth(year, month)
<1>1. WallCalendar!FebruaryDays(year) = IF IsLeapYear(year) THEN 29 ELSE 28
  BY LeapByFloor, SMT DEF WallCalendar!FebruaryDays
<1> QED  BY <1>1, SMT DEF WallCalendar!MonthDays, DaysInMonth

(* One day turns the whole face. *)
LEMMA FaceTurns ==
  ASSUME NEW d \in Int
  PROVE  Face(d + 1) = WallCalendar!DayAfter(Face(d))
<1> DEFINE f    == Face(d)
           n    == Face(d + 1)
           c    == CivilFromDays(d)
           e    == CivilFromDays(d + 1)
           wd   == WeekdayOfDays(d)
           iso  == IsoWeekOfDays(d)
           turn == c.day = DaysInMonth(c.year, c.month)
           newYear == turn /\ c.month = 12
           month   == IF newYear THEN 1 ELSE IF turn THEN c.month + 1 ELSE c.month
           day     == IF turn THEN 1 ELSE c.day + 1
           opens == \/ month = 12 /\ day >= 29
                    \/ month = 1 /\ day <= 4
<1>1. /\ c.year \in Int /\ c.month \in 1..12 /\ c.day \in Int
      /\ d + 1 \in Int /\ DaysFromCivil(c.year, c.month, c.day) = d
  <2>1. /\ c.year \in Int /\ IsCivil(c.year, c.month, c.day) /\ c.day \in Int
        /\ DaysFromCivil(c.year, c.month, c.day) = d
    BY DaysRoundTrip
  <2> HIDE DEF c
  <2> QED  BY <2>1, SMT DEF IsCivil
<1>2. /\ e.year = (IF newYear THEN c.year + 1 ELSE c.year)
      /\ e.month = month /\ e.day = day
  <2>1. e = IF ~turn THEN [year |-> c.year, month |-> c.month, day |-> c.day + 1]
            ELSE IF c.month = 12 THEN [year |-> c.year + 1, month |-> 1, day |-> 1]
            ELSE [year |-> c.year, month |-> c.month + 1, day |-> 1]
    BY NextDay
  <2> HIDE DEF c, e
  <2> QED  BY <2>1
<1>3. WeekdayOfDays(d + 1) = IF wd = 6 THEN 0 ELSE wd + 1
  <2>1. wd = (d + 3) % 7 /\ WeekdayOfDays(d + 1) = (d + 1 + 3) % 7
    BY <1>1, WeekdayIsRemainder
  <2> HIDE DEF wd
  <2> QED  BY <2>1, SMT
<1>4. DayOfYear(e.year, e.month, e.day)
        = IF newYear THEN 1 ELSE DayOfYear(c.year, c.month, c.day) + 1
  <2>1. DaysFromCivil(e.year, e.month, e.day) = d + 1
    BY <1>1, DaysRoundTrip
  <2>2. CASE newYear
    <3>1. DayOfYear(e.year, e.month, e.day) = DayOfYear(e.year, 1, 1)
      BY <1>2, <2>2
    <3>2. e.year \in Int
      BY <1>1, DaysRoundTrip
    <3>3. DaysFromCivil(e.year, 1, 1) \in Int
      BY <3>2, DaysOfYear DEF FirstDay
    <3> HIDE DEF e, c
    <3>4. DayOfYear(e.year, 1, 1) = 1
      BY <3>3, SMT DEF DayOfYear
    <3> QED  BY <2>2, <3>1, <3>4
  <2>3. CASE ~newYear
    <3>1. e.year = c.year
      BY <1>2, <2>3
    <3>2. /\ DayOfYear(e.year, e.month, e.day) = (d + 1) - FirstDay(c.year) + 1
          /\ DayOfYear(c.year, c.month, c.day) = d - FirstDay(c.year) + 1
      BY <1>1, <2>1, <3>1 DEF DayOfYear, FirstDay
    <3>3. FirstDay(c.year) \in Int
      BY <1>1, DaysOfYear
    <3> HIDE DEF e, c
    <3> QED  BY <2>3, <3>2, <3>3, SMT
  <2> QED  BY <2>2, <2>3
<1>5. IsoWeekOfDays(d + 1) =
        IF wd # 6 THEN [year |-> iso.year, week |-> iso.week]
        ELSE IF opens THEN [year |-> iso.year + 1, week |-> 1]
        ELSE [year |-> iso.year, week |-> iso.week + 1]
  <2> HIDE DEF c, wd, month, day, newYear, turn
  <2> QED  BY <1>2, IsoWeekTurns DEF wd
<1>6. f = [year |-> c.year, month |-> c.month, day |-> c.day, weekday |-> wd,
           ordinal |-> DayOfYear(c.year, c.month, c.day),
           isoYear |-> iso.year, isoWeek |-> iso.week]
  BY DEF Face
<1>7. n = [year |-> e.year, month |-> e.month, day |-> e.day,
           weekday |-> WeekdayOfDays(d + 1),
           ordinal |-> DayOfYear(e.year, e.month, e.day),
           isoYear |-> IsoWeekOfDays(d + 1).year, isoWeek |-> IsoWeekOfDays(d + 1).week]
  BY DEF Face
<1>8. WallCalendar!MonthDays(f.year, f.month) = DaysInMonth(c.year, c.month)
  BY <1>1, <1>6, MonthLengths
<1>9. WallCalendar!DayAfter(f) =
        [year    |-> IF newYear THEN c.year + 1 ELSE c.year,
         month   |-> month,
         day     |-> day,
         weekday |-> IF wd = 6 THEN 0 ELSE wd + 1,
         ordinal |-> IF newYear THEN 1 ELSE DayOfYear(c.year, c.month, c.day) + 1,
         isoYear |-> IF wd = 6 /\ opens THEN iso.year + 1 ELSE iso.year,
         isoWeek |-> IF wd = 6 /\ opens THEN 1
                     ELSE IF wd = 6 THEN iso.week + 1 ELSE iso.week]
  <2> HIDE DEF c, wd, iso, f
  <2> QED  BY <1>6, <1>8 DEF WallCalendar!DayAfter, WallCalendar!OpensIsoYear
<1>10. /\ IsoWeekOfDays(d + 1).year = (IF wd = 6 /\ opens THEN iso.year + 1 ELSE iso.year)
       /\ IsoWeekOfDays(d + 1).week = (IF wd = 6 /\ opens THEN 1
                                       ELSE IF wd = 6 THEN iso.week + 1 ELSE iso.week)
  <2> HIDE DEF opens, wd, iso
  <2> QED  BY <1>5
<1> HIDE DEF c, e, wd, iso, newYear, month, day, opens, f, n
<1> QED  BY <1>2, <1>3, <1>4, <1>7, <1>9, <1>10 DEF f, n

-----------------------------------------------------------------------------
(* The inductive invariant: what is shown is the face of the date held.    *)
FaceIsShown == today \in Date /\ shown = Face(today)

LEMMA StepFromDate ==
  ASSUME NEW d
  PROVE  /\ AddDays(d, 1) = {d + 1} \cap Date
         /\ SubDays(d, 1) = {d - 1} \cap Date
BY DEF AddDays, SubDays, FromDaysChecked, Ok, Err, Date

LEMMA FaceStaysShown == WalkSpec => []FaceIsShown
<1>1. WalkInit => FaceIsShown
  BY WalkAssumption DEF WalkInit, FaceIsShown
<1>2. FaceIsShown /\ [WalkNext]_walkVars => FaceIsShown'
  <2> SUFFICES ASSUME FaceIsShown, [WalkNext]_walkVars PROVE FaceIsShown'
    OBVIOUS
  <2>1. CASE CheckedSucc
    BY <2>1, StepFromDate DEF CheckedSucc, Show, FaceIsShown
  <2>2. CASE CheckedPred
    BY <2>2, StepFromDate DEF CheckedPred, Show, FaceIsShown
  <2>3. CASE UNCHANGED walkVars
    BY <2>3 DEF walkVars, FaceIsShown
  <2> QED  BY <2>1, <2>2, <2>3 DEF WalkNext
<1> QED  BY <1>1, <1>2, PTL DEF WalkSpec

(* The calendar arithmetic is a wall calendar: date, weekday, day of the   *)
(* year and ISO week turn together, a day at a time, in both directions,   *)
(* through every turn of month, year and century.  Somebody has to have    *)
(* told it the faces of the dates it is started from.                      *)
THEOREM WalksAnOdometer ==
  ASSUME \A w \in Walks : Face(w.from) \in KnownFaces
  PROVE  WalkSpec => ImplementsOdometer
<1>1. WalkInit => WallCalendar!Init
  BY DEF WalkInit, WallCalendar!Init
<1>2. ASSUME FaceIsShown, FaceIsShown', [WalkNext]_walkVars
      PROVE  [WallCalendar!Forward \/ WallCalendar!Backward]_shown
  <2>1. today \in Int /\ today' \in Int
    BY <1>2, DateIsInt DEF FaceIsShown
  <2>2. CASE CheckedSucc
    <3>1. today' = today + 1
      BY <1>2, <2>2, StepFromDate DEF CheckedSucc, Show, FaceIsShown
    <3>2. shown' = WallCalendar!DayAfter(shown)
      BY <1>2, <2>1, <3>1, FaceTurns DEF FaceIsShown
    <3> QED  BY <3>2 DEF WallCalendar!Forward
  <2>3. CASE CheckedPred
    <3>1. today' = today - 1
      BY <1>2, <2>3, StepFromDate DEF CheckedPred, Show, FaceIsShown
    <3>2. today = today' + 1
      BY <2>1, <3>1, SMT
    <3>3. shown = WallCalendar!DayAfter(shown')
      BY <1>2, <2>1, <3>2, FaceTurns DEF FaceIsShown
    <3> QED  BY <3>3 DEF WallCalendar!Backward
  <2>4. CASE UNCHANGED walkVars
    BY <2>4 DEF walkVars
  <2> QED  BY <1>2, <2>2, <2>3, <2>4 DEF WalkNext
<1> QED  BY <1>1, <1>2, FaceStaysShown, PTL
         DEF WalkSpec, ImplementsOdometer, WallCalendar!Spec

(* The walks start from a face everybody knows: the epoch, which is also   *)
(* Date::default(), was Thursday 1 January 1970, in ISO week 1.            *)
THEOREM EpochFace ==
  Face(0) = [year |-> 1970, month |-> 1, day |-> 1, weekday |-> 3,
             ordinal |-> 1, isoYear |-> 1970, isoWeek |-> 1]
<1>1. DaysFromCivil(1970, 1, 1) = 0 /\ IsCivil(1970, 1, 1)
  <2>1. FloorDiv(1969, 400) = 4
    BY SMT DEF FloorDiv, TruncDiv, TruncRem, Magnitude
  <2>2. DaysBeforeYear(369) = 134774 /\ DaysBeforeMonth(10) = 306
    BY SMT DEF DaysBeforeYear, DaysBeforeMonth, TruncDiv, Magnitude
  <2>3. DaysFromCivil(1970, 1, 1) = 0
    BY <2>1, <2>2, SMT DEF DaysFromCivil, DaysPerEra, DaysEpoch
  <2> QED  BY <2>3, SMT DEF IsCivil, DaysInMonth
<1>2. CivilFromDays(0) = [year |-> 1970, month |-> 1, day |-> 1]
  <2>1. 1970 \in Int /\ 1 \in Int
    BY SMT
  <2> QED  BY <1>1, <2>1, CivilRoundTrips
<1>3. WeekdayOfDays(0) = 3
  <2>1. 0 \in Int /\ (0 + 3) % 7 = 3
    BY SMT
  <2> QED  BY <2>1, WeekdayIsRemainder
<1>4. DayOfYear(1970, 1, 1) = 1
  BY <1>1, SMT DEF DayOfYear
<1>5. IsoWeekOfDays(0) = [year |-> 1970, week |-> 1]
  <2>1. 0 \in Int /\ 1 \in Int /\ 3 \in Int /\ 1970 \in Int /\ 1970 + 1 \in Int
    BY SMT
  <2>2. /\ FirstDay(1970) = 0 /\ FirstDay(1970 + 1) = FirstDay(1970) + DaysInYear(1970)
        /\ DaysInYear(1970) \in {365, 366}
        /\ DaysFromCivil(1970, 1, 4) = FirstDay(1970) + 3
    BY <1>1, <2>1, DaysOfYear DEF FirstDay
  <2>3. WeekdayOfDays(3) = 6
    <3>1. (3 + 3) % 7 = 6
      BY SMT
    <3> QED  BY <2>1, <3>1, WeekdayIsRemainder
  <2>4. DaysFromCivil(1970, 1, 4) = 3
    BY <2>2, SMT
  <2>5. MondayOfWeekOne(1970) = -3
    BY <2>3, <2>4, SMT DEF MondayOfWeekOne
  <2>6. /\ FirstDay(1970) <= 0 - WeekdayOfDays(0) + 3
        /\ 0 - WeekdayOfDays(0) + 3 < FirstDay(1970 + 1)
        /\ 0 - WeekdayOfDays(0) = MondayOfWeekOne(1970) + (1 - 1) * 7
    BY <1>3, <2>2, <2>5, SMT
  <2> QED  BY <2>1, <2>6, IsoWeekOfMonday
<1> QED  BY <1>2, <1>3, <1>4, <1>5 DEF Face

=============================================================================
