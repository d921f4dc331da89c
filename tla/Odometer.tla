------------------------------ MODULE Odometer ------------------------------
(***************************************************************************)
(* What a calendar promises, said without day counts, eras or division: a  *)
(* wall calendar that is turned one day at a time, by the rules one learns *)
(* at school.  Its face shows the date, the weekday, the day of the year   *)
(* and the ISO week; somebody has set it, to one of some known dates.      *)
(***************************************************************************)
EXTENDS Integers

CONSTANT KnownFaces

VARIABLE face

FebruaryDays(year) ==
  IF (4 * (year \div 4) = year /\ 100 * (year \div 100) # year)
       \/ 400 * (year \div 400) = year
  THEN 29 ELSE 28

MonthDays(year, month) ==
  <<31, FebruaryDays(year), 31, 30, 31, 30, 31, 31, 30, 31, 30, 31>>[month]

(* A week belongs to the year of its Thursday, so it is the first one of a *)
(* year when its Monday is no earlier than 29 December or no later than    *)
(* 4 January.                                                              *)
OpensIsoYear(month, day) ==
  \/ month = 12 /\ day >= 29
  \/ month = 1 /\ day <= 4

DayAfter(f) ==
  LET turn    == f.day = MonthDays(f.year, f.month)
      newYear == turn /\ f.month = 12
      year    == IF newYear THEN f.year + 1 ELSE f.year
      month   == IF newYear THEN 1 ELSE IF turn THEN f.month + 1 ELSE f.month
      day     == IF turn THEN 1 ELSE f.day + 1
      monday  == f.weekday = 6
      opens   == monday /\ OpensIsoYear(month, day)
  IN  [year    |-> year,
       month   |-> month,
       day     |-> day,
       weekday |-> IF monday THEN 0 ELSE f.weekday + 1,
       ordinal |-> IF newYear THEN 1 ELSE f.ordinal + 1,
       isoYear |-> IF opens THEN f.isoYear + 1 ELSE f.isoYear,
       isoWeek |-> IF opens THEN 1
                   ELSE IF monday THEN f.isoWeek + 1 ELSE f.isoWeek]

Init == face \in KnownFaces

Forward  == face' = DayAfter(face)
Backward == face = DayAfter(face')

Spec == Init /\ [][Forward \/ Backward]_face

=============================================================================
