------------------------------ MODULE DateWalk ------------------------------
(***************************************************************************)
(* A caller that starts at a date whose face is known, such as the epoch,  *)
(* the default Date, and stays within its reach.  It only takes            *)
(* checked_succ and checked_pred (date.rs).  Everything the accessors show *)
(* on the way is the face of an Odometer.                                  *)
(***************************************************************************)
EXTENDS DateOps

CONSTANTS
  Walks,          \* records: the date it starts from and its reach in days
  KnownFaces      \* the faces of the dates the walks start from

(* The caller starts from a date; every step checks that it stays one.     *)
ASSUME WalkAssumption == \A w \in Walks : w.from \in Date

VARIABLES walk, today, shown

walkVars == <<walk, today, shown>>

(* Date::parts, weekday, day_of_year and iso_week of one date.             *)
Face(d) ==
  LET c   == CivilFromDays(d)
      iso == IsoWeekOfDays(d)
  IN  [year    |-> c.year,
       month   |-> c.month,
       day     |-> c.day,
       weekday |-> WeekdayOfDays(d),
       ordinal |-> DayOfYear(c.year, c.month, c.day),
       isoYear |-> iso.year,
       isoWeek |-> iso.week]

WalkInit == walk \in Walks /\ today = walk.from /\ shown = Face(today)

(* The caller takes the result and reads every accessor of it.             *)
Show(result) ==
  \E d \in result : /\ Magnitude(d - walk.from) <= walk.reach
                    /\ today' = d
                    /\ shown' = Face(d)
                    /\ UNCHANGED walk

CheckedSucc == Show(AddDays(today, 1))
CheckedPred == Show(SubDays(today, 1))

WalkNext == CheckedSucc \/ CheckedPred

WalkSpec == WalkInit /\ [][WalkNext]_walkVars

-----------------------------------------------------------------------------
WallCalendar == INSTANCE Odometer WITH face <- shown

(* The arithmetic of calendar.rs implements the odometer: from every known *)
(* date, in both directions, succ and pred turn date, weekday, ordinal and *)
(* ISO week together.                                                      *)
ImplementsOdometer == WallCalendar!Spec

=============================================================================
