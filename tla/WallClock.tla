----------------------------- MODULE WallClock ------------------------------
(***************************************************************************)
(* What a zoned instant promises its reader: a clock and a calendar on a   *)
(* wall, and a label that says how far east of UTC the wall stands.  Time  *)
(* passes, the reader carries the clock to another wall or repaints the    *)
(* label, and turns the calendar by whole months; nothing is said of       *)
(* instants, widths or anchoring.                                          *)
(***************************************************************************)
EXTENDS Calendar

CONSTANTS
  NsPerDay, NsPerSec,
  Labels,         \* the offsets a wall can have, in seconds
  Elapses,        \* the durations that may pass in one step
  MonthTurns,     \* the months the calendar may be turned in one step
  Ends            \* the instants at which time can stand still

VARIABLES wall, label   \* nanoseconds shown since the epoch, seconds east

Shown(ns) == CivilFromDays(ns \div NsPerDay)
TimeOf(ns) == ns % NsPerDay

Init == wall = 0 /\ label = 0

Elapse == label' = label /\ \E ns \in Elapses : wall' = wall + ns

StandStill == label' = label /\ wall' - label * NsPerSec \in Ends

Carry == label' \in Labels /\ wall' = wall + (label' - label) * NsPerSec

Repaint == label' \in Labels /\ wall' = wall

(* The same time of day so many months away, on the same day of the month  *)
(* or on the last one when the month is too short.                         *)
TurnMonths ==
  /\ label' = label
  /\ TimeOf(wall') = TimeOf(wall)
  /\ \E from \in {Shown(wall)}, to \in {Shown(wall')} :
       /\ 12 * (to.year - from.year) + to.month - from.month \in MonthTurns
       /\ \/ to.day = from.day
          \/ to.day < from.day /\ to.day = DaysInMonth(to.year, to.month)

(* The reader sets the time of the day, or another day of the same month.  *)
SetTime == label' = label /\ wall' \div NsPerDay = wall \div NsPerDay

SetDay ==
  /\ label' = label
  /\ TimeOf(wall') = TimeOf(wall)
  /\ \E from \in {Shown(wall)}, to \in {Shown(wall')} :
       to.year = from.year /\ to.month = from.month

Next ==
  \/ Elapse \/ StandStill \/ Carry \/ Repaint
  \/ SetTime \/ SetDay \/ TurnMonths

Spec == Init /\ [][Next]_<<wall, label>>

=============================================================================
