----------------------------- MODULE DateCalls ------------------------------
(***************************************************************************)
(* A caller that holds one Date and keeps replacing it by the result of a  *)
(* successful call of its API, in any order: one action per method.  A     *)
(* method that returns Err leaves the caller with the date it had, so its  *)
(* action is disabled.                                                     *)
(*                                                                         *)
(* Month steps clamp the day, so a chain of them forgets where it started. *)
(* `anchor` and `moved` remember it: the date the current unbroken chain of *)
(* month steps started from, and the months it has moved since.            *)
(***************************************************************************)
EXTENDS DateOps

CONSTANTS
  DayCounts,      \* arguments of the day steps (u64)
  SignedDays,     \* arguments of saturating_add_days (i64)
  MonthCounts,    \* arguments of the month steps (u32)
  YearCounts,     \* arguments of checked_add_years (i32)
  DurationsNs,    \* arguments of the signed-duration steps (i128)
  Years,          \* arguments of with_year (i32)
  MonthNumbers,   \* arguments of with_month (u32)
  DayNumbers,     \* arguments of with_day (u32)
  ChainBound      \* a chain of month steps moves at most this far

ASSUME ArgumentAssumption ==
  /\ DayCounts \subseteq Nat /\ SignedDays \subseteq Int
  /\ MonthCounts \subseteq Nat /\ YearCounts \subseteq Int
  /\ DurationsNs \subseteq Int /\ Years \subseteq YearMin..YearMax
  /\ MonthNumbers \subseteq Nat /\ DayNumbers \subseteq Nat
  /\ ChainBound \in Nat

VARIABLES date, anchor, moved

vars == <<date, anchor, moved>>

Init == date \in Date /\ anchor = date /\ moved = 0

-----------------------------------------------------------------------------
(* The caller takes one of the results; a chain of month steps starts anew *)
(* or goes on.                                                             *)
Return(result) == date' \in result /\ anchor' = date' /\ moved' = 0

ReturnMonths(result, months) ==
  /\ Magnitude(moved + months) <= ChainBound
  /\ date' \in result
  /\ moved' = moved + months
  /\ UNCHANGED anchor

Succ == Return(AddDays(date, 1))
Pred == Return(SubDays(date, 1))

StepDays ==
  \/ \E n \in DayCounts  : Return(AddDays(date, n))
  \/ \E n \in DayCounts  : Return(SubDays(date, n))
  \/ \E n \in SignedDays : Return(Ok(SaturatingAddDays(date, n)))

StepDuration ==
  \/ \E ns \in DurationsNs : Return(AddSigned(date, ns))
  \/ \E ns \in DurationsNs : Return(SubSigned(date, ns))

StepMonths ==
  \/ \E n \in MonthCounts : ReturnMonths(AddMonths(date, n), n)
  \/ \E n \in MonthCounts : ReturnMonths(SubMonths(date, n), -n)
  \/ \E n \in YearCounts  : ReturnMonths(AddYears(date, n), n * 12)

(* Where the exact step has no representable result this is a jump to the  *)
(* limit, not a step by that many months.                                  *)
SaturateMonths ==
  \E n \in MonthCounts : Return(Ok(SaturatingAddMonths(date, n)))

Replace ==
  \/ \E y \in Years : Return(WithYear(date, y))
  \/ \E m \in MonthNumbers : Return(WithMonth(date, m))
  \/ \E d \in DayNumbers : Return(WithDay(date, d))

MonthEnd ==
  \/ Return(Ok(FirstDayOfMonth(date)))
  \/ Return(Ok(LastDayOfMonth(date)))

Search ==
  \E w \in Weekdays :
    \/ Return(NextOccurrence(date, w))
    \/ Return(PreviousOccurrence(date, w))
    \/ Return(NextOrSame(date, w))
    \/ Return(PreviousOrSame(date, w))

Next ==
  \/ Succ \/ Pred \/ StepDays \/ StepDuration
  \/ StepMonths \/ SaturateMonths
  \/ Replace \/ MonthEnd \/ Search

Spec == Init /\ [][Next]_vars

-----------------------------------------------------------------------------
(* The type invariant: no call leaves the width of a Date, and the chain   *)
(* stays within its bound.                                                 *)
TypeOK ==
  /\ date \in Date
  /\ anchor \in Date
  /\ moved \in -ChainBound..ChainBound

(* Clamping loses days and never months.  However the months were split    *)
(* over calls, forwards and back, the caller is in the month that one jump *)
(* of the same total reaches (checked_add_signed_months, date.rs), on a day *)
(* no later than that of the anchor and earlier only by the clamp.         *)
ChainKeepsMonth ==
  LET a == CivilFromDays(anchor)
      c == CivilFromDays(date)
  IN  /\ MonthIndex(c) = MonthIndex(a) + moved
      /\ c.day <= a.day
      /\ c.day >= Lesser(a.day, 28)

(* Where one jump of the same total succeeds, the chain is never ahead of  *)
(* it: going month by month drifts backwards only, and a chain that comes  *)
(* back (moved = 0) ends on or before the date it left.                    *)
ChainNeverAhead ==
  \A jump \in AddSignedMonths(anchor, moved) : date <= jump

(* Month steps preserve the order of dates, failures at the limits         *)
(* included: two neighbouring dates are never swapped by the same step, a  *)
(* step that leaves the range upwards from a date does so from every later *)
(* one, and downwards from every earlier one.                              *)
MonthStepsKeepOrder ==
  \A n \in MonthCounts \cup {-k : k \in MonthCounts} :
    date > DateMin =>
      \A before \in {AddSignedMonths(date - 1, n)},
         after  \in {AddSignedMonths(date, n)} :
        /\ \A b \in before, a \in after : b <= a
        /\ n >= 0 => (before = Err => after = Err)
        /\ n <= 0 => (after = Err => before = Err)

(* The weekday searches find the nearest matching date on their side and   *)
(* fail only when that date is not representable; searching forward and    *)
(* then back for the same weekday is previous_or_same.                     *)
SearchesFindNearest ==
  \A w \in Weekdays :
    /\ NextOccurrence(date, w)
         = {d \in date+1..date+7 : WeekdayOfDays(d) = w} \cap Date
    /\ PreviousOccurrence(date, w)
         = {d \in date-7..date-1 : WeekdayOfDays(d) = w} \cap Date
    /\ NextOrSame(date, w)
         = {d \in date..date+6 : WeekdayOfDays(d) = w} \cap Date
    /\ \A n \in NextOccurrence(date, w) :
         PreviousOccurrence(n, w) = PreviousOrSame(date, w)

(* Floored durations do not cancel: subtracting what was added comes back  *)
(* to the date for whole days and to the day before for anything else      *)
(* (checked_sub_signed negates, then floors).                              *)
DurationsDriftBackwards ==
  \A ns \in DurationsNs : \A d \in AddSigned(date, ns) :
    SubSigned(d, ns) = IF ns % NsPerDay = 0 THEN {date} ELSE {date - 1} \cap Date

(* What the accessors report, the constructors take back: the date is the  *)
(* only one with its year, month and day, with its ordinal, with its day   *)
(* of the Common Era, and, unless its week starts before the first         *)
(* representable Monday, with its ISO week date (from_isoywd goes through  *)
(* that Monday and fails when it has none).                                *)
AccessorsIdentifyDate ==
  \A c \in {CivilFromDays(date)}, iso \in {IsoWeekOfDays(date)} :
    LET monday == date - WeekdayOfDays(date)
    IN  /\ FromYmd(c.year, c.month, c.day) = {date}
        /\ FromYo(c.year, DayOfYear(c.year, c.month, c.day)) = {date}
        /\ FromNumDaysFromCe(NumDaysFromCe(date)) = {date}
        /\ FromIsoYwd(iso.year, iso.week, WeekdayOfDays(date))
             = IF monday < DateMin THEN Err ELSE {date}

=============================================================================
