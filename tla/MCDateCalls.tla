---------------------------- MODULE MCDateCalls -----------------------------
(***************************************************************************)
(* DateCalls on a window of days around the leap day of 2000, with both of *)
(* its limits in the middle of a month and of a week.                      *)
(***************************************************************************)
EXTENDS DateCalls

MCDayCounts    == {0, 366, 1000}
MCSignedDays   == {-600, -31, 600}
MCMonthCounts  == {0, 1, 11}
MCYearCounts   == {-1, 1}
MCDurations    == {-5, -4, 0, 3}
MCYears        == {1999, 2001}
MCMonthNumbers == {0, 2, 12, 13}
MCDayNumbers   == {0, 1, 30, 32}

=============================================================================
