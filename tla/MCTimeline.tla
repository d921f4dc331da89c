----------------------------- MODULE MCTimeline -----------------------------
(***************************************************************************)
(* Timeline with six nanoseconds in a day of two seconds, dates from       *)
(* 1969-12-20 to 1971-01-06, and the widths of the code in their order:    *)
(* dates within an i64 of seconds, i64 days within an i128 of nanoseconds. *)
(***************************************************************************)
EXTENDS Timeline

MCDateMin == -12
MCDateMax == 370
MCLongMin == -800
MCLongMax == 799
MCInstMin == -4950
MCInstMax == 4949

MCDurations   == {MCInstMin, MCInstMax, -401, -8, -1, 0, 1, 6, 200}
MCDayCounts   == {0, 1, 31, 800}
MCMonthCounts == {0, 1, 11}
MCYearCounts  == {-1, 1}
MCMarks       == {MCInstMin, -14, 0, 2215, MCInstMax}

=============================================================================
