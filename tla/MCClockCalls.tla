---------------------------- MODULE MCClockCalls ----------------------------
(***************************************************************************)
(* ClockCalls on a day of 2 hours of 3 minutes of 2 seconds of 4           *)
(* nanoseconds, 48 in all.  The last carry an i64 holds is 3 days.         *)
(***************************************************************************)
EXTENDS ClockCalls

MCInstMin == -256
MCInstMax == 255
MCLongMin == -4

MCDurations == {MCInstMin, MCInstMax, -150, -47, -5, -1, 1, 7, 48, 100, 240}

=============================================================================
