-------------------------- MODULE MCDurationCalls ---------------------------
(***************************************************************************)
(* DurationCalls with 2, 3, 2, 2, 2, 4 and 7 of a unit in the next one, an *)
(* i64 of -4..3, and an i128 that holds as many weeks.                     *)
(***************************************************************************)
EXTENDS DurationCalls

MCInstMin == -8192
MCInstMax == 8191
MCLongMin == -4

MCSpans   == {MCInstMin, MCInstMax, -97, -12, 0, 1, 25, 1365}
MCCounts  == {MCLongMin, -1, 0, 3}
MCFactors == {MCInstMin, -7, -1, 0, 1, 2, 50}

=============================================================================
