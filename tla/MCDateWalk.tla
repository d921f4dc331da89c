----------------------------- MODULE MCDateWalk -----------------------------
(***************************************************************************)
(* DateWalk over the 146,097 days of a whole Gregorian cycle around the    *)
(* epoch, 1769 to 2170, and over the turn of year 0.                       *)
(***************************************************************************)
EXTENDS DateWalk

MCDateMin == -1000000
MCDateMax == 1000000
MCYearMin == -10000
MCYearMax == 10000

MCWalks == {[from |-> 0, reach |-> 73050], [from |-> -719526, reach |-> 1000]}

(* Thursday 1970-01-01, and Monday 0000-01-03, as 2000-01-03 was a Monday. *)
MCKnownFaces ==
  {[year |-> 1970, month |-> 1, day |-> 1, weekday |-> 3,
    ordinal |-> 1, isoYear |-> 1970, isoWeek |-> 1],
   [year |-> 0, month |-> 1, day |-> 3, weekday |-> 0,
    ordinal |-> 3, isoYear |-> 0, isoWeek |-> 1]}

=============================================================================
