--------------------------- MODULE MCStrftimeRead ---------------------------
(***************************************************************************)
(* StrftimeRead with the dates where calendars disagree and two-digit      *)
(* years wrap, the first Date, whose ISO week starts before it, times on   *)
(* both sides of noon and midnight, and offsets with a half hour, with     *)
(* seconds, and none.                                                      *)
(***************************************************************************)
EXTENDS StrftimeRead

Time(h, m, s, ns) == [hour |-> h, minute |-> m, second |-> s, nanos |-> ns]

OnDate(days) ==
  [date |-> days, time |-> Midnight, offset |-> {}, timestamp |-> {}]

At(days, time, offset) ==
  LET local == [date |-> days, time |-> time]
  IN  [date |-> days, time |-> time, offset |-> {offset},
       timestamp |-> {UnixSeconds(local) - offset}]

Ymd(y, m, d) == OnDate(DaysFromCivil(y, m, d))

MCDateMin == -1000000
MCDateMax == 5000000

DateKit ==
  [directives |-> {"C", "y", "b", "d", "j", "G", "g", "V", "u", "w", "U", "W", "F", "D"},
   sources    |-> {Ymd(1968, 12, 31), Ymd(1969, 1, 1), Ymd(2000, 2, 29),
                   Ymd(2023, 1, 1), Ymd(2024, 12, 30), Ymd(-44, 3, 15),
                   Ymd(12345, 6, 7), OnDate(MCDateMin)},
   mixed |-> FALSE, numbers |-> {}]

TimeKit ==
  [directives |-> {"F", "H", "I", "p", "M", "S", "f", ".f", "z", ":z", "Z", "s",
                   "R", "T", "r"},
   sources    |-> {At(-1, Time(23, 59, 59, 5), 0), At(0, Time(0, 0, 0, 0), 19800),
                   At(365, Time(12, 30, 1, 7), -1800), At(365, Time(0, 5, 0, 7), 3661),
                   [OnDate(60) EXCEPT !.time = Time(13, 0, 59, 999999999)]},
   mixed |-> FALSE, numbers |-> {}]

MonthKit ==
  [directives |-> {"Y", "m", "d", "j", "u"},
   sources    |-> {Ymd(2024, 2, 29), Ymd(2023, 12, 31)},
   mixed |-> TRUE, numbers |-> {0, 13, 30}]

WeekKit ==
  [directives |-> {"Y", "G", "U", "W", "V", "a"},
   sources    |-> {Ymd(2020, 12, 31), Ymd(2022, 1, 1)},
   mixed |-> TRUE, numbers |-> {0, 53}]

MCKits == {DateKit, TimeKit, MonthKit, WeekKit}

(* A time of day in whole seconds and the format "%H:%M:%S%.f".            *)
MCFractionKits ==
  {[directives |-> {"T", ".f"},
    sources |-> {At(0, Time(12, 30, 1, 7), 0), At(0, Time(12, 30, 1, 0), 0)},
    mixed |-> FALSE, numbers |-> {}]}

=============================================================================
