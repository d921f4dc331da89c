---------------------------- MODULE StrftimeOps -----------------------------
(***************************************************************************)
(* The strftime engine (strftime.rs) at the level of fields: what each     *)
(* directive writes of a date, a time and an offset, what the same         *)
(* directive reads back into ParsedParts, and how ParsedParts are resolved *)
(* to a date, a time or an instant.                                        *)
(*                                                                         *)
(* Written text is abstracted to the number or the name in it, between     *)
(* literals that are neither digits nor letters nor signs.  An Option, a   *)
(* Result and "wrote nothing" are sets with at most one element; where the *)
(* code tells a missing field from an error only by its message, both are  *)
(* the empty set.  A time of day is the record of its four fields, an      *)
(* instant the pair of its seconds and its nanoseconds.                    *)
(***************************************************************************)
EXTENDS DateOps, Sequences

OptionOr(option, v) == IF option = {} THEN {v} ELSE option

(* The fields of ParsedParts, all of them options.                         *)
Fields ==
  {"year", "century", "year2", "month", "day", "ordinal",
   "isoyear", "isoyear2", "isoweek", "weekday", "weeksun", "weekmon",
   "hour", "hour12", "pm", "minute", "second", "nanos",
   "offset", "timestamp"}

Empty == [f \in Fields |-> {}]

-----------------------------------------------------------------------------
(* Weeks of the year: week 1 starts on the first Sunday or Monday, week 0  *)
(* holds the days before it.  `start` is the index of that weekday.        *)
DaysSince(start, days) == TruncRem(WeekdayOfDays(days) + (7 - start), 7)

FirstOfYear(year, start) ==
  LET jan1 == DaysFromCivil(year, 1, 1)
  IN  jan1 + TruncRem(7 - DaysSince(start, jan1), 7)

WeekOfYear(date, start) ==
  LET first == FirstOfYear(CivilFromDays(date).year, start)
      week  == TruncDiv(date - DaysSince(start, date) - first, 7) + 1
  IN  IF week > 0 THEN week ELSE 0

Sunday == 6

(* Mutant: a year that starts on the weekday loses its first week.         *)
DateFromWeekLate(year, week, weekday, start) ==
  LET jan1 == DaysFromCivil(year, 1, 1)
      days == jan1 + (7 - DaysSince(start, jan1))
                + (week - 1) * 7 + TruncRem(weekday + (7 - start), 7)
  IN  {d \in FromDaysChecked(days) : week <= 53 /\ CivilFromDays(d).year = year}

DateFromWeek(year, week, weekday, start) ==
  LET days == FirstOfYear(year, start)
                + (week - 1) * 7 + TruncRem(weekday + (7 - start), 7)
  IN  {d \in FromDaysChecked(days) : week <= 53 /\ CivilFromDays(d).year = year}

-----------------------------------------------------------------------------
Hour12(hour) == IF TruncRem(hour, 12) = 0 THEN 12 ELSE TruncRem(hour, 12)

(* What the accessors show of a source: a date, a time, the offset (none   *)
(* for a civil value) and the seconds since the epoch (none either).       *)
View(s) ==
  LET c   == CivilFromDays(s.date)
      iso == IsoWeekOfDays(s.date)
  IN  [year      |-> c.year,
       month     |-> c.month,
       day       |-> c.day,
       ordinal   |-> DayOfYear(c.year, c.month, c.day),
       isoyear   |-> iso.year,
       isoweek   |-> iso.week,
       weekday   |-> WeekdayOfDays(s.date),
       weeksun   |-> WeekOfYear(s.date, Sunday),
       weekmon   |-> WeekOfYear(s.date, Monday),
       time      |-> s.time,
       offset    |-> s.offset,
       timestamp |-> s.timestamp]

(* What a directive writes of it.                                          *)
Written(directive, view) ==
  CASE directive = "Y"   -> {view.year}
    [] directive = "C"   -> {EuclidDiv(view.year, 100)}
    [] directive = "y"   -> {EuclidRem(view.year, 100)}
    [] directive \in {"m", "b"} -> {view.month}
    [] directive = "d"   -> {view.day}
    [] directive = "j"   -> {view.ordinal}
    [] directive = "G"   -> {view.isoyear}
    [] directive = "g"   -> {EuclidRem(view.isoyear, 100)}
    [] directive = "V"   -> {view.isoweek}
    [] directive = "a"   -> {view.weekday}
    [] directive = "u"   -> {view.weekday + 1}
    [] directive = "w"   -> {TruncRem(view.weekday + 1, 7)}
    [] directive = "U"   -> {view.weeksun}
    [] directive = "W"   -> {view.weekmon}
    [] directive = "H"   -> {view.time.hour}
    [] directive = "I"   -> {Hour12(view.time.hour)}
    [] directive = "p"   -> {view.time.hour >= 12}
    [] directive = "M"   -> {view.time.minute}
    [] directive = "S"   -> {view.time.second}
    [] directive = "f"   -> {view.time.nanos}
    [] directive = ".f"  -> {view.time.nanos} \ {0}
    [] directive \in {"z", ":z"} -> view.offset
    [] directive = "Z"   -> view.offset \cap {0}
    [] directive = "s"   -> view.timestamp

-----------------------------------------------------------------------------
(* The directives that read an unsigned number of up to so many digits, and *)
(* the field it goes to.                                                   *)
Unsigned ==
  [C |-> <<"century", 2>>, y |-> <<"year2", 2>>,   m |-> <<"month", 2>>,
   d |-> <<"day", 2>>,     j |-> <<"ordinal", 3>>, g |-> <<"isoyear2", 2>>,
   V |-> <<"isoweek", 2>>, U |-> <<"weeksun", 2>>, W |-> <<"weekmon", 2>>,
   H |-> <<"hour", 2>>,    I |-> <<"hour12", 2>>,  M |-> <<"minute", 2>>,
   S |-> <<"second", 2>>,  f |-> <<"nanos", 9>>]

(* Mutant: the Sunday of `%w` is the seventh day.                          *)
WeekdayFromSundayIso(n) == IF n \in 1..7 THEN {n - 1} ELSE {}

WeekdayFromSunday(n) ==
  IF n \in 0..6 THEN {IF n = 0 THEN Sunday ELSE n - 1} ELSE {}

Put(pp, field, option) == {[pp EXCEPT ![field] = {v}] : v \in option}

(* What the directive makes of the text `v`; the years read a sign and     *)
(* nine digits, the timestamp a sign and as many digits as any instant with *)
(* a civil date has.  `%z` reads the seconds of an offset after a colon    *)
(* only, and none is written.                                              *)
Read(directive, v, pp) ==
  IF directive \in DOMAIN Unsigned
  THEN LET to == Unsigned[directive]
       IN  Put(pp, to[1], {n \in {v} : n \in 0..10^to[2] - 1})
  ELSE CASE directive = "Y"   -> Put(pp, "year", {v})
         [] directive = "G"   -> Put(pp, "isoyear", {v})
         [] directive = "b"   -> Put(pp, "month", {v})
         [] directive = "a"   -> Put(pp, "weekday", {v})
         [] directive = "u"   -> Put(pp, "weekday", {n - 1 : n \in {v} \cap 1..7})
         [] directive = "w"   -> Put(pp, "weekday", WeekdayFromSunday(v))
         [] directive = "p"   -> Put(pp, "pm", {v})
         [] directive = ".f"  -> Put(pp, "nanos", {v})
         [] directive = "z"   -> Put(pp, "offset", {n \in {v} : n % 60 = 0})
         [] directive \in {":z", "Z"} -> Put(pp, "offset", {v})
         [] directive = "s"   -> Put(pp, "timestamp", {v})

(* A name directive over no letters takes the field away without an error.  *)
Named == [a |-> "weekday", b |-> "month"]

ReadNoName(directive, pp) == [pp EXCEPT ![Named[directive]] = {}]

(* A directive over the text it wrote.                                     *)
ReadOne(directive, view, pp) ==
  UNION {Read(directive, v, pp) : v \in Written(directive, view)}

(* The composite directives stand for others with literals in between.     *)
Composite ==
  [F |-> <<"Y", "m", "d">>, D |-> <<"m", "d", "y">>,
   R |-> <<"H", "M">>, T |-> <<"H", "M", "S">>, r |-> <<"I", "M", "S", "p">>]

Steps(directive) ==
  IF directive \in DOMAIN Composite THEN Composite[directive] ELSE <<directive>>

ReadStep(steps, i, view, pp) ==
  IF i \in DOMAIN steps THEN ReadOne(steps[i], view, pp) ELSE {pp}

(* None of them is made of more than four.                                 *)
ReadBack(directive, view, pp) ==
  LET steps  == Steps(directive)
      first  == ReadStep(steps, 1, view, pp)
      second == UNION {ReadStep(steps, 2, view, p) : p \in first}
      third  == UNION {ReadStep(steps, 3, view, p) : p \in second}
  IN  UNION {ReadStep(steps, 4, view, p) : p \in third}

-----------------------------------------------------------------------------
(* Resolution.                                                             *)
Inferred(y2) == IF y2 >= 69 THEN 1900 + y2 ELSE 2000 + y2

(* Mutant: a century of its own is ignored.                                *)
CombineYearInferring(pp) ==
  IF pp.year # {} THEN pp.year ELSE {Inferred(y2) : y2 \in pp.year2}

CombineYear(pp) ==
  IF pp.year # {} THEN pp.year
  ELSE IF pp.century # {} THEN {c * 100 + y2 : c \in pp.century, y2 \in pp.year2}
  ELSE {Inferred(y2) : y2 \in pp.year2}

IsoYear(pp) ==
  IF pp.isoyear # {} THEN pp.isoyear ELSE {Inferred(y2) : y2 \in pp.isoyear2}

(* Mutant: noon and midnight are not told from the other hours.            *)
ResolveHourPlain(pp) ==
  IF pp.hour # {} THEN pp.hour
  ELSE {IF pm THEN h + 12 ELSE h : h \in pp.hour12, pm \in pp.pm}

ResolveHour(pp) ==
  IF pp.hour # {} THEN pp.hour
  ELSE {IF pm THEN IF h = 12 THEN 12 ELSE h + 12
              ELSE IF h = 12 THEN 0 ELSE h : h \in pp.hour12, pm \in pp.pm}

HasAnyTime(pp) ==
  \E f \in {"hour", "hour12", "minute", "second", "nanos", "pm"} : pp[f] # {}

(* Mutant: the weekday is read and forgotten.                              *)
CheckWeekdayNever(weekday, result) == result

CheckWeekday(weekday, result) ==
  {d \in result : weekday # {} => WeekdayOfDays(d) \in weekday}

(* An ISO week comes first, then a week of the year, then the ordinal, then *)
(* month and day; what is read for a later one is not looked at.           *)
ToDate(pp) ==
  IF pp.timestamp # {} THEN Err
  ELSE IF pp.isoweek # {} THEN
    UNION {{d \in FromIsoYwd(y, w, wd) : IsoWeekOfDays(d) = [year |-> y, week |-> w]} :
             y \in IsoYear(pp), w \in pp.isoweek, wd \in pp.weekday}
  ELSE IF pp.weeksun # {} THEN
    UNION {DateFromWeek(y, w, wd, Sunday) :
             y \in CombineYear(pp), w \in pp.weeksun, wd \in pp.weekday}
  ELSE IF pp.weekmon # {} THEN
    UNION {DateFromWeek(y, w, wd, Monday) :
             y \in CombineYear(pp), w \in pp.weekmon, wd \in pp.weekday}
  ELSE IF pp.ordinal # {} THEN
    CheckWeekday(pp.weekday,
                 UNION {FromYo(y, n) : y \in CombineYear(pp), n \in pp.ordinal})
  ELSE
    CheckWeekday(pp.weekday,
                 UNION {FromYmd(y, m, d) :
                          y \in CombineYear(pp), m \in pp.month, d \in pp.day})

Midnight == [hour |-> 0, minute |-> 0, second |-> 0, nanos |-> 0]

ToTime(pp) ==
  IF pp.timestamp # {} THEN Err
  ELSE {t \in [hour   : ResolveHour(pp),
               minute : OptionOr(pp.minute, 0),
               second : OptionOr(pp.second, 0),
               nanos  : OptionOr(pp.nanos, 0)] :
          t.hour < 24 /\ t.minute < 60 /\ t.second < 60}

ToCivil(pp) ==
  [date : ToDate(pp),
   time : IF HasAnyTime(pp) THEN ToTime(pp) ELSE {Midnight}]

UnixSeconds(c) ==
  c.date * 86400 + c.time.hour * 3600 + c.time.minute * 60 + c.time.second

(* Mutant: an offset east of UTC is added.                                 *)
ToTicksMirrored(pp) ==
  IF pp.timestamp # {}
  THEN {<<ts, 0>> : ts \in pp.timestamp}
  ELSE {<<UnixSeconds(c) + o, c.time.nanos>> : c \in ToCivil(pp), o \in pp.offset}

ToTicks(pp) ==
  IF pp.timestamp # {}
  THEN {<<ts, 0>> : ts \in pp.timestamp}
  ELSE {<<UnixSeconds(c) - o, c.time.nanos>> : c \in ToCivil(pp), o \in pp.offset}

ToZoned(pp) ==
  [ticks : ToTicks(pp), offset : OptionOr(pp.offset, 0)]

=============================================================================
