---------------------------- MODULE StrftimeRead ----------------------------
(***************************************************************************)
(* A caller that formats a value and reads the text back with the same     *)
(* format string, which it makes longer by one directive at a time, in any *)
(* order and with any repetitions.  `pp` is the ParsedParts after the      *)
(* directives so far.  A directive that cannot read the text is not taken: *)
(* the whole parse would fail there.                                       *)
(*                                                                         *)
(* A kit is what the caller works with: directives, the values it formats, *)
(* and, when `mixed`, text that is not one value's: the next directives    *)
(* may read another value, one of some raw numbers, or no name at all.     *)
(***************************************************************************)
EXTENDS StrftimeOps

CONSTANT Kits   \* records of directives, sources, mixed and numbers

Directives ==
  DOMAIN Unsigned \cup {"Y", "G", "b", "a", "u", "w", "p", ".f", "z", ":z", "Z", "s"}
                  \cup {"F", "D", "R", "T", "r"}

OffsetSeconds == -86399..86399
FourDigits    == 0..9999

(* A civil value has no offset and no timestamp, a zoned one has both.     *)
IsSource(s) ==
  /\ s.date \in Date
  /\ s.time \in [hour : 0..23, minute : 0..59, second : 0..59, nanos : 0..10^9 - 1]
  /\ s.offset = {} \/ \E o \in s.offset : o \in OffsetSeconds /\ s.offset = {o}
  /\ s.timestamp = {UnixSeconds(s) - o : o \in s.offset}

ASSUME KitAssumption ==
  \A k \in Kits :
    /\ k.directives \subseteq Directives /\ k.numbers \subseteq Nat
    /\ \A s \in k.sources : IsSource(s)

VARIABLES kit, source, pp

vars == <<kit, source, pp>>

Init == kit \in Kits /\ source \in kit.sources /\ pp = Empty

ReadDirective ==
  /\ \E view \in {View(source)}, d \in kit.directives : pp' \in ReadBack(d, view, pp)
  /\ UNCHANGED <<kit, source>>

AnotherText ==
  /\ kit.mixed
  /\ \/ source' \in kit.sources /\ UNCHANGED pp
     \/ /\ \E d \in kit.directives \cap DOMAIN Unsigned, n \in kit.numbers :
             pp' \in Read(d, n, pp)
        /\ UNCHANGED source
     \/ /\ \E d \in kit.directives \cap DOMAIN Named : pp' = ReadNoName(d, pp)
        /\ UNCHANGED source
  /\ UNCHANGED kit

Next == ReadDirective \/ AnotherText

Spec == Init /\ [][Next]_vars

-----------------------------------------------------------------------------
(* A directive fails to read what it wrote in these cases only: a variable *)
(* fraction of a whole second is empty, a century has two digits and no    *)
(* sign, only UTC has a zone name, an offset without a colon has no        *)
(* seconds, and a civil value has neither an offset nor a timestamp.       *)
FailsToRead(d, s) ==
  \/ d = ".f" /\ s.time.nanos = 0
  \/ d = "C"  /\ CivilFromDays(s.date).year \notin FourDigits
  \/ d = "Z"  /\ s.offset # {0}
  \/ d = "z"  /\ ~\E o \in s.offset : o % 60 = 0
  \/ d = ":z" /\ s.offset = {}
  \/ d = "s"  /\ s.timestamp = {}

OnlyTheseFail ==
  \A view \in {View(source)}, d \in kit.directives :
    ReadBack(d, view, pp) = Err <=> FailsToRead(d, source)

(* The year, or the ISO year where a week of it is read, is known or was   *)
(* guessed from its last two digits.                                       *)
YearKnown(p) ==
  IF p.isoweek # {} THEN p.isoyear # {}
  ELSE p.year # {} \/ (p.century # {} /\ p.year2 # {})

YearGuessed(p) ==
  /\ ~YearKnown(p)
  /\ IF p.isoweek # {} THEN p.isoyear2 # {} ELSE p.year2 # {} /\ p.century = {}

(* An ISO week is found by its Monday, which must be a Date, too.          *)
DateDescribed(p) ==
  /\ p.timestamp = {}
  /\ p.isoweek # {} => source.date - WeekdayOfDays(source.date) \in Date
  /\ YearKnown(p) \/ YearGuessed(p)
  /\ IF \E f \in {"isoweek", "weeksun", "weekmon"} : p[f] # {}
     THEN p.weekday # {}
     ELSE p.ordinal # {} \/ (p.month # {} /\ p.day # {})

GuessedRight(p) ==
  LET year == IF p.isoweek # {} THEN IsoWeekOfDays(source.date).year
                                ELSE CivilFromDays(source.date).year
  IN  YearGuessed(p) => year \in 1969..2068

(* Whatever else is in the format and in whatever order, a text read back  *)
(* is the date it was written from or no date at all, and it is that date  *)
(* as soon as the fields describe one: week numbers, ordinals, and ISO     *)
(* weeks across the turn of the year invert what was written.              *)
DateIsRecovered ==
  ~kit.mixed /\ GuessedRight(pp) =>
    ToDate(pp) = IF DateDescribed(pp) THEN {source.date} ELSE Err

(* The time read back is the one written, with zero for what was not read; *)
(* the hour is needed, and on a 12-hour clock the half of the day too.     *)
TimeIsRecovered ==
  ~kit.mixed /\ pp.timestamp = {} =>
    ToTime(pp) =
      IF pp.hour = {} /\ (pp.hour12 = {} \/ pp.pm = {})
      THEN Err
      ELSE {[f \in DOMAIN Midnight |->
               IF f = "hour" \/ pp[f] # {} THEN source.time[f] ELSE 0]}

(* An instant read back is never after the one written and, but for the    *)
(* fields that were not read, the same; a timestamp drops the nanoseconds  *)
(* even where the format reads them.                                       *)
InstantIsRecovered ==
  ~kit.mixed /\ GuessedRight(pp) =>
    \A r \in ToZoned(pp) :
      LET written == UnixSeconds(source) - (CHOOSE o \in source.offset : TRUE)
      IN  /\ r.ticks[1] <= written /\ written - r.ticks[1] < 86400
          /\ r.ticks[2] \in {0, source.time.nanos}
          /\ pp.timestamp # {} => r.ticks = <<written, 0>>
          /\ pp.timestamp = {} => r.offset \in source.offset
          /\ pp.hour # {} /\ pp.minute # {} /\ pp.second # {} =>
               r.ticks[1] = written

(* On any text: a resolved date shows the fields it was resolved from, and *)
(* the weekday that was read with them.  Out-of-range fields are refused,  *)
(* never carried over into another month, week or year.                    *)
ResolvedDateShowsFields ==
  \A date \in ToDate(pp) :
    LET c == CivilFromDays(date)
    IN  /\ pp.weekday # {} => WeekdayOfDays(date) \in pp.weekday
        /\ IF pp.isoweek # {}
           THEN /\ IsoWeekOfDays(date).week \in pp.isoweek
                /\ IsoWeekOfDays(date).year \in IsoYear(pp)
           ELSE /\ c.year \in CombineYear(pp)
                /\ IF pp.weeksun # {} THEN WeekOfYear(date, Sunday) \in pp.weeksun
                   ELSE IF pp.weekmon # {} THEN WeekOfYear(date, Monday) \in pp.weekmon
                   ELSE IF pp.ordinal # {}
                     THEN DayOfYear(c.year, c.month, c.day) \in pp.ordinal
                   ELSE c.month \in pp.month /\ c.day \in pp.day

(* Reading more of the same value turns a date into no date only by a      *)
(* number that takes precedence without its companions: a week, a year of  *)
(* that week, or a timestamp.                                              *)
MoreIsNeverLess ==
  [][~kit.mixed /\ GuessedRight(pp) /\ ToDate(pp) # Err =>
       \A p \in {pp'} :
         GuessedRight(p) /\ ToDate(p) = Err =>
           \E f \in {"isoweek", "weeksun", "weekmon", "timestamp"} :
             pp[f] = {} /\ p[f] # {}]_vars

-----------------------------------------------------------------------------
(* What the table at the head of strftime.rs says: the directives are      *)
(* supported for formatting and for parsing.                               *)
DirectivesReadTheirText ==
  \A d \in kit.directives :
    ReadBack(d, View(source), pp) # Err

=============================================================================
