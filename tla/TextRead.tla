------------------------------ MODULE TextRead ------------------------------
(***************************************************************************)
(* The texts of the crate, written and read: a caller writes a value in    *)
(* the form of its kind and reads it again; somebody edits the text, and   *)
(* that is read too.                                                       *)
(*                                                                         *)
(* What a caller works with is a task: the kind, the value, the digits of  *)
(* a fraction, the items a format is made of, and for the edits a kit of   *)
(* tokens and how many edits there are at most.  The value of a format is  *)
(* its View: the fields are computed before anything is written.           *)
(***************************************************************************)
EXTENDS StrftimeText

CONSTANTS Tasks, MaxItems

(* The values a kind has, and those shown with a fraction of the caller's. *)
Fractional == {"time", "civil", "ticks", "zoned"}

ValuesOf(kind) ==
  CASE kind = "date"                   -> Date
    [] kind = "time"                   -> TimesOfDay
    [] kind = "civil"                  -> [date : Date, time : TimesOfDay]
    [] kind \in {"ticks", "mail ticks"} -> Instants
    [] kind \in {"zoned", "mail"}      -> [ticks : Instants, offset : Offsets]
    [] kind \in {"offset", "zone"}     -> Offsets

TextKinds == Fractional \cup {"date", "offset", "zone", "mail", "mail ticks"}

ASSUME TaskAssumption ==
  \A k \in Tasks :
    k.kind # "strftime" =>
      /\ k.kind \in TextKinds /\ k.value \in ValuesOf(k.kind)
      /\ k.kind \in Fractional => k.fraction \in DOMAIN FractionDigits

(* A year of a Date has seven digits in the code; a text takes nine.       *)
ASSUME YearDigitsAssumption ==
  \A d \in {DateMin, DateMax} : Magnitude(CivilFromDays(d).year) < 10^9

VARIABLES
  task, format,
  text,         \* what was written, and edited since
  written,      \* whether it was
  edits,        \* how many times it was edited
  result        \* what was read of it

vars == <<task, format, text, written, edits, result>>

Write(k, f) ==
  LET v == k.value
  IN  CASE k.kind = "date"   -> WriteDate(v)
        [] k.kind = "time"   -> WriteTime(v, k.fraction)
        [] k.kind = "civil"  -> WriteCivil(v, k.fraction)
        [] k.kind = "ticks"  -> WriteTicks(v, k.fraction)
        [] k.kind = "zoned"  -> WriteZoned(v, k.fraction)
        [] k.kind = "offset" -> WriteOffset(v)
        [] k.kind = "zone"   -> WriteZone(v)
        [] k.kind = "mail"   -> WriteZoned2822(v)
        [] k.kind = "mail ticks" -> WriteTicks2822(v)
        [] k.kind = "strftime"   -> WriteItems(Items(f), v)

Read(k, f, t) ==
  CASE k.kind = "date"   -> ReadDate(t)
    [] k.kind = "time"   -> ReadTime(t)
    [] k.kind = "civil"  -> ReadCivil(t)
    [] k.kind = "ticks"  -> ReadTicks(t)
    [] k.kind = "zoned"  -> ReadZoned(t)
    [] k.kind = "offset" -> ReadOffset(t)
    [] k.kind = "zone"   -> ReadZone(t)
    [] k.kind = "mail"   -> ReadZoned2822(t)
    [] k.kind = "mail ticks" -> ReadTicks2822(t)
    [] k.kind = "strftime"   -> ReadItems(Items(f), t)

Init ==
  /\ task \in Tasks
  /\ format = <<>> /\ text = <<>> /\ written = FALSE /\ edits = 0 /\ result = {}

WriteText ==
  /\ ~written /\ written' = TRUE
  /\ format' \in BoundedSeq(task.items, MaxItems)
  /\ text'   = Write(task, format')
  /\ result' = Read(task, format', text')
  /\ UNCHANGED <<task, edits>>

Edited(t, kit) ==
  {RemoveAt(t, i) : i \in DOMAIN t}
    \cup {[t EXCEPT ![i] = token] : i \in DOMAIN t, token \in kit}
    \cup {InsertAt(t, i, token) : i \in 1..Len(t) + 1, token \in kit}

EditText ==
  /\ written /\ edits < task.edits
  /\ text'   \in Edited(text, task.kit)
  /\ result' = Read(task, format, text')
  /\ edits'  = edits + 1
  /\ UNCHANGED <<task, format, written>>

Next == WriteText \/ EditText

Spec == Init /\ [][Next]_vars

-----------------------------------------------------------------------------
(* What was written.                                                       *)
Truncated(nanos, n) == nanos - (nanos % 10^(9 - n))

(* A time of day or an instant, to the digits that a fraction shows.      *)
Cut(t, fraction) == [t EXCEPT !.nanos = Truncated(@, FractionDigits[fraction])]

(* What is read of an instant that was written with a civil date, if there *)
(* is one, and what an RFC 2822 date has room for.                         *)
Shown(z, read) == IF CivilAt(z.ticks, z.offset) = Err THEN Err ELSE read

MailYears == 0..9999

Mailable(z) ==
  /\ z.offset % 60 = 0
  /\ \A c \in CivilAt(z.ticks, z.offset) : CivilFromDays(c.date).year \in MailYears

AtUtc(t) == [ticks |-> t, offset |-> 0]

Expected(k) ==
  LET v == k.value
  IN  CASE k.kind \in {"date", "offset", "zone"} -> Ok(v)
        [] k.kind = "time"  -> Ok(Cut(v, k.fraction))
        [] k.kind = "civil" -> Ok([v EXCEPT !.time = Cut(@, k.fraction)])
        [] k.kind = "ticks" -> Shown(AtUtc(v), Ok(Cut(v, k.fraction)))
        [] k.kind = "zoned" -> Shown(v, Ok([v EXCEPT !.ticks = Cut(@, k.fraction)]))
        [] k.kind = "mail"  ->
             IF Mailable(v) THEN Shown(v, Ok([v EXCEPT !.ticks.nanos = 0])) ELSE Err
        [] k.kind = "mail ticks" ->
             IF Mailable(AtUtc(v)) THEN Shown(AtUtc(v), Ok([v EXCEPT !.nanos = 0])) ELSE Err

(* FromHms takes apart what AsHms put together, but within an hour west of  *)
(* UTC: the sign is the hours', and there are none.                        *)
WithinHour(offset) == -3600 < offset /\ offset < 0

OffsetPartsInvert ==
  task.kind = "offset" =>
    LET hms == AsHms(task.value)
    IN  FromHms(hms.hours, hms.minutes, hms.seconds) =
          {IF WithinHour(task.value) THEN -task.value ELSE task.value}

(* Each writer is inverted by its reader, cut to the fraction it shows, for *)
(* negative years, years of more than four digits and offsets with seconds *)
(* too.  The exceptions are exact: an instant without a civil date is      *)
(* written as a number that nothing reads, and an RFC 2822 date has a year *)
(* of four digits and an offset of whole minutes.  The parts of an offset  *)
(* read back with an exception too.                                        *)
WritersReadBack ==
  /\ written /\ edits = 0 /\ task.kind # "strftime" => result = Expected(task)
  /\ OffsetPartsInvert

-----------------------------------------------------------------------------
(* The grammar, on a text with one digit per token.                        *)
Spell(t) ==
  LET Digit(token, i) ==
        Digits((token.value \div 10^(token.digits - i)) % 10, 1)
      One(token) == IF IsDigits(token) THEN [i \in 1..token.digits |-> Digit(token, i)]
                    ELSE <<token>>
  IN  FlattenSeq([i \in DOMAIN t |-> One(t[i])])

Shape(t)    == [i \in DOMAIN t |-> t[i].byte]
Run(n)      == [i \in 1..n |-> "9"]
NumberOf(t) == FoldLeft(LAMBDA n, token : n * 10 + token.value, 0, t)

Upto(t, i) == SubSeq(t, 1, i)
From(t, i) == SubSeq(t, i, Len(t))

DateShapes(longest) ==
  {sign \o Run(k) \o <<"-", "9", "9", "-", "9", "9">> :
     sign \in {<<>>, <<"+">>, <<"-">>}, k \in 4..longest}

TimeShapes ==
  {<<"9", "9", ":", "9", "9", ":", "9", "9">> \o fraction :
     fraction \in {<<>>} \cup {<<".">> \o Run(k) : k \in 1..9}}

(* The offsets of format.rs:9 and offset.rs:137, "Z", "±HH:MM", "±HHMM",   *)
(* "±HH" and "±HH:MM:SS"; and two more that the reader takes.              *)
AnySign(rest) == {<<sign, "9", "9">> \o rest : sign \in {"+", "-"}}

DocumentedOffsets ==
  {<<"Z">>} \cup UNION {AnySign(rest) : rest \in
    {<<":", "9", "9">>, <<"9", "9">>, <<>>, <<":", "9", "9", ":", "9", "9">>}}

UndocumentedOffsets == {<<"z">>} \cup AnySign(<<"9", "9", ":", "9", "9">>)

(* A grammar: how many digits a year has at most, and its offsets. What is *)
(* documented (format.rs:11) are years of any length, what is read nine.   *)
AsDocumented(t) == [years |-> Len(t), offsets |-> DocumentedOffsets]
AsRead          == [years |-> 9, offsets |-> DocumentedOffsets \cup UndocumentedOffsets]

(* No Date has a year of eight digits, but one of seven may follow zeros.  *)
DateSaid(t, grammar) ==
  LET n == Len(t)
      digits == SelectSeq(Upto(t, n - 6), IsDigits)
      zeros  == IF Len(digits) > 7 THEN Len(digits) - 7 ELSE 0
      year   == NumberOf(From(digits, zeros + 1))
  IN  IF Shape(t) \in DateShapes(grammar.years) /\ \A i \in 1..zeros : digits[i].value = 0
      THEN FromYmd(IF t[1].byte = "-" THEN -year ELSE year,
                   NumberOf(SubSeq(t, n - 4, n - 3)), NumberOf(SubSeq(t, n - 1, n)))
      ELSE Err

TimeSaid(t) ==
  IF Shape(t) \notin TimeShapes THEN Err
  ELSE FromHmsNano(NumberOf(SubSeq(t, 1, 2)), NumberOf(SubSeq(t, 4, 5)),
                   NumberOf(SubSeq(t, 7, 8)),
                   NumberOf(From(t, 10)) * 10^(9 - Len(From(t, 10))))

OffsetSaid(t, grammar) ==
  LET digits == SelectSeq(t, IsDigits)
      Part(i) == IF i < Len(digits) THEN NumberOf(SubSeq(digits, i, i + 1)) ELSE 0
      total == Part(1) * 3600 + Part(3) * 60 + Part(5)
  IN  IF Shape(t) \in grammar.offsets /\ Part(1) < 24 /\ Part(3) < 60 /\ Part(5) < 60
      THEN Ok(IF t[1].byte = "-" THEN -total ELSE total)
      ELSE Err

At(t, bytes) == {i \in DOMAIN t : t[i].byte \in bytes}

CivilSaid(t, grammar) ==
  UNION {[date : DateSaid(Upto(t, i - 1), grammar), time : TimeSaid(From(t, i + 1))] :
           i \in At(t, {"T", "t", " "})}

ZonedSaid(t, grammar) ==
  UNION {{[ticks |-> InstantOf(c, o), offset |-> o] :
            c \in CivilSaid(Upto(t, i - 1), grammar), o \in OffsetSaid(From(t, i), grammar)} :
            i \in At(t, {"Z", "z", "+", "-"})}

Said(kind, t, grammar) ==
  CASE kind = "date"   -> DateSaid(t, grammar)
    [] kind = "time"   -> TimeSaid(t)
    [] kind = "civil"  -> CivilSaid(t, grammar)
    [] kind = "zoned"  -> ZonedSaid(t, grammar)
    [] kind = "ticks"  -> {z.ticks : z \in ZonedSaid(t, grammar)}
    [] kind = "offset" -> OffsetSaid(t, grammar)
    [] kind = "zone"   -> IF Shape(t) = <<"UTC">> THEN Ok(0) ELSE OffsetSaid(t, grammar)

(* The reader takes an offset that neither list of the documentation has.  *)
MoreThanIsSaid(t) == \E i \in DOMAIN t : Shape(From(t, i)) \in UndocumentedOffsets

(* It refuses a year of ten digits, though the first ones be zeros.        *)
LessThanIsSaid(t) ==
  \E i \in {1, 2} : i + 9 <= Len(t) /\ Shape(SubSeq(t, i, i + 9)) = Run(10)

(* Of any text, the reader of a kind accepts what the grammar does, and it *)
(* means what the parts of the text say, however the text may be parted: a *)
(* reader that goes from left to right, looks one byte ahead and takes a   *)
(* fixed number of digits neither refuses a text nor takes it for another. *)
(* That grammar is the documented one, but for the texts of MoreThanIsSaid *)
(* and LessThanIsSaid.                                                     *)
ReadsExactlyIso ==
  written /\ task.kind \notin {"mail", "mail ticks", "strftime"} =>
    LET t == Spell(text)
    IN  /\ result = Said(task.kind, t, AsRead)
        /\ \/ result = Said(task.kind, t, AsDocumented(t))
           \/ MoreThanIsSaid(t) /\ result # Err
           \/ LessThanIsSaid(t) /\ result = Err

(* An RFC 2822 date that was read is on the weekday it names, has the year *)
(* it says or one between 1950 and 2049 for two digits, and is written so  *)
(* that it reads the same.  But the reader takes offsets with seconds,     *)
(* after a colon, and what is written of them does not read.               *)
MailReadsOneDate ==
  task.kind = "mail" =>
    \A z \in result : \A c \in CivilAt(z.ticks, z.offset) :
      LET year == CivilFromDays(c.date).year
      IN  /\ text[1].byte = "weekday" => text[1].value = WeekdayOfDays(c.date)
          /\ year \in MailYears
          /\ year \in 1950..2049 \/ \E i \in DOMAIN text : text[i].value = year
          /\ ReadZoned2822(WriteZoned2822(z)) = IF z.offset % 60 = 0 THEN Ok(z) ELSE Err

-----------------------------------------------------------------------------
(* A field is read back alone if it cannot take more than its own text: its *)
(* digits are as many as are read, or no digit follows; no letter follows  *)
(* a name, nor a colon an offset of minutes; something was written.        *)
OneField(item, own, rest, offset) ==
  LET d == BaseOf(item.directive)
  IN  /\ own # <<>>
      /\ d \in DOMAIN Layout =>
           LET digits == DigitsAhead(SelectSeq(own, IsDigits))
           IN  digits = Layout[d][2] \/ (digits < Layout[d][2] /\ DigitsAhead(rest) = 0)
      /\ d = ".f" /\ item.width = 0 => DigitsAhead(rest) = 0
      /\ d \in {"a", "b", "Z"} => ~NextIs(rest, Letters)
      /\ d = "z"  => offset % 60 = 0
      /\ d \in {"z", ":z"} => ~NextIs(rest, {":"}) \/ offset % 60 # 0
      /\ d = "+" => rest = <<>> /\ item.pad = "0"

Separable(items, view) ==
  \A i \in DOMAIN items : \A o \in view.offset :
    OneField(items[i], WriteItem(items[i], view),
             WriteItems(SubSeq(items, i + 1, Len(items)), view), o)

(* The fields, without any text.                                           *)
FieldRead(pp, item, view) ==
  LET d == BaseOf(item.directive)
  IN  CASE d \in {"literal", "exact"} -> Ok(pp)
        [] d = "+" ->
             {Timestamped(pp, view, view.time, o) : o \in view.offset}
        [] d = ".f" /\ item.width > 0 ->
             Engine!Read(".f", Truncated(view.time.nanos, item.width), pp)
        [] OTHER -> UNION {Engine!Read(d, v, pp) : v \in Engine!Written(d, view)}

FieldsRead(items, view) ==
  FoldLeft(LAMBDA r, item : UNION {FieldRead(pp, item, view) : pp \in r},
           Ok(Engine!Empty), items)

(* Directives side by side, with no literal in between and any padding,    *)
(* read the fields that were written, as if each had a text of its own.    *)
PackedFormatsReadBack ==
  task.kind = "strftime" /\ written /\ edits = 0 =>
    LET items == Items(format)
    IN  Separable(items, task.value) => result = FieldsRead(items, task.value)

(* The half of the day is two letters, in which a lone "a" may come first: *)
(* it was taken for the start of "am".                                     *)
HalvesAreRead ==
  task.kind = "strftime" /\ format = <<Plain("p")>> =>
    {pp.pm : pp \in result} =
      {{half} : half \in {h \in BOOLEAN :
         Shape(text) \in IF h THEN {<<"p", "m">>, <<"a", "p", "m">>} ELSE {<<"a", "m">>}}}

=============================================================================
