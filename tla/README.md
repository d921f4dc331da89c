# A formal model of Tzcraft

TLA+ modules, TLC runs and TLAPS proofs about Tzcraft (`src/`), a `no_std`
Rust library for dates, times, time zones and their texts. The library is
built on one idea: a signed 128-bit count of nanoseconds (`Ticks`), of which
every calendar value is a projection.

## 1. The system

The library keeps no global state, spawns nothing, does no I/O (the optional
system clock aside) and persists nothing. Its values are small immutable
integers; every operation is a method that returns a new value or an `Error`.
What is hard about it is not concurrency but arithmetic: sequences of legal
calls that lose a day, run over a limit or disagree between two ways to the
same value.

| component | files | state of a value | operations | what makes it correct |
|---|---|---|---|---|
| calendar arithmetic | `calendar.rs` | none | floor division, leap rule, days to and from civil, weekday, ISO week | day counts and civil dates are bijective; all fields advance together, also before the epoch |
| `Date`, `Days`, `Months`, `IsoWeek` | `date.rs`, `units.rs` | days since 1970-01-01 (`i32`) | constructors, day, duration and month steps, weekday searches, field replacement | never leaves the `i32`; month steps clamp and do nothing else; searches find the nearest day |
| `TimeOfDay` | `time.rs` | nanoseconds since midnight (`u64`) | constructors, fields, additions within the day and with a carry | carry and remainder add up; fields are independent |
| `Ticks` | `ticks.rs` | nanoseconds since the epoch (`i128`) | arithmetic, projections, timestamps | total order; projections invert; failures only at a limit |
| `CivilDateTime` | `datetime.rs` | a `Date` and a `TimeOfDay` | arithmetic through the timeline, calendar steps, saturation | agrees with the timeline |
| `Zoned`, `Zone`, `Offset` | `zoned.rs`, `zone.rs`, `offset.rs` | an instant and an offset (seconds within a day) | anchor, read, step, change zone | reading and anchoring invert; calendar steps happen in local time |
| `Duration` | `duration.rs` | nanoseconds (`i128`) | arithmetic, unit accessors, ISO 8601 text | checked or saturating, never wrapping; text comes back |
| strftime engine | `strftime.rs` | `ParsedParts`, twenty optional fields | directives write and read fields, resolution of the fields, RFC 2822 | what is written is read back; contradictions are refused |
| ISO 8601 / RFC 3339 text | `format.rs` | `Scanner`, a position in the text | writers and parsers | texts come back; what is read is the documented grammar, but for three differences (section 4) |
| write sinks | `write.rs` | `Buf`, a bounded buffer | writes | a piece is written whole or not at all |
| codec | `codec.rs`, `binary.rs` | none | text and binary shapes of every type | every value comes back |
| errors, crate root, migration guide | `error.rs`, `lib.rs`, `migration.rs` | none | re-exports, documentation | |

They interact by calls only. `Zoned` and `CivilDateTime` go through `Ticks`
for durations and through `Date` for calendar steps; `Ticks` goes through
`CivilDateTime` for months; `Date` and `strftime.rs` share the functions of
`calendar.rs`; the strftime engine builds every other type from its fields.
A chain of calls can fail in the middle, and the `?` operator makes the whole
call fail: a value is never half updated.

The hazards of this code, with their lines and the properties aimed at them,
are in `PROJECT.json`. They are of four kinds: rounding on the negative side
of the epoch; limits of three integer widths (`i32` days, `i64` days and
seconds, `i128` nanoseconds) that interact; long sequences of clamping,
carrying or saturating calls; and precedence among the fields of a parsed
text. There is nothing to check about interleavings, crashes or messages.

## 2. Modules

| module | models | content |
|---|---|---|
| `Calendar` | `calendar.rs` | Rust's truncating, flooring and Euclidean division, and every calendar function, as operators on unbounded integers |
| `DateOps` | `date.rs`, `units.rs` | fallible operations of a date over the width `DateMin..DateMax` |
| `DateCalls` | a caller of `Date` | one action per group of methods; the history of a chain of month steps |
| `Odometer` | (abstract) | what a calendar promises: a day follows a day, weekday, ordinal and ISO week turn with it |
| `DateWalk` | `checked_succ`, `checked_pred` and the accessors | implements `Odometer` |
| `ClockOps`, `ClockCalls` | `time.rs` | a clock with carries, and the ledger of what has passed |
| `TimelineOps` | `ticks.rs`, `datetime.rs`, `zoned.rs`, parts of `duration.rs` and `offset.rs` | the three views of an instant over three scaled widths |
| `WallClock` | (abstract) | what a zoned instant promises: a clock and calendar on a wall with a label |
| `Timeline` | a caller of `Ticks`, `CivilDateTime` and `Zoned` | implements `WallClock` |
| `StrftimeOps` | `strftime.rs` without RFC 2822 | what a directive writes of a value (of its `View`: the calendar fields the code computes beforehand, in `Parts`), what it reads, the resolution of `ParsedParts` |
| `StrftimeRead` | `parse_parts` over formatted text | a format string that grows by one directive at a time |
| `DurationOps`, `DurationCalls` | `duration.rs` | the `i128` arithmetic of spans, their units and the bridge to `core::time::Duration`; a caller that can reach every span |
| `DurationText` | durations in `format.rs` | writer and reader of the ISO 8601 text over tokens, a token being a number and the byte behind it |
| `DurationRead` | `parse_duration_iso` | the reader as a machine over every text, one token at a time |
| `ScanText` | `Scanner` of `format.rs`, `write_padded` | texts as tokens, and the steps a reader is made of |
| `IsoText` | `format.rs`, the texts of `date.rs` to `zone.rs`, `offset.rs` | every ISO 8601 and RFC 3339 writer and reader but durations; the parts of an `Offset` |
| `Rfc2822` | RFC 2822 in `strftime.rs` | writer and reader of mail dates |
| `StrftimeText` | the rest of `strftime.rs` on texts | format strings as items: padding, widths, composites, and where each directive stops reading; values and resolution are those of `StrftimeOps` |
| `TextRead` | a caller of all the writers and readers | writes a text, edits it token by token, reads it again |
| `Codec` | `codec.rs`, `binary.rs` | the two shapes of each of the ten types, and a caller that sends, receives and forwards |
| `Sink` | `write.rs` | `Buf` over a caller's bytes, a formatter as the pieces it writes, and the caller that goes on after an error |
| `CalendarProofs`, `DateOpsProofs` | | lemmas and theorems about the operators of `Calendar` and `DateOps`, section 5 |
| `DateProofs` | | theorems about `DateCalls`; `DateWalk` implements `Odometer` |
| `TimelineProofs` | | theorems about `Timeline`; it implements `WallClock` |
| `ClockProofs` | | theorems about `ClockCalls` |
| `TextProofs` | | theorems about the texts of `TextRead` and about `Sink` |
| `DurationProofs` | | theorems about `DurationCalls` and about the reader `DurationRead` |
| `StrftimeProofs` | | theorems about `StrftimeRead` |
| `MC*` | | values of the constants for TLC |

Conventions:

* A `Result` or an `Option` is a set with at most one element: `{v}` for
  `Ok(v)`, `{}` for `Err`. `?` is `UNION` over it (`Try`). Kinds and wording
  of errors are left out.
* A caller holds a value and replaces it by the result of a call. A failing
  call leaves the caller with what it had, so the action is disabled. Where
  a failure matters, a property says when the result is empty.
* Widths are constants. An addition that is checked in the code is checked
  against `InstMin..InstMax`, a narrowing conversion against its target;
  where two failures of the code are one in the model (an `i64` overflow on
  the way to an `i32`) a comment says so.
* Division keeps its flavour: `/` and `%` are `TruncDiv` and `TruncRem`,
  `div_euclid` is `EuclidDiv`, the library's own helpers are built on these
  as in the source. TLA+'s `\div` appears in properties only.
* Where one module of theorems is about two specifications, the variables and
  formulas of the second have names of their own (`WalkSpec` and `today` in
  `DateWalk`, `ReaderSpec` in `DurationRead`).
* Text comes in two abstractions. In `StrftimeRead` each directive has a text
  of its own, so the state is the set of fields read so far and formats have
  any length; in `TextRead` texts are whole, and formats short. A text is a
  sequence of tokens: a byte, a name, or a run of digits with its number and
  length. Runs are read by the digit and split where a reader stops in one.
  Names are known by what they name, so the letters of a weekday are left out;
  `T`, `Z`, `z`, `a`, `p` and `m`, which readers look at one by one, are bytes.
* `DurationText` has a coarser token, a number with the byte behind it; an
  unreadable number and a missing one are the same token (`NoNumber`).
* Where texts are the subject, an instant is a day, a second of the day and a
  nanosecond, since TLC's integers are narrower than an `i128`.
* Definitions named with a comment "Mutant" are variants of the definition
  below them. No run uses them: they show that the property listed with them
  in `PROJECT.json` notices that bug.

## 3. Runs

| run | module, configuration | question | states |
|---|---|---|---|
| `date_calls` | `MCDateCalls` | Do any sequences of `Date` calls break type, month chains, searches, durations, accessors or order? | 6,436 |
| `date_walk` | `MCDateWalk` | Is the calendar arithmetic an odometer? | 148,102 |
| `timeline` | `MCTimeline` | Do instants, readings and zones agree under any sequence of calls? | 29,700 |
| `clock` | `MCClockCalls` | Does a clock on `TimeOfDay` lose time? | 20,736 |
| `strftime` | `MCStrftimeRead` | Is what a format string writes what it reads? | 26,160 |
| `duration` | `MCDurationCalls` | Do unit accessors, products, quotients and the bridge to `std` agree on every span? | 16,384 |
| `duration_text` | `MCDurationRead` | Does the reader accept the grammar, compute the sum, and read what is written of it? | 137,413 |
| `text` | `MCTextRead` | Does every text, edited or not, mean what its grammar says, and come back? | 108,281 |
| `codec` | `MCCodec` | Is a decoded wire a value, and does a value survive any number of hops? | 4,809 |
| `sink` | `MCSink` | Can a `Buf` hold half a character, or a formatter leave out a piece? | 9,197 |
| `strftime_doc_fraction`, `duration_doc_round_trip` | as above, `*Doc*.cfg` | Do two statements of the documentation hold? (They do not.) | |

**`date_calls`.** Initially any representable date. The width spans 433 days,
1999-12-16 to 2001-02-20: both limits fall inside a month and inside an ISO
week, 2000-02-29, the last day of a 400-year era, is inside, and every kind of
argument occurs (steps of no day, a year and more than the width, saturating
steps on both sides of a limit, 0 to 11 months, negative durations with and
without a fraction of a day, month and day numbers on and beyond their
limits). Chains of month steps may move up to 13 months either way
(`ChainBound`), more than a year, so that each month meets each other one.
Days have four nanoseconds: a duration has whole
days, fractions and both signs, and nothing else is looked at.
`ChainKeepsMonth` and `ChainNeverAhead` relate a value to the call history;
`MonthStepsKeepOrder` compares two callers; `DurationsDriftBackwards` states
the surprising fact that subtracting what was added lands a day early unless
it was whole days; `AccessorsIdentifyDate` finds the exact exception at
`Date::MIN`.

**`date_walk`.** Two walks (`Walks`), each starting at a date whose face is
known without the code (`KnownFaces`): 73,050 days to either side of the epoch,
1769 to 2170, and 1,000 days to either side of 0000-01-03. The calendar repeats
every 146,097 days (weekdays included), so the first walk meets every case of
the arithmetic on both sides of day 0, and the second the change of sign of the
year. `Odometer` knows neither day counts nor division: its leap rule
and its ISO weeks are stated independently, and the refinement says that
`checked_succ`, `checked_pred` and the accessors are steps of it.

**`timeline`.** Two seconds in a day, three nanoseconds in a second, dates from
-12 to 370, an `i64` of -800..799 and an `i128` of -4950..4949: the order and
the nesting of the widths are those of the code (a date plus one day is an
`i64`, an `i64` of days in nanoseconds is an `i128`), and the limits are close
enough for every operation to hit each of them. Offsets are all those within a
day, in both directions. The durations include both limits of the width and
the day counts one beyond the `i64`. `ImplementsWallClock` is a refinement:
time passes, the reader carries the clock, repaints the label, sets day or
time, or turns the calendar by months, on the *local* day.
`CivilArithmeticAgrees` relates three implementations of the same step (on the
instant, on the reading, on the zoned instant), failures included, and
`TimestampsIdentifyInstant` includes the timestamps of coarser units and the
way to a `SystemTime`.

**`clock`.** Two hours of three minutes of two seconds of two milliseconds of
two nanoseconds: 48 times of day, with units of different sizes next to each
other. Durations cross several days both ways and both widths
saturate. The ledger is cut at `DaysBound` carried days: the clock is then
only set again.

**`strftime`.** Four kits. One formats dates where calendars disagree (the
turn of the year in three weekday patterns, a leap day, years 1968 and 1969
where the century guess flips, a negative and a five-digit year) with any
sequence of fourteen directives; one formats times around noon and midnight
with offsets of whole hours, half hours and seconds; two mix fields of several
values, raw numbers out of range and empty names. Any order and repetition of
directives is reached, since the state is the set of fields read so far; there
is no bound on the length of a format string. One source is the first `Date`,
whose ISO week began before it: its Monday is no `Date`, so `%G-%V-%u` cannot
resolve it, and `DateDescribed` says so. `FailsToRead` lists, exactly, when a
directive does not read its own text.

**`duration`.** An `i64` of -4..3, a `u64` up to 7, 2, 3, 2, 2, 2, 4 and 7 of a
unit in the next one, and an `i128` of -8192..8191 that just holds the weeks of
an `i64`, as the real one does. The calls reach every value of the `i128`, so
each property is checked on all of them. Spans beyond the `i64` of a unit
exist for every unit, both limits and `MIN / -1` occur.

**`duration_text`.** Numbers have at most one digit before the point (18 in the
code) and two behind it (9): 100 nanoseconds make a second, 3 seconds a minute,
2 minutes an hour, 2 hours a day, so one digit of weeks is two of days and the
cap is met. The ten numbers include zero, a zero with a fraction, a fraction
alone, and one digit too many on either side. All tokens over the bytes
`- P T W D H M S` and "another one" are tried in every state of the reader; it
refuses at the latest after an ISO text is complete, which bounds the length.
`AcceptsExactlyIso` compares the flags of the reader with a declarative
grammar, `ValueIsExact` its arithmetic with a sum of scaled integers, and
`RewritingReadsBack` the reader with the writer, the exact exception (more
days than a number may have digits for) included.

**`text`.** Tasks of ten kinds. Values are chosen for their layout: years -44,
0, 9999 and 12345, fractions that begin or end with zeros, offsets with and
without minutes and seconds, west and east, within an hour of UTC, instants
that have a date in UTC and none at their offset and the other way round. A
text is written and then edited once or twice: a token removed, replaced or
inserted, from a kit of signs, separators, digits that make a field too long
or out of range, and names. So a reader sees every text that is one slip away
from a good one, which is where a reader that looks one byte ahead goes wrong.
`ReadsExactlyIso` compares it with a grammar stated on whole shapes (`Said`),
which does not scan, in two versions: as documented and as read. The reader
must agree with the second everywhere, and with the first but for three named
differences: two offsets that only the code has (`MoreThanIsSaid`: `z`, and
seconds behind `±HHMM`), and years of ten and more digits that only the
documentation has (`LessThanIsSaid`). All three occur, and the property fails
without either disjunct. `MailReadsOneDate` does without a grammar and says what a
date that was read must be. `PackedFormatsReadBack` takes every format of up
to three items (`MaxItems`) out of 29, for three values: most directives touch
only their neighbours, and `%+` holds a whole date by itself. Where a
directive cannot know where its text ends, `Separable` says so, exactly: of
the formats with three items 21,920 are separable, of which 20,174 read and
1,746 are refused (a field that its own directive never reads); and 2,949
formats that are not separable are read as other fields than were written, as
`%-m%d` of 5 January, `105`, is read as 5 October. Those are the caller's, as
in every `strptime`. `HalvesAreRead` covers every text of up to five letters out of `a`,
`p`, `m` that three edits reach.

**`codec`.** Dates within 20,000 days of the epoch, so that a packed date-time
fits TLC's integers, with instants one day beyond them on either side;
durations of the widths of `duration_text`. Foreign wires are: the same value
in another form, numbers one beyond each limit, arrays of no, one, two and
three entries with each tag. A value may be sent any number of times, as text
or as numbers.

**`sink`.** Storage of 0, 1, 4 and 5 bytes, characters of one and two bytes,
slices that are not UTF-8 by themselves, and every formatter of up to three
pieces, with or without a fault of its own at the end: every fill of the
storage meets every piece that fits exactly, is one byte too long, or would be
cut inside a character. The storage is reused and keeps its old bytes.

Deadlock is checked in every run but `text`, where a caller that has used up
its edits is done; in the others some call always succeeds.

**No fairness and no liveness.** A library does not schedule its callers.
Nothing must eventually happen, so the specifications are `Init /\ [][Next]_vars`
and every property is a safety property.

## 4. Findings

Two statements of the documentation disagree with the code and have a run that
TLC refutes.

1. The table of `src/strftime.rs:9` lists `%.f` among the directives supported
   for formatting and parsing. Of a whole second it writes nothing, and its
   reader needs a `.`: `"%H:%M:%S%.f"` does not read what it wrote
   (`strftime_doc_fraction`).
2. "Durations are signed and round-trip ISO 8601 exactly" (the crate's
   `README.md:138`). A number is read with at most 18 digits
   (`src/format.rs:375`), days are written with as many as they have:
   `P999999999999999999W` is read, written as `P6999999999999999993D`, and
   that is refused (`duration_doc_round_trip`).

The grammar of ISO 8601 texts is documented twice, and differs from what is
read in three places, which `ReadsExactlyIso` names:

* "The accepted surface is strict" (`src/format.rs:6`), with "offsets in `Z`,
  `±HH:MM`, `±HHMM`, `±HH` and `±HH:MM:SS`" (`src/format.rs:9`, and likewise
  `src/offset.rs:137`). `parse_offset` looks for the colon of the seconds
  whether or not there was one before the minutes (`src/format.rs:459`), and
  reads `+0101:01` too.
* It also reads a lower-case `z` (`src/format.rs:445`), which is in neither list.
* "Expanded years (optional sign, 4+ digits)" (`src/format.rs:11`). A year is
  read with at most nine digits (`src/format.rs:417`), and `0000000044-03-15` is
  refused. No `Date` has a year of more than seven digits, so only years with
  leading zeros are concerned.

`Ticks::from_rfc3339` lists offsets without seconds only, "`Z`, `±HH:MM`,
`±HHMM` or `±HH` form" (`src/ticks.rs:328`), and reads them all, since it shares
that reader. None of this changes what a documented text means.

Other statements are imprecise about a limit or an exception, and a property
states it exactly. `Ticks::to_civil_utc` "Fails only for instants whose day
count exceeds `i64`" (`src/ticks.rs:265`): it fails beyond the `i32` of a `Date`
(`ReadingsAnchorBack`). `Ticks::to_rfc3339` has the same limit for the texts
that fall back to nanoseconds and an `s`, "Instants beyond the civil `i64` day
range (≈ ±2.9 billion years)" (`src/ticks.rs:297`): these are all instants
without a `Date`, from some ±5.9 million years on, and nothing reads their
texts (`WritersReadBack`). So the codec's table, which has "RFC 3339 string"
for a `Ticks` (`src/codec.rs:10`), and "every type round-trips through both
nextjson text and rustbinary binary" (the crate's `README.md:316`) hold but for
the values `ValuesSurvive` lists: as text, instants without a civil date, zoned
instants that have none at their offset, and durations with more digits of days
than are read. `Ticks::to_unix_seconds` fails "roughly outside ±2.9
billion years" (`src/ticks.rs:126`): it fails when the *seconds* exceed an
`i64`, a hundred times later (`TimestampsIdentifyInstant`).

Behaviour that contradicts no document and is stated by a property instead:

* `Zoned::checked_sub(Duration::MIN)` always fails (`CivilArithmeticAgrees`).
* Subtracting a duration from a `Date` does not undo adding it
  (`DurationsDriftBackwards`).
* `%s` drops the nanoseconds that `%f` read (`InstantIsRecovered`); one more
  directive can make a readable format unreadable (`MoreIsNeverLess`).
* `from_isoywd` refuses dates of the first week (`AccessorsIdentifyDate`).
* `%p` reads `"apm"` as PM: the letter that matched `am` is not given back
  (`HalvesAreRead`).
* An RFC 2822 date is read with an offset that has seconds, behind a colon; it
  is written with the seconds behind no colon, and that is not read
  (`MailReadsOneDate`).
* `from_hms(as_hms(o))` is `-o` for an offset less than an hour west of UTC:
  the sign is on the hours, and there are none (`WritersReadBack`).

## 5. Proofs

`CalendarProofs` proves, for all integers, that `civil_from_days` and
`days_from_civil` are inverse (`DaysRoundTrip`, `CivilRoundTrips`), with no
assumption. The argument goes through a normal form (`IsMarch`): an era, a year
of the era, a month and a day, all counted from 1 March. One lemma says that
the truncating division of the code rounds down; two say that the year of a
day (`YearHoldsDay`, `LastDayOfYearIsLeap`) and the month of a day are the
ones that hold it; then both conversions are shown to be the two sides of the
same normal form (`DaysFromCivilOfMarch`, `CivilFromDaysOfMarch`,
`MarchOfDays`, `MarchOfCivil`).

`DateProofs` proves about `DateCalls`, for every width and all arguments:

* `TypeCorrect`, the type invariant;
* `ChainStaysInMonth`, the month of a chain is the month of one jump, and the
  day is lost to clamping only;
* `ChainBehindJump`, a chain is never ahead of that jump;
* `MonthStepsAreMonotone`, two neighbouring dates stay in order over a month
  step, and one of them fails only beyond the limit on its side;
* `SearchesAreNearest`, `DurationsDrift` and `AccessorsAreTakenBack`, which
  state `SearchesFindNearest`, `DurationsDriftBackwards` and
  `AccessorsIdentifyDate`.

The inductive invariant is `Inv == TypeOK /\ ChainKeepsMonth`. Neither half is
inductive alone: a month step keeps the chain's month only if the date is
representable, since it re-reads the fields of a date it has built
(`FromYmdFields`, which needs `CivilRoundTrips`), and it adds to the month
reached so far. `NextInv` has one step per action; all but the month steps
start a new chain (`ReturnKeepsInv`), and `ReturnMonthsKeepsInv` follows from
`MonthStep`, which says what one clamped step does to the fields.
`ChainNeverAhead` then needs no induction of its own: both dates are in the
same month, the chain's day is at most the anchor's, and so at most the
jump's, and within a month dates are ordered by their days
(`OrderWithinMonth`, `SameMonthOrder`). The last four need `TypeOK` only:
they are facts of every date. A month step aims at a month and a clamped day,
which are in order if the dates were (`CivilInOrder`, `TargetsInOrder`); a
search turns the weekday by the remainder it adds; an ISO year is the civil
year of a week's Thursday, and its first Monday is found from 4 January.

`WalksAnOdometer` is the refinement of `Odometer` by `DateWalk`, for every
range of dates and all walks. `FaceStaysShown` is its invariant: what is
displayed is the face of the date. `FaceTurns` is its step: a day later,
`civil_from_days`, `weekday`, `day_of_year` and `iso_week` give what the rules
of the odometer give, at every turn of month, year and ISO year. It is
one lemma for both directions, since a step back is a step on read backwards.
Assumed is that the walks start from dates whose face is among `KnownFaces`:
an odometer turns correctly from where it is set. `EpochFace` proves that
of the date the code itself is anchored at (day 0, `Date::default()`).

The lemmas about operators alone, such as `MonthStep` and `FromYmdFields`, are
in `DateOpsProofs`, where the timeline's proofs find them too. The assumptions
are those of `DateOps` and `DateCalls`: the limits are integers in order, a
day has at least one nanosecond, and the arguments are of their types. TLC
evaluates them in `date_calls` and `date_walk`.

`DurationProofs` proves about `DurationCalls`, for every pair of widths and all
nesting units, that each of its run's invariants holds:

* `TypeCorrect`. Constructors from seconds to weeks and from `std` are not
  checked in the code; `CountsFit` and `StdFits` show they need not be, since
  every unit divides the week (`UnitsInOrder`) and an `i64` of weeks is an
  `i128` (`WidthAssumption`). Everything else is checked or saturates.
* `CountsNest`, from `TruncationComposes`: truncating by `u` and then by `k` is
  truncating by `u * k`, on both sides of zero.
* `ProductsAndQuotients`, from `TruncatedProduct` and `TruncatedRemainder`.
* `StdIsExact`.

`TypeOK` is inductive by itself, and the other three follow from it in every
state. The assumptions are `UnitAssumption` (each unit is a multiple of the
finer ones), `WidthAssumption` (two's complement widths that nest as the
code's do) and `ArgumentAssumption` (arguments are of their types); the real
constants satisfy them.

It proves everything the run `duration_text` checks of `DurationRead`, whatever
the numbers and however long the text.

`parse_duration_iso` accepts just the texts of its grammar
(`ReaderAcceptsIso`), and what it has refused no text behind it can make good
(`RefusedForGood`). The code keeps four facts about the text behind it (a place,
the last designator, a flag for a fraction, the sum), the grammar quantifies over
all positions. `ReaderInv` relates the two in every state: a reader that
goes on has read a `Piece`, a beginning of a duration that may lack its end;
its state is what the rest depends on (`Remembered`); its sum is within the
`Room` that designators of falling rank can fill, so the checked additions
never refuse; and where the reader has stopped, the text is not the beginning
of a duration. TLC checked it on the run `duration_text` (the last part for
no continuation) before it was proved. There is a lemma for each token the reader takes
(`ComponentIsTaken` and its kind), and for each way it refuses one
(`RefusedIsNoDuration`).

The value of an accepted text is the sum of its components (`ReaderIsExact`):
with every step the sum grows by what the token adds (`ComponentIsExact`), since
a fraction of a unit is a whole number of nanoseconds (`FactorsCancel`).

Whatever was read, writing it and reading that gives it again
(`ReaderReadsBack`). This is `WrittenIsRead`: for every duration but
`Duration::MIN`, whose magnitude no signed sum reaches and which no reader
returns, `Parse(Format(d))` is `d`, or nothing if its days have more digits than are
read. It goes component by component (`TimeIsRead`, `ComponentStep`); a
fraction loses its trailing zeros when it is written and none of its value
(`FractionIsWritten`). The reader is a recursive function of the number of tokens
read, and `ReaderIsParse` says that the machine of the run, one token at a
time, ends with what it computes. Both facts are proved by induction over Nat, stated for sets of numbers
(`InductiveSet` in `CalendarProofs`, from the least element of a set).

Assumed are `DigitAssumption` (a number is below the power of ten of its
digits), `RoomAssumption` (the longest number of each unit, all together, is
within an `i128`: 18 digits of weeks are about 10^33 ns),
`DesignatorAssumption` (what is left over of a day, hour or minute is a number
of no more digits than are read) and `PowerAssumption`, which is arithmetic:
powers of ten grow and divide each other. The provers know no `^`.

`ClockProofs` proves about `ClockCalls`, for every size of each unit and every
width that holds a day, that the time of day stays in the day (`TypeCorrect`)
and that no nanosecond is lost (`LedgerAlwaysBalances`). `Inv` is the
conjunction of the two: the balance of the next step needs the time to be one
of the day, since `CarrySplits` (the carry and the remainder of
`overflowing_add` add up to what was added) holds only where nothing
saturates.

`TimelineProofs` proves about `Timeline`, for every nesting of the three
widths, every offset within a day and all arguments, the type invariant and
each other property of its run:

* `TypeCorrect`: instants and offsets stay in range. Inductive by itself.
* `ReadingsAreInverse`, from `CivilOfInstant` (the day of a reading is the
  floor of the instant), `InstantOfReading` and `ReadingsFit` (anchoring a
  reading that exists cannot overflow).
* `ReadingsKeepOrder`, an action property, from `ReadingsInOrder`.
* `TimestampsAreExact`, from `FloorOf`, `SecondsSplit` and `CoarserIsNearer`: a
  larger unit has the smaller count, on both sides of the epoch.
* `SaturationIsMonotone` and `DifferencesAreExact`, from `SaturatedReading` and
  `DistanceFits`.
* `ArithmeticAgrees`, from `ShiftedReading`, `DayStepsAgree`,
  `DurationStepsAgree` and `MonthStepsAgree`: a failure on the way of one is a
  failure of the other.

All but `TypeCorrect` are facts of every state that satisfies `TypeOK`. What
is assumed of the widths is `WidthAssumption`: a date and a day or two more is
an `i64`, as is the distance of two dates, and an `i64` of days is an `i128` of
nanoseconds. The code relies on both without a check; the real widths satisfy
them with room to spare.

It proves the refinement, too, `ImplementsWall`: `Init` is the clock's,
and each action of `Timeline` maps to one of `WallClock` (`NextStep` has one
step per action). Duration and day steps are `Elapse`, a saturated one may be
`StandStill`, `with_zone` is `Carry` and anchoring elsewhere `Repaint`. The
month steps are `TurnStep`: by `AdjustedReturns` the new wall shows the stepped
reading, by `WallOfReading` the calendar of the wall is the calendar of the
code, and `MonthStep` gives the month and the clamped day.

`TextProofs` proves about `Sink`, for storage of every length and any pieces,
`AsStrIsSafe` and `FormatterNeverSkips`. `SinkInv` adds to the claims that what a
running formatter has written is laid out piece by piece from the first byte,
and that one that failed did so at its next piece; `WrittenIsWhole` (a whole
piece behind whole characters makes whole characters) and `PieceIsLaidOut`
carry it over a write. Assumed are the types of the arguments, and
`WholePieces`: formatters write whole characters, since all of them write a
`&str` or ASCII. A slice of the caller may be anything, and `write_bytes`
refuses what is not UTF-8.

`StrftimeProofs` proves about `StrftimeRead`, for every width of a date, all
kits of directives, all sources and any text, each property of its run:

* `Failures`: directive by directive, what is read of what was written
  (`NumbersAreRead`, `NamesAreRead`, `DirectiveIsRead`). A composite such as
  `%F` takes its parts one after the other (`StepsAreTaken`).
* `DatesRoundTrip`, from `DateRead`, which has one case for each way
  `ParsedParts::to_date` finds a date: ISO week (`IsoWeekTakenBack`), week
  counted from Sunday or Monday (`WeekIsTakenBack`), ordinal
  (`OrdinalTakenBack`), month and day (`CivilRoundTrips`), with the year read,
  combined or guessed (`CombinedYear`, `ResolvedIsoYear`).
* `TimesRoundTrip` and `InstantsRoundTrip`, from `HourRead` (a 12-hour clock
  and its half of the day are the hour), `TimeIsRead` and `CivilRead`.
* `ResolvedDates`, which is about any fields, of one value or of none: what
  `to_date` accepts shows the fields it came from (`WeekIsShown`,
  `IsoWeekdayIsShown`, `OrdinalIsShown`).
* `LongerFormats`, an action property, from `MoreFields` and the exact
  condition of `DatesRoundTrip` before and after the step.

The inductive invariant `Inv` says that kit and source are what they were, that
the fields read so far are numbers of their kinds (`PartsTyped`), and, unless
texts are mixed, that each is empty or the field of the source
(`ShowsOrNothing`). None of the properties is inductive: they are about
what the fields resolve to, and say nothing of a field that is hidden by
another one. With `Inv` they hold in every state, whatever was read and in
whatever order. Assumed is `KitAssumption`: directives exist, raw numbers are
not negative (the readers take no sign), and sources are dates with a time of
day, an offset within a day if any, and its timestamp.

`TextProofs` also proves about `TextRead` that every text nobody has edited
comes back (`TextsReadBack`, the property `WritersReadBack`): dates, times of
day, civil date-times, zoned and bare instants, offsets and zones, with every
fraction a writer offers, in ISO 8601, RFC 3339 and, for mail, RFC 2822. It
holds of every date in range and every year of up to nine digits, and the
exceptions are the ones the property names. There is a lemma for each writer
about its text *before any rest* that does not go on with it: the scanner of
the same name reads the values written and leaves that rest. So the texts of
several parts follow one after the other, as the code reads them, and nothing
is said of positions. What a scanner counts is a recursive function of the
text; it stops after nine digits, so its values come from unfolding it that
often, and no induction is needed. The inductive invariant `TextInv` remembers that the result of an
unedited text is what the reader makes of the writer's text; `TaskReadsBack`
and `PartsInvert` say what that is. Assumed are `TaskAssumption` (a task is a
value of its kind, with a fraction the code offers) and `YearDigitsAssumption`
(the years of both limits have at most nine digits; the code's have seven).

**Only model-checked.** Of `TextRead`, what is about edited texts and about
format strings: `ReadsExactlyIso` and `MailReadsOneDate`, which say of every
text what may be read of it, `PackedFormatsReadBack` and `HalvesAreRead`. Their
other side quantifies over all ways to cut a text, and a proof would need that
the scanner's way is the only one, reader by reader. All of `Codec`:
`ValuesSurvive` and `OnlyValuesDecode` say of ten types in two shapes what the
theorems above say of each type's text and arithmetic; the composition is
checked, not proved. No liveness is claimed, so none is proved.

## 6. Not modelled

* strftime: `%n`, `%t`, `%%` and tabs as blanks; format strings that are
  malformed (they are refused while formatting and while parsing).
* The kind, wording and position of errors: a failure is the empty set of
  results.
* Letters of names (case is ignored by every reader) and `Zone::from_name`, a
  fixed table.
* Conversions to `f64`, the system clock, `Display` and `Debug`.
* The `String` and `fmt` sinks, which cannot fill up.
* Bytes below the numbers, strings and arrays of the codec: they belong to
  `nextjson` and `rustbinary`. The model has their contract only: what is
  encoded arrives, and a number that is too wide is refused.
* `error.rs`, `lib.rs` and `migration.rs`: values without operations,
  re-exports, documentation.

## 7. Plan

Every property of the dates, the clock, the spans and their text, the timeline,
the sinks and the strftime fields is proved, and of the other texts that they
come back. Theorems worth proving next: `ReadsExactlyIso` for one kind, a time
of day, whose grammar has the fewest shapes; the binary half of
`OnlyValuesDecode`, whose decoders are arithmetic alone. Worth modelling next:
malformed format strings, to show that they are refused in the same places by
writer and reader.
