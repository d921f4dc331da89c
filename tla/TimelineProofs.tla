--------------------------- MODULE TimelineProofs ---------------------------
(***************************************************************************)
(* Theorems about every caller of the timeline (Timeline), for all widths  *)
(* and arguments: instants and offsets stay in range, a reading and its    *)
(* instant determine each other and are ordered alike, timestamps identify *)
(* the instant, saturation and differences keep the order, and every call  *)
(* is a step of the clock on the wall (WallClock).                         *)
(***************************************************************************)
EXTENDS Timeline, DateOpsProofs

-----------------------------------------------------------------------------
(* The widths.                                                             *)
LEMMA Widths ==
  /\ InstMin \in Int /\ InstMax \in Int /\ LongMin \in Int /\ LongMax \in Int
  /\ DateMin \in Int /\ DateMax \in Int /\ DateMin <= DateMax
  /\ NsPerDay \in Nat \ {0} /\ NsPerSec \in Nat \ {0} /\ SecsPerDay \in Nat \ {0}
  /\ LongMin <= DateMin - 1 /\ DateMax + 2 <= LongMax /\ LongMin <= 0 /\ 0 <= LongMax
  /\ LongMin <= DateMin - DateMax - 1 /\ DateMax - DateMin + 1 <= LongMax
BY WidthAssumption, DateAssumption, DayLengthAssumption, DaySplitAssumption DEF Long

(* An instant whose day is an i64 fits an i128.                            *)
LEMMA LongDaysFit ==
  /\ LongMin * NsPerDay \in Int /\ LongMax * NsPerDay \in Int
  /\ InstMin <= LongMin * NsPerDay /\ LongMax * NsPerDay <= InstMax
BY Widths, WidthAssumption DEF Inst

LEMMA Monotone ==
  ASSUME NEW a \in Int, NEW b \in Int, NEW n \in Nat, a <= b
  PROVE  a * n \in Int /\ b * n \in Int /\ a * n <= b * n
OBVIOUS

(* The instants of the dates, with the day before and two days after.      *)
LEMMA DatesFit ==
  ASSUME NEW d \in Date
  PROVE  /\ d * NsPerDay \in Int
         /\ InstMin <= d * NsPerDay - NsPerDay
         /\ d * NsPerDay + 2 * NsPerDay <= InstMax
<1>0. d \in Int /\ DateMin <= d /\ d <= DateMax /\ NsPerDay \in Nat
  BY Widths DEF Date
<1>1. LongMin <= d - 1 /\ d + 2 <= LongMax
  BY <1>0, Widths
<1>2. LongMin * NsPerDay <= (d - 1) * NsPerDay
  BY <1>0, <1>1, Widths, Monotone
<1>3. (d + 2) * NsPerDay <= LongMax * NsPerDay
  BY <1>0, <1>1, Widths, Monotone
<1>4. /\ (d - 1) * NsPerDay = d * NsPerDay - NsPerDay
      /\ (d + 2) * NsPerDay = d * NsPerDay + 2 * NsPerDay
      /\ d * NsPerDay \in Int
  BY <1>0
<1> QED  BY <1>0, <1>2, <1>3, <1>4, LongDaysFit, Widths

(* An offset is less than a day.                                           *)
LEMMA OffsetIsShort ==
  ASSUME NEW o \in Offsets
  PROVE  FromSeconds(o) \in Int /\ -NsPerDay < FromSeconds(o) /\ FromSeconds(o) < NsPerDay
<1>0. o \in Int /\ -(SecsPerDay - 1) <= o /\ o <= SecsPerDay - 1 /\ NsPerSec \in Nat
  BY Widths DEF Offsets
<1>1. o * NsPerSec <= (SecsPerDay - 1) * NsPerSec
  BY <1>0, Widths, Monotone
<1>2. (-(SecsPerDay - 1)) * NsPerSec <= o * NsPerSec
  BY <1>0, Widths, Monotone
<1>3. /\ NsPerDay = NsPerSec * SecsPerDay /\ NsPerSec * SecsPerDay \in Int
      /\ (SecsPerDay - 1) * NsPerSec = NsPerSec * SecsPerDay - NsPerSec
      /\ (-(SecsPerDay - 1)) * NsPerSec = NsPerSec - NsPerSec * SecsPerDay
      /\ o * NsPerSec \in Int
  BY <1>0, Widths, DaySplitAssumption
<1> QED  BY <1>1, <1>2, <1>3, Widths DEF FromSeconds

-----------------------------------------------------------------------------
(* Instants and their readings.                                            *)
DayOf(t) == t \div NsPerDay

LEMMA DayHoldsInstant ==
  ASSUME NEW t \in Int
  PROVE  /\ DayOf(t) \in Int /\ DayOf(t) * NsPerDay \in Int
         /\ t - DayOf(t) * NsPerDay \in TimesOfDay
         /\ FloorDivNs(t, NsPerDay) = DayOf(t)
         /\ FloorRemNs(t, NsPerDay) = t - DayOf(t) * NsPerDay
<1> DEFINE q == t \div NsPerDay
<1>1. /\ q \in Int /\ q * NsPerDay <= t /\ t < q * NsPerDay + NsPerDay
      /\ FloorDivNs(t, NsPerDay) = q
      /\ FloorRemNs(t, NsPerDay) = t - q * NsPerDay
  BY FloorNsRoundsDown, Widths
<1> HIDE DEF q
<1>2. q * NsPerDay \in Int
  BY <1>1, Widths
<1>3. t - q * NsPerDay \in TimesOfDay
  BY <1>1, <1>2, Widths DEF TimesOfDay
<1> QED  BY <1>1, <1>2, <1>3 DEF DayOf, q

LEMMA DayIsUnique ==
  ASSUME NEW t \in Int, NEW d \in Int, d * NsPerDay <= t, t < d * NsPerDay + NsPerDay
  PROVE  DayOf(t) = d
<1> DEFINE q == t \div NsPerDay
<1>1. q \in Int /\ q * NsPerDay <= t /\ t < q * NsPerDay + NsPerDay
  BY FloorNsRoundsDown, Widths
<1> HIDE DEF q
<1>2. q = d
  BY <1>1, SameQuotient, Widths
<1> QED  BY <1>2 DEF q, DayOf

(* to_civil_utc: the floor day and the rest, when the day is a date.       *)
LEMMA CivilOfInstant ==
  ASSUME NEW t \in Int
  PROVE  ToCivilUtc(t) =
           IF DayOf(t) \in Date
           THEN {[date |-> DayOf(t), time |-> t - DayOf(t) * NsPerDay]}
           ELSE Err
<1> DEFINE q == DayOf(t)
<1>1. q \in Int /\ FloorDivNs(t, NsPerDay) = q /\ FloorRemNs(t, NsPerDay) = t - q * NsPerDay
  BY DayHoldsInstant
<1> HIDE DEF q
<1>2. q \in Date => q \in Long
  BY <1>1, Widths DEF Date, Long
<1>3. FromDaysChecked(q) = IF q \in Date THEN {q} ELSE {}
  BY DEF FromDaysChecked, Ok, Err
<1>4. CASE q \in Date
  BY <1>1, <1>2, <1>3, <1>4 DEF ToCivilUtc, q
<1>5. CASE q \notin Date
  BY <1>1, <1>3, <1>5 DEF ToCivilUtc, Err, q
<1> QED  BY <1>4, <1>5

(* A reading is a civil date and time, and leads back to its instant.      *)
LEMMA InstantOfReading ==
  ASSUME NEW t \in Int, NEW c \in ToCivilUtc(t)
  PROVE  c \in Civils /\ ToTicksUtc(c) = t /\ c.date = DayOf(t)
<1> DEFINE q == DayOf(t)
<1>1. q \in Date /\ c = [date |-> q, time |-> t - q * NsPerDay]
  BY CivilOfInstant DEF Err
<1>2. q \in Int /\ q * NsPerDay \in Int /\ t - q * NsPerDay \in TimesOfDay
  BY DayHoldsInstant
<1> HIDE DEF q
<1>3. c \in Civils /\ c.date = q /\ c.time = t - q * NsPerDay
  BY <1>1, <1>2 DEF Civils
<1>4. q * NsPerDay + (t - q * NsPerDay) = t
  BY <1>2
<1> QED  BY <1>3, <1>4 DEF ToTicksUtc, q

LEMMA CivilFieldsOf ==
  ASSUME NEW c \in Civils
  PROVE  /\ c.date \in Date /\ c.time \in TimesOfDay
         /\ c.date \in Int /\ c.time \in Int /\ 0 <= c.time /\ c.time < NsPerDay
         /\ c.date * NsPerDay \in Int /\ ToTicksUtc(c) \in Int
         /\ c = [date |-> c.date, time |-> c.time]
<1>1. c.date \in Date /\ c.time \in TimesOfDay /\ c = [date |-> c.date, time |-> c.time]
  BY DEF Civils
<1>2. c.date \in Int /\ c.time \in Int /\ 0 <= c.time /\ c.time < NsPerDay
  BY <1>1, Widths DEF Date, TimesOfDay
<1>3. c.date * NsPerDay \in Int
  BY <1>2, Widths
<1> QED  BY <1>1, <1>2, <1>3 DEF ToTicksUtc

(* Every civil date and time is the reading of its instant.                *)
LEMMA ReadingOfInstant ==
  ASSUME NEW c \in Civils
  PROVE  DayOf(ToTicksUtc(c)) = c.date /\ ToCivilUtc(ToTicksUtc(c)) = {c}
<1> DEFINE t == ToTicksUtc(c)
<1>1. /\ c.date \in Date /\ c.date \in Int /\ c.time \in Int
      /\ 0 <= c.time /\ c.time < NsPerDay
      /\ c.date * NsPerDay \in Int /\ t \in Int
      /\ c = [date |-> c.date, time |-> c.time]
  BY CivilFieldsOf
<1>2. t = c.date * NsPerDay + c.time
  BY DEF ToTicksUtc
<1> HIDE DEF t
<1>3. DayOf(t) = c.date
  BY <1>1, <1>2, DayIsUnique, Widths
<1>4. t - c.date * NsPerDay = c.time
  BY <1>1, <1>2
<1>5. ToCivilUtc(t) = {[date |-> c.date, time |-> c.time]}
  BY <1>1, <1>3, <1>4, CivilOfInstant
<1> QED  BY <1>1, <1>3, <1>5 DEF t

(* A reading less than a day away is an instant in range.                  *)
LEMMA ReadingsFit ==
  ASSUME NEW c \in Civils, NEW s \in Int, -NsPerDay < s, s < NsPerDay
  PROVE  ToTicksUtc(c) - s \in Inst
<1>1. /\ c.date \in Date /\ c.time \in Int /\ 0 <= c.time /\ c.time < NsPerDay
      /\ c.date * NsPerDay \in Int
  BY CivilFieldsOf
<1>2. InstMin <= c.date * NsPerDay - NsPerDay /\ c.date * NsPerDay + 2 * NsPerDay <= InstMax
  BY <1>1, DatesFit
<1> DEFINE x == c.date * NsPerDay
           y == c.time
<1>3. ToTicksUtc(c) = x + y
  BY DEF ToTicksUtc
<1>4. /\ x \in Int /\ y \in Int /\ 0 <= y /\ y < NsPerDay
      /\ InstMin <= x - NsPerDay /\ x + 2 * NsPerDay <= InstMax
  BY <1>1, <1>2
<1> HIDE DEF x, y
<1>5. (x + y) - s \in Int /\ InstMin <= (x + y) - s /\ (x + y) - s <= InstMax
  BY <1>4, Widths
<1>6. ToTicksUtc(c) - s = (x + y) - s
  BY <1>3
<1> QED  BY <1>5, <1>6, Widths DEF Inst

-----------------------------------------------------------------------------
(* Every call returns an instant in range, read through a valid offset.    *)
LEMMA CheckedInRange ==
  ASSUME NEW n
  PROVE  CheckedInst(n) \subseteq Inst
BY DEF CheckedInst, Ok, Err

LEMMA SaturatedInRange ==
  ASSUME NEW n \in Int
  PROVE  SaturatedInst(n) \in Inst
<1>1. InstMin <= InstMax
  BY LongDaysFit, Widths, Monotone
<1> QED  BY <1>1, Widths DEF SaturatedInst, Inst

LEMMA OnTicksInRange ==
  ASSUME NEW x \in Zoneds, NEW result, result \subseteq Inst
  PROVE  OnTicks(x, result) \subseteq Zoneds
BY DEF OnTicks, Zoneds

LEMMA AnchoredInRange ==
  ASSUME NEW c, NEW o \in Offsets
  PROVE  FromCivil(c, o) \subseteq Zoneds
BY CheckedInRange DEF FromCivil, TicksSub, Zoneds

LEMMA ZonedAddInRange ==
  ASSUME NEW x \in Zoneds, NEW d
  PROVE  ZonedAdd(x, d) \subseteq Zoneds /\ ZonedSub(x, d) \subseteq Zoneds
<1>1. ASSUME NEW e PROVE ZonedAdd(x, e) \subseteq Zoneds
  BY CheckedInRange, OnTicksInRange DEF ZonedAdd, TicksAdd
<1> QED  BY <1>1 DEF ZonedSub, Try

LEMMA ReturnKeepsType ==
  ASSUME NEW result, result \subseteq Zoneds, Return(result)
  PROVE  TypeOK'
BY DEF Return, Zoneds, TypeOK

LEMMA TypeOfZ ==
  ASSUME TypeOK
  PROVE  z \in Zoneds /\ z.ticks = ticks /\ z.offset = offset /\ ticks \in Int
BY Widths DEF TypeOK, z, Zoneds, Inst

LEMMA InitType == Init => TypeOK
<1>1. 0 \in Inst
  <2>1. LongMin * NsPerDay <= 0 * NsPerDay /\ 0 * NsPerDay <= LongMax * NsPerDay
    BY Widths, Monotone
  <2>2. 0 * NsPerDay = 0
    BY Widths
  <2> QED  BY <2>1, <2>2, LongDaysFit, Widths DEF Inst
<1>2. 0 \in Offsets
  BY Widths DEF Offsets
<1> QED  BY <1>1, <1>2 DEF Init, TypeOK

LEMMA NextType == TypeOK /\ [Next]_vars => TypeOK'
<1> SUFFICES ASSUME TypeOK, [Next]_vars PROVE TypeOK'
  OBVIOUS
<1>0. z \in Zoneds /\ ticks \in Int /\ z.offset \in Offsets
  BY TypeOfZ DEF Zoneds
<1>1. CASE StepDuration
  BY <1>0, <1>1, ZonedAddInRange, ReturnKeepsType DEF StepDuration
<1>2. CASE StepTicks
  <2>1. ASSUME NEW d PROVE /\ OnTicks(z, TicksAdd(ticks, d)) \subseteq Zoneds
                           /\ OnTicks(z, TicksSub(ticks, d)) \subseteq Zoneds
    BY <1>0, CheckedInRange, OnTicksInRange DEF TicksAdd, TicksSub
  <2> QED  BY <1>2, <2>1, ReturnKeepsType DEF StepTicks
<1>3. CASE Saturate
  <2>1. ASSUME NEW d \in Durations
        PROVE  /\ OnTicks(z, Ok(TicksSaturatingAdd(ticks, d))) \subseteq Zoneds
               /\ OnTicks(z, Ok(TicksSaturatingSub(ticks, d))) \subseteq Zoneds
    <3>1. ticks + d \in Int /\ ticks - d \in Int
      BY <1>0, ArgumentAssumption, Widths DEF Inst
    <3>2. /\ Ok(TicksSaturatingAdd(ticks, d)) \subseteq Inst
          /\ Ok(TicksSaturatingSub(ticks, d)) \subseteq Inst
      BY <3>1, SaturatedInRange DEF Ok, TicksSaturatingAdd, TicksSaturatingSub
    <3> QED  BY <1>0, <3>2, OnTicksInRange
  <2> QED  BY <1>3, <2>1, ReturnKeepsType DEF Saturate
<1>4. CASE StepDays
  <2>1. ASSUME NEW n PROVE /\ ZonedAddDays(z, n) \subseteq Zoneds
                           /\ ZonedSubDays(z, n) \subseteq Zoneds
    BY <1>0, ZonedAddInRange DEF ZonedAddDays, ZonedSubDays, Try
  <2> QED  BY <1>4, <2>1, ReturnKeepsType DEF StepDays
<1>5. CASE StepMonths
  <2>1. ASSUME NEW n PROVE /\ ZonedAddMonths(z, n) \subseteq Zoneds
                           /\ ZonedSubMonths(z, n) \subseteq Zoneds
                           /\ ZonedAddYears(z, n) \subseteq Zoneds
    BY <1>0, AnchoredInRange
       DEF ZonedAddMonths, ZonedSubMonths, ZonedAddYears, ZonedAdjust, Try
  <2> QED  BY <1>5, <2>1, ReturnKeepsType DEF StepMonths
<1>6. CASE ReadThrough
  <2>1. ASSUME NEW o \in Offsets PROVE Ok(WithZone(z, o)) \subseteq Zoneds
    BY <1>0 DEF Ok, WithZone, Zoneds
  <2> QED  BY <1>6, <2>1, ReturnKeepsType DEF ReadThrough
<1>7. CASE AnchorElsewhere
  <2>1. ASSUME NEW o \in Offsets
        PROVE  Try(Civil(z), LAMBDA c : FromCivil(c, o)) \subseteq Zoneds
    BY AnchoredInRange DEF Try
  <2> QED  BY <1>7, <2>1, ReturnKeepsType DEF AnchorElsewhere
<1>8. CASE EditReading
  <2>1. CASE \E day \in 0..32 :
               Return(ZonedAdjust(z, LAMBDA c : OnDate(c, WithDay(c.date, day))))
    <3>1. PICK day \in 0..32 :
            Return(ZonedAdjust(z, LAMBDA c : OnDate(c, WithDay(c.date, day))))
      BY <2>1
    <3>2. ZonedAdjust(z, LAMBDA c : OnDate(c, WithDay(c.date, day))) \subseteq Zoneds
      BY <1>0, AnchoredInRange DEF ZonedAdjust, Try
    <3> QED  BY <3>1, <3>2, ReturnKeepsType
  <2>2. CASE \E time \in TimesOfDay :
               Return(ZonedAdjust(z, LAMBDA c : Ok([c EXCEPT !.time = time])))
    <3>1. PICK time \in TimesOfDay :
            Return(ZonedAdjust(z, LAMBDA c : Ok([c EXCEPT !.time = time])))
      BY <2>2
    <3>2. ZonedAdjust(z, LAMBDA c : Ok([c EXCEPT !.time = time])) \subseteq Zoneds
      BY <1>0, AnchoredInRange DEF ZonedAdjust, Try
    <3> QED  BY <3>1, <3>2, ReturnKeepsType
  <2> QED  BY <1>8, <2>1, <2>2 DEF EditReading
<1>9. CASE UNCHANGED vars
  BY <1>9 DEF vars, TypeOK
<1> QED
  BY <1>1, <1>2, <1>3, <1>4, <1>5, <1>6, <1>7, <1>8, <1>9 DEF Next

(* Whatever the order of calls, instants stay within an i128 and offsets   *)
(* within a day.                                                           *)
THEOREM TypeCorrect == Spec => []TypeOK
BY InitType, NextType, PTL DEF Spec

-----------------------------------------------------------------------------
(* A Zoned reads as its local time, which is an instant in range wherever  *)
(* its day is a date.                                                      *)
LocalOf(x) == x.ticks + FromSeconds(x.offset)

LEMMA DatesAreInstants ==
  ASSUME NEW t \in Int, DayOf(t) \in Date
  PROVE  t \in Inst
<1> DEFINE d == DayOf(t)
<1>1. d \in Date /\ d * NsPerDay \in Int /\ t - d * NsPerDay \in TimesOfDay
  BY DayHoldsInstant
<1>2. InstMin <= d * NsPerDay - NsPerDay /\ d * NsPerDay + 2 * NsPerDay <= InstMax
  BY <1>1, DatesFit
<1> HIDE DEF d
<1> QED  BY <1>1, <1>2, Widths DEF Inst, TimesOfDay

LEMMA ReadingOf ==
  ASSUME NEW x \in Zoneds
  PROVE  /\ x.ticks \in Int /\ FromSeconds(x.offset) \in Int /\ LocalOf(x) \in Int
         /\ Civil(x) = ToCivilUtc(LocalOf(x))
<1> DEFINE local == LocalOf(x)
<1>1. x.ticks \in Int /\ FromSeconds(x.offset) \in Int
  BY OffsetIsShort, Widths DEF Zoneds, Inst
<1>2. local \in Int
  BY <1>1 DEF LocalOf
<1>3. Civil(x) = Try(CheckedInst(local), ToCivilUtc)
  BY DEF Civil, TicksAdd, LocalOf
<1> HIDE DEF local
<1>4. ASSUME local \in Inst PROVE Civil(x) = ToCivilUtc(local)
  BY <1>3, <1>4 DEF CheckedInst, Ok, Try
<1>5. ASSUME local \notin Inst PROVE Civil(x) = ToCivilUtc(local)
  <2>1. Civil(x) = Err
    BY <1>3, <1>5 DEF CheckedInst, Err, Try
  <2>2. DayOf(local) \notin Date
    BY <1>2, <1>5, DatesAreInstants
  <2>3. ToCivilUtc(local) = Err
    BY <1>2, <2>2, CivilOfInstant
  <2> QED  BY <2>1, <2>3
<1>6. Civil(x) = ToCivilUtc(local)
  BY <1>4, <1>5
<1> QED  BY <1>1, <1>2, <1>6 DEF local

(* civil and from_civil are inverse wherever the local day is a date.      *)
THEOREM ReadingsAreInverse == Spec => []ReadingsAnchorBack
<1>1. TypeOK => ReadingsAnchorBack
  <2> SUFFICES ASSUME TypeOK PROVE ReadingsAnchorBack
    OBVIOUS
  <2> DEFINE local == ticks + FromSeconds(offset)
  <2>0. ticks \in Int /\ FromSeconds(offset) \in Int /\ ticks \in Inst /\ local \in Int
    BY TypeOfZ, ReadingOf DEF TypeOK, LocalOf
  <2>1. Civil(z) = ToCivilUtc(local)
    BY TypeOfZ, ReadingOf DEF LocalOf
  <2> HIDE DEF local
  <2>2. Civil(z) # Err <=> DayOf(local) \in Date
    <3>1. CASE DayOf(local) \in Date
      <4>1. Civil(z) = {[date |-> DayOf(local), time |-> local - DayOf(local) * NsPerDay]}
        BY <2>0, <2>1, <3>1, CivilOfInstant
      <4> QED  BY <3>1, <4>1 DEF Err
    <3>2. CASE DayOf(local) \notin Date
      BY <2>0, <2>1, <3>2, CivilOfInstant DEF Err
    <3> QED  BY <3>1, <3>2
  <2>3. ASSUME NEW c \in Civil(z)
        PROVE  c \in Civils /\ FromCivil(c, offset) = {z}
    <3>1. c \in Civils /\ ToTicksUtc(c) = local
      BY <2>0, <2>1, InstantOfReading
    <3>2. ToTicksUtc(c) - FromSeconds(offset) = ticks
      BY <2>0, <3>1 DEF local
    <3>3. FromCivil(c, offset) = {[ticks |-> ticks, offset |-> offset]}
      BY <2>0, <3>2 DEF FromCivil, TicksSub, CheckedInst, Ok
    <3> QED  BY <3>1, <3>3 DEF z
  <2> QED  BY <2>2, <2>3 DEF ReadingsAnchorBack, DayOf, local
<1> QED  BY <1>1, TypeCorrect, PTL

-----------------------------------------------------------------------------
(* The order of readings.                                                  *)
LEMMA ReadingsInOrder ==
  ASSUME NEW c \in Civils, NEW e \in Civils
  PROVE  Before(c, e) <=> ToTicksUtc(c) < ToTicksUtc(e)
<1>1. /\ c.date \in Int /\ c.time \in Int /\ 0 <= c.time /\ c.time < NsPerDay
      /\ e.date \in Int /\ e.time \in Int /\ 0 <= e.time /\ e.time < NsPerDay
      /\ c.date * NsPerDay \in Int /\ e.date * NsPerDay \in Int
  BY CivilFieldsOf
<1> DEFINE d == c.date
           f == e.date
<1>2. CASE d < f
  <2>1. (d + 1) * NsPerDay <= f * NsPerDay /\ (d + 1) * NsPerDay = d * NsPerDay + NsPerDay
    BY <1>1, <1>2, Widths, Monotone
  <2> QED  BY <1>1, <1>2, <2>1, Widths DEF Before, ToTicksUtc
<1>3. CASE f < d
  <2>1. (f + 1) * NsPerDay <= d * NsPerDay /\ (f + 1) * NsPerDay = f * NsPerDay + NsPerDay
    BY <1>1, <1>3, Widths, Monotone
  <2> QED  BY <1>1, <1>3, <2>1, Widths DEF Before, ToTicksUtc
<1>4. CASE d = f
  BY <1>1, <1>4 DEF Before, ToTicksUtc
<1> QED  BY <1>1, <1>2, <1>3, <1>4

(* While the zone stays the same, readings are ordered as their instants.  *)
THEOREM ReadingsKeepOrder == Spec => ReadingsFollowInstants
<1>1. ASSUME TypeOK, TypeOK'
      PROVE  \A c \in Civil(z), e \in Civil(z)' :
               offset' = offset => (ticks < ticks' <=> Before(c, e))
  <2> SUFFICES ASSUME NEW c \in Civil(z), NEW e \in Civil(z)', offset' = offset
               PROVE  ticks < ticks' <=> Before(c, e)
    OBVIOUS
  <2>1. z \in Zoneds /\ z.ticks = ticks /\ z.offset = offset
    BY <1>1, TypeOfZ
  <2>2. z' \in Zoneds /\ z'.ticks = ticks' /\ z'.offset = offset'
    BY <1>1 DEF TypeOK, z, Zoneds
  <2>3. /\ ticks \in Int /\ FromSeconds(offset) \in Int
        /\ c \in Civils /\ ToTicksUtc(c) = ticks + FromSeconds(offset)
    BY <2>1, ReadingOf, InstantOfReading DEF LocalOf
  <2>4. Civil(z)' = Civil(z')
    BY DEF Civil, TicksAdd, CheckedInst, Try
  <2>5. /\ ticks' \in Int
        /\ e \in Civils /\ ToTicksUtc(e) = ticks' + FromSeconds(offset')
    BY <2>2, <2>4, ReadingOf, InstantOfReading DEF LocalOf
  <2> QED  BY <2>3, <2>5, ReadingsInOrder
<1> QED  BY <1>1, TypeCorrect, PTL DEF ReadingsFollowInstants

-----------------------------------------------------------------------------
(* Timestamps.                                                             *)
LEMMA FloorOf ==
  ASSUME NEW t \in Int, NEW u \in Nat \ {0}
  PROVE  /\ t \div u \in Int /\ (t \div u) * u \in Int
         /\ (t \div u) * u <= t /\ t < (t \div u) * u + u
<1> DEFINE q == t \div u
<1>1. q \in Int /\ q * u <= t /\ t < q * u + u
  BY FloorNsRoundsDown
<1> HIDE DEF q
<1>2. q * u \in Int
  BY <1>1
<1> QED  BY <1>1, <1>2 DEF q

(* A number of coarse units is no further from zero than one of fine ones. *)
LEMMA CoarserIsNearer ==
  ASSUME NEW t \in Int, NEW u \in Nat \ {0}, NEW k \in Nat \ {0}, u <= k
  PROVE  \/ 0 <= t \div k /\ t \div k <= t \div u
         \/ t \div u <= t \div k /\ t \div k <= 0
<1> DEFINE a == t \div u
           b == t \div k
<1>1. /\ a \in Int /\ a * u \in Int /\ a * u <= t /\ t < a * u + u
      /\ b \in Int /\ b * k \in Int /\ b * k <= t /\ t < b * k + k
  BY FloorOf
<1> HIDE DEF a, b
<1>2. (a + 1) * u = a * u + u /\ (b + 1) * k = b * k + k
  BY <1>1
<1>3. CASE 0 <= b /\ a < b
  <2>1. (a + 1) * u <= b * u
    BY <1>1, <1>3, Monotone
  <2>2. b * u <= b * k
    BY <1>1, <1>3
  <2> QED  BY <1>1, <1>2, <2>1, <2>2, <1>3
<1>4. CASE b < 0 /\ b < a
  <2>1. CASE a <= 0
    <3>1. (b + 1) * k <= a * k
      BY <1>1, <1>4, Monotone
    <3>2. (-a) * u <= (-a) * k
      BY <1>1, <2>1
    <3>3. (-a) * u = -(a * u) /\ (-a) * k = -(a * k) /\ a * k \in Int
      BY <1>1
    <3> QED  BY <1>1, <1>2, <3>1, <3>2, <3>3
  <2>2. CASE 0 < a
    <3>1. (b + 1) * k <= 0 * k /\ 0 * u <= a * u
      BY <1>1, <1>4, <2>2, Monotone
    <3> QED  BY <1>1, <1>2, <3>1
  <2> QED  BY <1>1, <2>1, <2>2
<1> QED  BY <1>1, <1>3, <1>4 DEF a, b

LEMMA SecondsSplit ==
  ASSUME NEW t \in Int, NEW s, s = t \div NsPerSec
  PROVE  /\ s \in Int /\ s * NsPerSec \in Int
         /\ t - s * NsPerSec \in 0..NsPerSec-1
         /\ ToUnixSeconds(t) = IF s \in Long THEN {<<s, t - s * NsPerSec>>} ELSE {}
<1>1. s \in Int /\ s * NsPerSec \in Int /\ s * NsPerSec <= t /\ t < s * NsPerSec + NsPerSec
  BY FloorOf, Widths
<1>2. FloorDivNs(t, NsPerSec) = s /\ FloorRemNs(t, NsPerSec) = t - s * NsPerSec
  BY FloorNsRoundsDown, Widths
<1>3. t - s * NsPerSec \in 0..NsPerSec-1
  BY <1>1, Widths
<1> QED  BY <1>1, <1>2, <1>3 DEF ToUnixSeconds, Ok, Err

(* The seconds of an instant are negative exactly before the epoch.        *)
LEMMA SecondsHaveSign ==
  ASSUME NEW t \in Int, NEW s, s = t \div NsPerSec
  PROVE  s >= 0 <=> t >= 0
<1>1. s \in Int /\ s * NsPerSec \in Int /\ s * NsPerSec <= t /\ t < s * NsPerSec + NsPerSec
  BY FloorOf, Widths
<1>2. CASE s >= 0
  <2>1. 0 * NsPerSec <= s * NsPerSec
    BY <1>1, <1>2, Widths, Monotone
  <2> QED  BY <1>1, <1>2, <2>1, Widths
<1>3. CASE s < 0
  <2>1. (s + 1) * NsPerSec <= 0 * NsPerSec /\ (s + 1) * NsPerSec = s * NsPerSec + NsPerSec
    BY <1>1, <1>3, Widths, Monotone
  <2> QED  BY <1>1, <1>3, <2>1, Widths
<1> QED  BY <1>1, <1>2, <1>3

(* Seconds and nanoseconds, a SystemTime, and a timestamp in every unit.   *)
THEOREM TimestampsAreExact == Spec => []TimestampsIdentifyInstant
<1>1. TypeOK => TimestampsIdentifyInstant
  <2> SUFFICES ASSUME TypeOK PROVE TimestampsIdentifyInstant
    OBVIOUS
  <2> DEFINE s == ticks \div NsPerSec
  <2>0. ticks \in Int
    BY TypeOfZ
  <2>1. /\ s \in Int /\ s * NsPerSec \in Int /\ ticks - s * NsPerSec \in 0..NsPerSec-1
        /\ ToUnixSeconds(ticks) = IF s \in Long THEN {<<s, ticks - s * NsPerSec>>} ELSE {}
        /\ (s >= 0 <=> ticks >= 0)
    BY <2>0, SecondsSplit, SecondsHaveSign
  <2> HIDE DEF s
  <2>2. ToUnixSeconds(ticks) # Err <=> s \in Long
    BY <2>1 DEF Err
  <2>3. ASSUME NEW p \in ToUnixSeconds(ticks)
        PROVE  FromTimespec(p[1], p[2]) = {ticks}
    <3>1. p[1] = s /\ p[2] = ticks - s * NsPerSec
      BY <2>1
    <3>2. p[2] \in 0..NsPerSec-1 /\ ~(p[2] >= NsPerSec)
      BY <2>1, <3>1, Widths
    <3>3. FromSeconds(p[1]) + p[2] = ticks
      BY <2>0, <2>1, <3>1 DEF FromSeconds
    <3> QED  BY <3>2, <3>3 DEF FromTimespec, FromUnixSeconds, Ok
  <2>4. ToStdTime(ticks) # Err <=> s \in Long /\ ticks >= 0
    <3>1. CASE s \in Long
      <4>1. ToUnixSeconds(ticks) = {<<s, ticks - s * NsPerSec>>}
        BY <2>1, <3>1
      <4> DEFINE p == <<s, ticks - s * NsPerSec>>
      <4>2. ToStdTime(ticks) = {x \in {p} : x[1] >= 0} /\ p[1] = s
        BY <4>1 DEF ToStdTime
      <4> HIDE DEF p
      <4>3. ToStdTime(ticks) # {} <=> s >= 0
        BY <4>2
      <4> QED  BY <2>1, <3>1, <4>3 DEF Err
    <3>2. CASE s \notin Long
      BY <2>1, <3>2 DEF ToStdTime, Err
    <3> QED  BY <3>1, <3>2
  <2>5. ASSUME NEW unit \in StampUnits, NEW n \in Timestamp(ticks, unit)
        PROVE  /\ FromTimestamp(n, unit) \in ticks - unit + 1 .. ticks
               /\ \A coarse \in StampUnits :
                    coarse >= unit => Timestamp(ticks, coarse) # Err
               /\ \A c \in ToCivilUtc(ticks), e \in CivilFromTimestamp(n, unit) :
                    ~Before(c, e)
    <3>0. unit \in Nat \ {0}
      BY ArgumentAssumption
    <3>1. /\ n = ticks \div unit /\ n \in Long
      BY <2>0, <3>0, FloorNsRoundsDown DEF Timestamp, Ok, Err
    <3>2. n \in Int /\ n * unit \in Int /\ n * unit <= ticks /\ ticks < n * unit + unit
      BY <2>0, <3>0, <3>1, FloorOf
    <3>3. FromTimestamp(n, unit) \in ticks - unit + 1 .. ticks
      BY <2>0, <3>0, <3>2 DEF FromTimestamp
    <3>4. ASSUME NEW coarse \in StampUnits, coarse >= unit
          PROVE  Timestamp(ticks, coarse) # Err
      <4> DEFINE m == ticks \div coarse
      <4>1. coarse \in Nat \ {0}
        BY ArgumentAssumption
      <4>2. m \in Int /\ FloorDivNs(ticks, coarse) = m
        BY <2>0, <4>1, FloorNsRoundsDown
      <4>3. (0 <= m /\ m <= n) \/ (n <= m /\ m <= 0)
        BY <2>0, <3>0, <3>1, <3>4, <4>1, CoarserIsNearer
      <4> HIDE DEF m
      <4>4. m \in Long
        BY <3>1, <3>2, <4>2, <4>3, Widths DEF Long
      <4> QED  BY <4>2, <4>4 DEF Timestamp, Ok, Err
    <3>5. ASSUME NEW c \in ToCivilUtc(ticks), NEW e \in CivilFromTimestamp(n, unit)
          PROVE  ~Before(c, e)
      <4>1. c \in Civils /\ ToTicksUtc(c) = ticks
        BY <2>0, InstantOfReading
      <4>2. e \in Civils /\ ToTicksUtc(e) = n * unit
        BY <3>2, InstantOfReading DEF CivilFromTimestamp, FromTimestamp
      <4> QED  BY <2>0, <3>2, <4>1, <4>2, ReadingsInOrder
    <3> QED  BY <3>3, <3>4, <3>5
  <2> QED  BY <2>2, <2>3, <2>4, <2>5 DEF TimestampsIdentifyInstant, s
<1> QED  BY <1>1, TypeCorrect, PTL

-----------------------------------------------------------------------------
(* Saturation.                                                             *)
FirstInstant == DateMin * NsPerDay
LastInstant  == DateMax * NsPerDay + NsPerDay - 1

LEMMA DatesSpan ==
  ASSUME NEW t \in Int
  PROVE  /\ FirstInstant \in Int /\ LastInstant \in Int
         /\ DayOf(t) \in Date <=> FirstInstant <= t /\ t <= LastInstant
<1> DEFINE d == DayOf(t)
<1>1. /\ d \in Int /\ d * NsPerDay \in Int
      /\ d * NsPerDay <= t /\ t < d * NsPerDay + NsPerDay
  BY DayHoldsInstant, Widths DEF TimesOfDay
<1> HIDE DEF d
<1>2. FirstInstant \in Int /\ LastInstant \in Int /\ DateMax * NsPerDay \in Int
  BY Widths DEF FirstInstant, LastInstant
<1>3. ASSUME d \in Date PROVE FirstInstant <= t /\ t <= LastInstant
  <2>1. DateMin * NsPerDay <= d * NsPerDay /\ d * NsPerDay <= DateMax * NsPerDay
    BY <1>1, <1>3, Widths, Monotone DEF Date
  <2> QED  BY <1>1, <1>2, <2>1, Widths DEF FirstInstant, LastInstant
<1>4. ASSUME d < DateMin PROVE t < FirstInstant
  <2>1. (d + 1) * NsPerDay <= DateMin * NsPerDay
          /\ (d + 1) * NsPerDay = d * NsPerDay + NsPerDay
    BY <1>1, <1>4, Widths, Monotone
  <2> QED  BY <1>1, <1>2, <2>1, Widths DEF FirstInstant
<1>5. ASSUME DateMax < d PROVE LastInstant < t
  <2>1. (DateMax + 1) * NsPerDay <= d * NsPerDay
          /\ (DateMax + 1) * NsPerDay = DateMax * NsPerDay + NsPerDay
    BY <1>1, <1>5, Widths, Monotone
  <2> QED  BY <1>1, <1>2, <2>1, Widths DEF LastInstant
<1> QED  BY <1>1, <1>2, <1>3, <1>4, <1>5, Widths DEF Date, d

LEMMA CivilSum ==
  ASSUME NEW c \in Civils, NEW d \in Int
  PROVE  CivilAdd(c, d) = ToCivilUtc(ToTicksUtc(c) + d) /\ ToTicksUtc(c) + d \in Int
<1> DEFINE t == ToTicksUtc(c) + d
<1>1. t \in Int
  BY CivilFieldsOf
<1>2. CivilAdd(c, d) = Try(CheckedInst(t), ToCivilUtc)
  BY DEF CivilAdd
<1> HIDE DEF t
<1>3. ASSUME t \in Inst PROVE CivilAdd(c, d) = ToCivilUtc(t)
  BY <1>2, <1>3 DEF CheckedInst, Ok, Try
<1>4. ASSUME t \notin Inst PROVE CivilAdd(c, d) = ToCivilUtc(t)
  <2>1. CivilAdd(c, d) = Err
    BY <1>2, <1>4 DEF CheckedInst, Err, Try
  <2>2. ToCivilUtc(t) = Err
    BY <1>1, <1>4, DatesAreInstants, CivilOfInstant
  <2> QED  BY <2>1, <2>2
<1> QED  BY <1>1, <1>3, <1>4 DEF t

Limited(t) ==
  IF t < FirstInstant THEN FirstInstant ELSE IF t > LastInstant THEN LastInstant ELSE t

LEMMA LimitsAreCivil ==
  /\ [date |-> DateMin, time |-> 0] \in Civils
  /\ ToTicksUtc([date |-> DateMin, time |-> 0]) = FirstInstant
  /\ [date |-> DateMax, time |-> NsPerDay - 1] \in Civils
  /\ ToTicksUtc([date |-> DateMax, time |-> NsPerDay - 1]) = LastInstant
<1>1. /\ DateMin \in Date /\ DateMax \in Date
      /\ 0 \in TimesOfDay /\ NsPerDay - 1 \in TimesOfDay
  BY LimitsAreDates, Widths DEF TimesOfDay
<1>2. DateMin * NsPerDay \in Int /\ DateMax * NsPerDay \in Int
  BY Widths
<1>3. /\ DateMin * NsPerDay + 0 = DateMin * NsPerDay
      /\ DateMax * NsPerDay + (NsPerDay - 1) = DateMax * NsPerDay + NsPerDay - 1
  BY <1>2, Widths
<1> QED  BY <1>1, <1>3 DEF Civils, ToTicksUtc, FirstInstant, LastInstant

(* A saturating sum is the exact one, limited to the instants of dates.    *)
LEMMA SaturatedReading ==
  ASSUME NEW c \in Civils, NEW d \in Int, NEW r, r = CivilSaturatingAdd(c, d)
  PROVE  r \in Civils /\ ToTicksUtc(r) = Limited(ToTicksUtc(c) + d)
<1> DEFINE t == ToTicksUtc(c)
           u == ToTicksUtc(c) + d
<1>1. t \in Int /\ u \in Int /\ CivilAdd(c, d) = ToCivilUtc(u)
  BY CivilSum, CivilFieldsOf
<1>2. FirstInstant <= t /\ t <= LastInstant /\ FirstInstant \in Int /\ LastInstant \in Int
  <2>1. DayOf(t) = c.date /\ c.date \in Date
    BY ReadingOfInstant, CivilFieldsOf
  <2> QED  BY <1>1, <2>1, DatesSpan
<1>3. u = t + d
  OBVIOUS
<1> HIDE DEF t, u
<1>4. r = UnwrapOr(ToCivilUtc(u),
                   IF d >= 0 THEN [date |-> DateMax, time |-> NsPerDay - 1]
                             ELSE [date |-> DateMin, time |-> 0])
  BY <1>1 DEF CivilSaturatingAdd
<1>5. CASE DayOf(u) \in Date
  <2>1. FirstInstant <= u /\ u <= LastInstant
    BY <1>1, <1>5, DatesSpan
  <2>2. PICK e : ToCivilUtc(u) = {e}
    BY <1>1, <1>5, CivilOfInstant
  <2>3. r = e
    BY <1>4, <2>2 DEF UnwrapOr, Err
  <2>4. e \in Civils /\ ToTicksUtc(e) = u
    BY <1>1, <2>2, InstantOfReading
  <2>5. Limited(u) = u
    BY <1>1, <1>2, <2>1 DEF Limited
  <2> QED  BY <2>3, <2>4, <2>5 DEF u
<1>6. CASE DayOf(u) \notin Date
  <2>1. ToCivilUtc(u) = Err
    BY <1>1, <1>6, CivilOfInstant
  <2>2. r = IF d >= 0 THEN [date |-> DateMax, time |-> NsPerDay - 1]
                      ELSE [date |-> DateMin, time |-> 0]
    BY <1>4, <2>1 DEF UnwrapOr
  <2>3. u < FirstInstant \/ LastInstant < u
    BY <1>1, <1>2, <1>6, DatesSpan
  <2>4. CASE u < FirstInstant
    <3>1. d < 0 /\ Limited(u) = FirstInstant
      BY <1>1, <1>2, <1>3, <2>4 DEF Limited
    <3> QED  BY <2>2, <3>1, LimitsAreCivil DEF u
  <2>5. CASE LastInstant < u
    <3>1. d >= 0 /\ Limited(u) = LastInstant
      BY <1>1, <1>2, <1>3, <2>5 DEF Limited
    <3> QED  BY <2>2, <3>1, LimitsAreCivil DEF u
  <2> QED  BY <2>3, <2>4, <2>5
<1> QED  BY <1>5, <1>6

LEMMA ArgumentsAreInts ==
  /\ \A d \in Durations : d \in Int /\ d \in Inst
  /\ \A m \in Marks : m \in Int /\ m \in Inst
BY ArgumentAssumption, Widths DEF Inst

(* A longer duration never lands before a shorter one.                     *)
THEOREM SaturationIsMonotone == Spec => []SaturationKeepsOrder
<1>1. TypeOK => SaturationKeepsOrder
  <2> SUFFICES ASSUME TypeOK, NEW d \in Durations, NEW e \in Durations, d <= e
               PROVE  /\ TicksSaturatingAdd(ticks, d) <= TicksSaturatingAdd(ticks, e)
                      /\ TicksSaturatingSub(ticks, e) <= TicksSaturatingSub(ticks, d)
                      /\ \A c \in Civil(z) :
                           ~Before(CivilSaturatingAdd(c, e), CivilSaturatingAdd(c, d))
    BY DEF SaturationKeepsOrder
  <2>0. /\ ticks \in Int /\ d \in Int /\ e \in Int
        /\ InstMin \in Int /\ InstMax \in Int /\ InstMin <= InstMax
    BY TypeOfZ, ArgumentsAreInts, Widths DEF TypeOK, Inst
  <2>1. TicksSaturatingAdd(ticks, d) <= TicksSaturatingAdd(ticks, e)
    BY <2>0 DEF TicksSaturatingAdd, SaturatedInst
  <2>2. TicksSaturatingSub(ticks, e) <= TicksSaturatingSub(ticks, d)
    BY <2>0 DEF TicksSaturatingSub, SaturatedInst
  <2>3. ASSUME NEW c \in Civil(z)
        PROVE  ~Before(CivilSaturatingAdd(c, e), CivilSaturatingAdd(c, d))
    <3> DEFINE r == CivilSaturatingAdd(c, d)
               q == CivilSaturatingAdd(c, e)
               t == ToTicksUtc(c)
    <3>1. c \in Civils
      BY TypeOfZ, ReadingOf, InstantOfReading
    <3>2. t \in Int /\ FirstInstant \in Int /\ LastInstant \in Int
      BY <3>1, CivilFieldsOf, DatesSpan
    <3>3. /\ r \in Civils /\ ToTicksUtc(r) = Limited(t + d)
          /\ q \in Civils /\ ToTicksUtc(q) = Limited(t + e)
      BY <2>0, <3>1, SaturatedReading
    <3>4. FirstInstant <= LastInstant
      <4>1. DateMin * NsPerDay <= DateMax * NsPerDay
        BY Widths, Monotone
      <4> QED  BY <4>1, Widths DEF FirstInstant, LastInstant
    <3> HIDE DEF r, q, t
    <3>5. ~(Limited(t + e) < Limited(t + d))
      BY <2>0, <3>2, <3>4 DEF Limited
    <3>6. ~Before(q, r)
      BY <3>3, <3>5, ReadingsInOrder
    <3> QED  BY <3>6 DEF q, r
  <2> QED  BY <2>1, <2>2, <2>3
<1> QED  BY <1>1, TypeCorrect, PTL

-----------------------------------------------------------------------------
(* The distance of two readings is that of their instants, and fits.       *)
LEMMA DistanceFits ==
  ASSUME NEW c \in Civils, NEW e \in Civils
  PROVE  /\ CivilSince(c, e) = ToTicksUtc(c) - ToTicksUtc(e)
         /\ CivilSince(c, e) \in Inst
<1> DEFINE n == c.date - e.date
           h == c.time - e.time
<1>1. /\ c.date \in Int /\ c.time \in Int /\ 0 <= c.time /\ c.time < NsPerDay
      /\ e.date \in Int /\ e.time \in Int /\ 0 <= e.time /\ e.time < NsPerDay
      /\ c.date * NsPerDay \in Int /\ e.date * NsPerDay \in Int
      /\ c.date \in Date /\ e.date \in Date
  BY CivilFieldsOf
<1>2. /\ n \in Int /\ h \in Int /\ -NsPerDay < h /\ h < NsPerDay
      /\ DateMin - DateMax <= n /\ n <= DateMax - DateMin
      /\ n * NsPerDay = c.date * NsPerDay - e.date * NsPerDay
  BY <1>1, Widths DEF Date
<1>3. CivilSince(c, e) = n * NsPerDay + h
  BY DEF CivilSince
<1>4. CivilSince(c, e) = ToTicksUtc(c) - ToTicksUtc(e)
  BY <1>1, <1>2, <1>3 DEF ToTicksUtc
<1> HIDE DEF n, h
<1>5. LongMin <= n - 1 /\ n + 1 <= LongMax
  BY <1>2, Widths
<1>6. LongMin * NsPerDay <= (n - 1) * NsPerDay /\ (n + 1) * NsPerDay <= LongMax * NsPerDay
  BY <1>2, <1>5, Widths, Monotone
<1>7. /\ (n - 1) * NsPerDay = n * NsPerDay - NsPerDay
      /\ (n + 1) * NsPerDay = n * NsPerDay + NsPerDay
      /\ n * NsPerDay \in Int
  BY <1>2, Widths
<1>8. n * NsPerDay + h \in Inst
  BY <1>2, <1>6, <1>7, LongDaysFit, Widths DEF Inst
<1> QED  BY <1>3, <1>4, <1>8

LEMMA DifferenceOfReadings ==
  ASSUME TypeOK, NEW m \in Marks,
         NEW c \in Civil(z), NEW e \in Civil([ticks |-> m, offset |-> offset])
  PROVE  CivilSince(c, e) = ticks - m /\ ticks - m \in Inst
<1> DEFINE y == [ticks |-> m, offset |-> offset]
<1>1. y \in Zoneds /\ y.ticks = m /\ y.offset = offset
  BY ArgumentsAreInts DEF TypeOK, Zoneds
<1>2. /\ ticks \in Int /\ m \in Int /\ FromSeconds(offset) \in Int
      /\ c \in Civils /\ ToTicksUtc(c) = ticks + FromSeconds(offset)
  BY TypeOfZ, ArgumentsAreInts, ReadingOf, InstantOfReading DEF LocalOf
<1>3. e \in Civils /\ ToTicksUtc(e) = m + FromSeconds(offset)
  BY <1>1, ReadingOf, InstantOfReading DEF LocalOf
<1>4. CivilSince(c, e) = ToTicksUtc(c) - ToTicksUtc(e) /\ CivilSince(c, e) \in Inst
  BY <1>2, <1>3, DistanceFits
<1> QED  BY <1>2, <1>3, <1>4

(* Adding a difference to where it was taken from comes back.              *)
THEOREM DifferencesAreExact == Spec => []DifferencesRecover
<1>1. TypeOK => DifferencesRecover
  <2> SUFFICES ASSUME TypeOK, NEW m \in Marks, NEW d, d = DurationSince(ticks, m)
               PROVE  /\ \/ TicksAdd(m, d) = {ticks}
                         \/ d = InstMax /\ ticks > m /\ ticks - m \notin Inst
                         \/ d = InstMin /\ ticks < m /\ ticks - m \notin Inst
                      /\ \A c \in Civil(z), e \in Civil([ticks |-> m, offset |-> offset]) :
                           CivilSince(c, e) = d
    BY DEF DifferencesRecover
  <2>0. /\ ticks \in Int /\ m \in Int /\ ticks \in Inst /\ m \in Inst
        /\ InstMin \in Int /\ InstMax \in Int
    BY TypeOfZ, ArgumentsAreInts, Widths DEF TypeOK
  <2>1. InstMin <= 0 /\ 0 <= InstMax
    <3>1. LongMin * NsPerDay <= 0 * NsPerDay /\ 0 * NsPerDay <= LongMax * NsPerDay
      BY Widths, Monotone
    <3>2. 0 * NsPerDay = 0
      BY Widths
    <3> QED  BY <2>0, <3>1, <3>2, LongDaysFit
  <2>2. CASE ticks - m \in Inst
    <3>1. d = ticks - m
      BY <2>0, <2>2 DEF DurationSince, SaturatedInst, Inst
    <3>2. m + d = ticks
      BY <2>0, <3>1
    <3> QED
      <4>1. TicksAdd(m, d) = {ticks}
        BY <2>0, <3>2 DEF TicksAdd, CheckedInst, Ok
      <4>2. ASSUME NEW c \in Civil(z), NEW e \in Civil([ticks |-> m, offset |-> offset])
            PROVE  CivilSince(c, e) = d
        BY <3>1, DifferenceOfReadings
      <4> QED  BY <4>1, <4>2
  <2>3. CASE ticks - m \notin Inst
    <3>1. ticks - m < InstMin \/ ticks - m > InstMax
      BY <2>0, <2>3 DEF Inst
    <3>2. \/ d = InstMax /\ ticks > m
          \/ d = InstMin /\ ticks < m
      BY <2>0, <2>1, <3>1 DEF DurationSince, SaturatedInst
    <3>3. ASSUME NEW c \in Civil(z), NEW e \in Civil([ticks |-> m, offset |-> offset])
          PROVE  FALSE
      BY <2>3, DifferenceOfReadings
    <3> QED  BY <2>3, <3>2, <3>3
  <2> QED  BY <2>2, <2>3
<1> QED  BY <1>1, TypeCorrect, PTL

-----------------------------------------------------------------------------
(* Arithmetic on the instant, seen through its reading.                    *)
LEMMA ShiftedReading ==
  ASSUME NEW x \in Zoneds, NEW d \in Int
  PROVE  Try(ZonedAdd(x, d), Civil) = ToCivilUtc(LocalOf(x) + d)
<1> DEFINE t == x.ticks + d
           y == [x EXCEPT !.ticks = t]
           o == FromSeconds(x.offset)
           local == LocalOf(x)
<1>1. x.ticks \in Int /\ o \in Int /\ local = x.ticks + o /\ x.offset \in Offsets
  BY ReadingOf DEF LocalOf, Zoneds
<1>2. t \in Int /\ local + d \in Int /\ t + o = local + d
  BY <1>1
<1>3. y = [ticks |-> t, offset |-> x.offset]
  BY DEF Zoneds
<1>4. ZonedAdd(x, d) = IF t \in Inst THEN {y} ELSE {}
  BY DEF ZonedAdd, OnTicks, TicksAdd, CheckedInst, Ok, Err
<1>5. -NsPerDay < o /\ o < NsPerDay
  BY <1>1, OffsetIsShort
<1> HIDE DEF t, y, o, local
<1>6. CASE t \in Inst
  <2>1. y \in Zoneds /\ LocalOf(y) = local + d
    BY <1>1, <1>2, <1>3, <1>6 DEF Zoneds, LocalOf, o
  <2>2. Civil(y) = ToCivilUtc(local + d)
    BY <2>1, ReadingOf
  <2>3. Try(ZonedAdd(x, d), Civil) = Civil(y)
    BY <1>4, <1>6 DEF Try
  <2> QED  BY <2>2, <2>3 DEF local
<1>7. CASE t \notin Inst
  <2>1. Try(ZonedAdd(x, d), Civil) = {}
    BY <1>4, <1>7 DEF Try
  <2>2. ASSUME NEW v \in ToCivilUtc(local + d) PROVE FALSE
    <3>1. v \in Civils /\ ToTicksUtc(v) = local + d
      BY <1>2, InstantOfReading
    <3>2. ToTicksUtc(v) - o \in Inst
      BY <1>1, <1>5, <3>1, ReadingsFit
    <3>3. ToTicksUtc(v) - o = t
      BY <1>1, <1>2, <3>1 DEF t
    <3> QED  BY <1>7, <3>2, <3>3
  <2> QED  BY <2>1, <2>2 DEF local
<1> QED  BY <1>6, <1>7

(* Whole days later, the reading shows the date so many days later.        *)
LEMMA DaysLater ==
  ASSUME NEW c \in Civils, NEW n \in Int
  PROVE  ToCivilUtc(ToTicksUtc(c) + n * NsPerDay) = OnDate(c, FromDaysChecked(c.date + n))
<1> DEFINE t == ToTicksUtc(c) + n * NsPerDay
           q == c.date + n
<1>1. /\ c.date \in Int /\ c.time \in Int /\ 0 <= c.time /\ c.time < NsPerDay
      /\ c.date * NsPerDay \in Int /\ c = [date |-> c.date, time |-> c.time]
  BY CivilFieldsOf
<1>2. q \in Int /\ q * NsPerDay = c.date * NsPerDay + n * NsPerDay /\ n * NsPerDay \in Int
  BY <1>1, Widths
<1>3. t \in Int /\ t = q * NsPerDay + c.time
  BY <1>1, <1>2 DEF ToTicksUtc
<1> HIDE DEF t, q
<1>4. q * NsPerDay <= t /\ t < q * NsPerDay + NsPerDay /\ t - q * NsPerDay = c.time
        /\ q * NsPerDay \in Int
  BY <1>1, <1>2, <1>3, Widths
<1>5. DayOf(t) = q
  BY <1>2, <1>3, <1>4, DayIsUnique
<1>6. ToCivilUtc(t) = IF q \in Date THEN {[date |-> q, time |-> c.time]} ELSE {}
  BY <1>3, <1>4, <1>5, CivilOfInstant DEF Err
<1>7. [c EXCEPT !.date = q] = [date |-> q, time |-> c.time]
  BY <1>1
<1>8. OnDate(c, FromDaysChecked(q)) = IF q \in Date THEN {[date |-> q, time |-> c.time]} ELSE {}
  BY <1>7 DEF OnDate, FromDaysChecked, Ok, Err
<1> QED  BY <1>6, <1>8 DEF t, q

LEMMA DayStepsAgree ==
  ASSUME NEW x \in Zoneds, NEW c \in Civil(x), NEW n \in Nat
  PROVE  /\ CivilAddDays(c, n) = Try(ZonedAddDays(x, n), Civil)
         /\ CivilSubDays(c, n) = Try(ZonedSubDays(x, n), Civil)
<1>1. c \in Civils /\ ToTicksUtc(c) = LocalOf(x) /\ c.date \in Date /\ c.date \in Int
  BY ReadingOf, InstantOfReading, CivilFieldsOf
<1>2. n * NsPerDay \in Int /\ (-n) * NsPerDay = -(n * NsPerDay) /\ -n \in Int
  BY Widths
<1>3. /\ CivilAddDays(c, n) = ToCivilUtc(LocalOf(x) + n * NsPerDay)
      /\ CivilSubDays(c, n) = ToCivilUtc(LocalOf(x) + (-(n * NsPerDay)))
  <2>1. CivilAddDays(c, n) = OnDate(c, FromDaysChecked(c.date + n))
    BY DEF CivilAddDays, AddDays
  <2>2. CivilSubDays(c, n) = OnDate(c, FromDaysChecked(c.date + (-n)))
    <3>1. c.date - n = c.date + (-n)
      BY <1>1
    <3> QED  BY <3>1 DEF CivilSubDays, SubDays
  <2> QED  BY <1>1, <1>2, <2>1, <2>2, DaysLater
<1>4. ASSUME NEW days \in Int, c.date + days \notin Date
      PROVE  OnDate(c, FromDaysChecked(c.date + days)) = {}
  BY <1>4 DEF OnDate, FromDaysChecked, Err
<1>5. DateMin <= c.date /\ c.date <= DateMax
  BY <1>1, Widths DEF Date
<1>6. CivilAddDays(c, n) = Try(ZonedAddDays(x, n), Civil)
  <2>1. CASE n > LongMax
    <3>1. Try(ZonedAddDays(x, n), Civil) = {}
      BY <2>1 DEF ZonedAddDays, CheckedDays, Err, Try
    <3>2. c.date + n \notin Date
      BY <1>1, <1>5, <2>1, Widths DEF Date
    <3> QED  BY <1>4, <3>1, <3>2 DEF CivilAddDays, AddDays
  <2>2. CASE ~(n > LongMax)
    <3>1. ZonedAddDays(x, n) = ZonedAdd(x, n * NsPerDay)
      BY <2>2 DEF ZonedAddDays, CheckedDays, FromDays, Ok, Try
    <3> QED  BY <1>2, <1>3, <3>1, ShiftedReading
  <2> QED  BY <2>1, <2>2
<1>7. CivilSubDays(c, n) = Try(ZonedSubDays(x, n), Civil)
  <2> DEFINE ns == n * NsPerDay
  <2>1. CASE n > LongMax \/ -ns \notin Inst
    <3>1. Try(ZonedSubDays(x, n), Civil) = {}
      <4>1. CASE n > LongMax
        BY <4>1 DEF ZonedSubDays, CheckedDays, Err, Try
      <4>2. CASE ~(n > LongMax) /\ -ns \notin Inst
        <5>1. ZonedSubDays(x, n) = ZonedSub(x, ns)
          BY <4>2 DEF ZonedSubDays, CheckedDays, FromDays, Ok, Try
        <5>2. ZonedSub(x, ns) = {}
          BY <4>2 DEF ZonedSub, CheckedNeg, CheckedInst, Err, Try
        <5> QED  BY <5>1, <5>2 DEF Try
      <4> QED  BY <2>1, <4>1, <4>2
    <3>2. c.date + (-n) \notin Date
      <4>1. CASE n > LongMax
        BY <1>1, <1>5, <4>1, Widths DEF Date
      <4>2. CASE n <= LongMax /\ -ns \notin Inst
        <5>1. ns <= LongMax * NsPerDay /\ 0 * NsPerDay <= ns /\ 0 * NsPerDay = 0
          BY <4>2, Widths, Monotone
        <5>2. 0 <= InstMax
          BY <1>2, <5>1, LongDaysFit, Widths
        <5>3. -ns < LongMin * NsPerDay
          BY <1>2, <4>2, <5>1, <5>2, LongDaysFit, Widths DEF Inst
        <5>4. ~(LongMin <= -n)
          <6>1. LongMin <= -n => LongMin * NsPerDay <= (-n) * NsPerDay
            BY <1>2, Widths, Monotone
          <6> QED  BY <1>2, <5>3, <6>1, LongDaysFit
        <5> QED  BY <1>1, <1>5, <5>4, Widths DEF Date
      <4> QED  BY <2>1, <4>1, <4>2, Widths
    <3>3. c.date - n = c.date + (-n)
      BY <1>1
    <3>4. CivilSubDays(c, n) = {}
      BY <1>2, <1>4, <3>2, <3>3 DEF CivilSubDays, SubDays
    <3> QED  BY <3>1, <3>4
  <2>2. CASE ~(n > LongMax) /\ -ns \in Inst
    <3>1. ZonedSubDays(x, n) = ZonedSub(x, ns)
      BY <2>2 DEF ZonedSubDays, CheckedDays, FromDays, Ok, Try
    <3>2. ZonedSub(x, ns) = ZonedAdd(x, -ns)
      BY <2>2 DEF ZonedSub, CheckedNeg, CheckedInst, Ok, Try
    <3>3. -ns \in Int
      BY <1>2
    <3> QED  BY <1>2, <1>3, <3>1, <3>2, <3>3, ShiftedReading
  <2> QED  BY <2>1, <2>2
<1> QED  BY <1>6, <1>7

LEMMA DurationStepsAgree ==
  ASSUME NEW x \in Zoneds, NEW c \in Civil(x), NEW d \in Int
  PROVE  /\ CivilAdd(c, d) = Try(ZonedAdd(x, d), Civil)
         /\ CivilSub(c, d) = Try(ZonedSub(x, d), Civil)
<1>1. c \in Civils /\ ToTicksUtc(c) = LocalOf(x)
  BY ReadingOf, InstantOfReading
<1>2. ASSUME NEW e \in Int PROVE CivilAdd(c, e) = Try(ZonedAdd(x, e), Civil)
  BY <1>1, CivilSum, ShiftedReading
<1>3. -d \in Int
  OBVIOUS
<1>4. CASE -d \in Inst
  <2>1. CivilSub(c, d) = CivilAdd(c, -d) /\ ZonedSub(x, d) = ZonedAdd(x, -d)
    BY <1>4 DEF CivilSub, ZonedSub, CheckedNeg, CheckedInst, Ok, Try
  <2> QED  BY <1>2, <1>3, <2>1
<1>5. CASE -d \notin Inst
  <2>1. CivilSub(c, d) = {} /\ ZonedSub(x, d) = {}
    BY <1>5 DEF CivilSub, ZonedSub, CheckedNeg, CheckedInst, Err, Try
  <2>2. Try(ZonedSub(x, d), Civil) = {}
    BY <2>1 DEF Try
  <2> QED  BY <1>2, <2>1, <2>2
<1> QED  BY <1>4, <1>5

(* In UTC, anchoring a reading is projecting it.                           *)
LEMMA AnchoringInUtc ==
  ASSUME NEW t, NEW S, S \subseteq Civils
  PROVE  UNION {FromCivil(c, 0) : c \in S}
           = OnTicks([ticks |-> t, offset |-> 0], {ToTicksUtc(c) : c \in S})
<1>1. ASSUME NEW c \in S
      PROVE  FromCivil(c, 0) = {[ticks |-> ToTicksUtc(c), offset |-> 0]}
  <2>1. ToTicksUtc(c) \in Int /\ FromSeconds(0) = 0
    BY CivilFieldsOf, Widths DEF FromSeconds
  <2>2. ToTicksUtc(c) - 0 \in Inst
    BY ReadingsFit, Widths
  <2>3. ToTicksUtc(c) - 0 = ToTicksUtc(c)
    BY <2>1
  <2> QED  BY <2>1, <2>2, <2>3 DEF FromCivil, TicksSub, CheckedInst, Ok
<1>2. UNION {FromCivil(c, 0) : c \in S} = {[ticks |-> ToTicksUtc(c), offset |-> 0] : c \in S}
  BY <1>1
<1>3. OnTicks([ticks |-> t, offset |-> 0], {ToTicksUtc(c) : c \in S})
        = {[ticks |-> ToTicksUtc(c), offset |-> 0] : c \in S}
  BY DEF OnTicks
<1> QED  BY <1>2, <1>3

(* What the month steps of a Zoned and of its instant do to a date.        *)
MonthsLater(readings, k) ==
  UNION {OnDate(c, AddSignedMonths(c.date, k)) : c \in readings}

LEMMA MonthsLaterAreCivil ==
  ASSUME NEW t \in Int, NEW k
  PROVE  MonthsLater(ToCivilUtc(t), k) \subseteq Civils
<1>1. ASSUME NEW c \in ToCivilUtc(t), NEW d \in AddSignedMonths(c.date, k)
      PROVE  [c EXCEPT !.date = d] \in Civils
  <2>1. c \in Civils
    BY InstantOfReading
  <2>2. d \in Date
    BY YmdInDate DEF AddSignedMonths, Err
  <2> QED  BY <2>1, <2>2 DEF Civils
<1> QED  BY <1>1 DEF MonthsLater, OnDate

LEMMA ZonedMonths ==
  ASSUME NEW x, NEW n
  PROVE  /\ ZonedAddMonths(x, n)
              = UNION {FromCivil(c, x.offset) : c \in MonthsLater(Civil(x), n)}
         /\ ZonedSubMonths(x, n)
              = UNION {FromCivil(c, x.offset) : c \in MonthsLater(Civil(x), -n)}
         /\ ZonedAddYears(x, n)
              = UNION {FromCivil(c, x.offset) : c \in MonthsLater(Civil(x), n * 12)}
BY DEF ZonedAddMonths, ZonedSubMonths, ZonedAddYears, ZonedAdjust, Try, MonthsLater,
       CivilAddMonths, CivilSubMonths, CivilAddYears, AddMonths, SubMonths, AddYears

LEMMA TicksMonths ==
  ASSUME NEW t, NEW n
  PROVE  /\ TicksAddMonths(t, n) = {ToTicksUtc(c) : c \in MonthsLater(ToCivilUtc(t), n)}
         /\ TicksSubMonths(t, n) = {ToTicksUtc(c) : c \in MonthsLater(ToCivilUtc(t), -n)}
BY DEF TicksAddMonths, TicksSubMonths, TicksAdjust, Try, MonthsLater,
       CivilAddMonths, CivilSubMonths, AddMonths, SubMonths

LEMMA MonthStepsAgree ==
  ASSUME NEW t \in Inst, NEW k, NEW x, x = [ticks |-> t, offset |-> 0]
  PROVE  UNION {FromCivil(c, x.offset) : c \in MonthsLater(Civil(x), k)}
           = OnTicks(x, {ToTicksUtc(c) : c \in MonthsLater(ToCivilUtc(t), k)})
<1>1. x \in Zoneds /\ x.offset = 0 /\ t \in Int
  BY Widths DEF Zoneds, Offsets, Inst
<1>2. LocalOf(x) = t
  BY <1>1, Widths DEF LocalOf, FromSeconds
<1>3. Civil(x) = ToCivilUtc(t)
  BY <1>1, <1>2, ReadingOf
<1> QED  BY <1>1, <1>3, MonthsLaterAreCivil, AnchoringInUtc

(* Arithmetic on the reading and on the instant agree, failures included.  *)
THEOREM ArithmeticAgrees == Spec => []CivilArithmeticAgrees
<1>1. TypeOK => CivilArithmeticAgrees
  <2> SUFFICES ASSUME TypeOK PROVE CivilArithmeticAgrees
    OBVIOUS
  <2> DEFINE utc == WithZone(z, 0)
  <2>0. z \in Zoneds /\ ticks \in Inst /\ ticks \in Int
    BY TypeOfZ DEF TypeOK
  <2>1. ASSUME NEW c \in Civil(z), NEW d \in Durations
        PROVE  /\ CivilAdd(c, d) = Try(ZonedAdd(z, d), Civil)
               /\ CivilSub(c, d) = Try(ZonedSub(z, d), Civil)
    BY <2>0, ArgumentsAreInts, DurationStepsAgree
  <2>2. ASSUME NEW c \in Civil(z), NEW n \in DayCounts
        PROVE  /\ CivilAddDays(c, n) = Try(ZonedAddDays(z, n), Civil)
               /\ CivilSubDays(c, n) = Try(ZonedSubDays(z, n), Civil)
    BY <2>0, ArgumentAssumption, DayStepsAgree
  <2>3. ASSUME NEW n \in MonthCounts
        PROVE  /\ ZonedAddMonths(utc, n) = OnTicks(utc, TicksAddMonths(ticks, n))
               /\ ZonedSubMonths(utc, n) = OnTicks(utc, TicksSubMonths(ticks, n))
    <3>1. utc = [ticks |-> ticks, offset |-> 0]
      BY DEF WithZone, z
    <3> HIDE DEF utc
    <3>2. ASSUME NEW k
          PROVE  UNION {FromCivil(c, utc.offset) : c \in MonthsLater(Civil(utc), k)}
                   = OnTicks(utc, {ToTicksUtc(c) : c \in MonthsLater(ToCivilUtc(ticks), k)})
      BY <2>0, <3>1, MonthStepsAgree
    <3>3. /\ ZonedAddMonths(utc, n)
               = UNION {FromCivil(c, utc.offset) : c \in MonthsLater(Civil(utc), n)}
          /\ ZonedSubMonths(utc, n)
               = UNION {FromCivil(c, utc.offset) : c \in MonthsLater(Civil(utc), -n)}
      BY ZonedMonths
    <3>4. /\ TicksAddMonths(ticks, n)
               = {ToTicksUtc(c) : c \in MonthsLater(ToCivilUtc(ticks), n)}
          /\ TicksSubMonths(ticks, n)
               = {ToTicksUtc(c) : c \in MonthsLater(ToCivilUtc(ticks), -n)}
      BY TicksMonths
    <3>5. ZonedAddMonths(utc, n) = OnTicks(utc, TicksAddMonths(ticks, n))
      BY <3>2, <3>3, <3>4, Zenon
    <3>6. ZonedSubMonths(utc, n) = OnTicks(utc, TicksSubMonths(ticks, n))
      BY <3>2, <3>3, <3>4, Zenon
    <3> QED  BY <3>5, <3>6
  <2>4. ASSUME NEW d \in Durations
        PROVE  ZonedSub(z, d) = IF -d \in Inst THEN OnTicks(z, TicksSub(ticks, d)) ELSE Err
    <3>1. d \in Int /\ ticks + (-d) = ticks - d
      BY <2>0, ArgumentsAreInts
    <3>2. z.ticks = ticks
      BY TypeOfZ
    <3> QED
      BY <3>1, <3>2
         DEF ZonedSub, ZonedAdd, CheckedNeg, CheckedInst, TicksAdd, TicksSub, Ok, Err, Try, OnTicks
  <2> QED  BY <2>1, <2>2, <2>3, <2>4 DEF CivilArithmeticAgrees
<1> QED  BY <1>1, TypeCorrect, PTL

-----------------------------------------------------------------------------
(* The calendar on the wall is the calendar of the code.                   *)
LEMMA SameMonthLength ==
  ASSUME NEW y, NEW m
  PROVE  Wall!DaysInMonth(y, m) = DaysInMonth(y, m)
BY DEF Wall!DaysInMonth, DaysInMonth, Wall!IsLeapYear, IsLeapYear, Wall!TruncRem, TruncRem,
       Wall!TruncDiv, TruncDiv, Wall!Magnitude, Magnitude

LEMMA SameTruncDiv ==
  ASSUME NEW a, NEW b
  PROVE  Wall!TruncDiv(a, b) = TruncDiv(a, b)
BY DEF Wall!TruncDiv, TruncDiv, Wall!Magnitude, Magnitude

LEMMA SameFloorDiv ==
  ASSUME NEW a, NEW b
  PROVE  Wall!FloorDiv(a, b) = FloorDiv(a, b)
BY SameTruncDiv DEF Wall!FloorDiv, FloorDiv, Wall!TruncRem, TruncRem

LEMMA SameYearOfEra ==
  ASSUME NEW d
  PROVE  Wall!YearOfEra(d) = YearOfEra(d)
BY SameTruncDiv DEF Wall!YearOfEra, YearOfEra

LEMMA SameDaysBefore ==
  ASSUME NEW n
  PROVE  /\ Wall!DaysBeforeYear(n) = DaysBeforeYear(n)
         /\ Wall!DaysBeforeMonth(n) = DaysBeforeMonth(n)
BY SameTruncDiv DEF Wall!DaysBeforeYear, DaysBeforeYear, Wall!DaysBeforeMonth, DaysBeforeMonth

LEMMA SameCalendar ==
  ASSUME NEW d
  PROVE  Wall!CivilFromDays(d) = CivilFromDays(d)
BY SameTruncDiv, SameFloorDiv, SameYearOfEra, SameDaysBefore, SMTT(60)
   DEF Wall!CivilFromDays, CivilFromDays, Wall!DaysEpoch, DaysEpoch,
       Wall!DaysPerEra, DaysPerEra

-----------------------------------------------------------------------------
(* What the wall shows.                                                    *)
LEMMA RemainderOf ==
  ASSUME NEW t \in Int, NEW n \in Nat \ {0}
  PROVE  t % n = t - (t \div n) * n
<1>1. t = (n * (t \div n)) + (t % n) /\ t \div n \in Int /\ t % n \in Int
  OBVIOUS
<1> DEFINE q == t \div n
           r == t % n
<1>2. q \in Int /\ r \in Int /\ t = n * q + r
  BY <1>1
<1> HIDE DEF q, r
<1>3. n * q = q * n /\ q * n \in Int
  BY <1>2
<1>4. r = t - q * n
  BY <1>2, <1>3
<1> QED  BY <1>4 DEF q, r

LEMMA WallOfReading ==
  ASSUME NEW c \in Civils, NEW t, t = ToTicksUtc(c)
  PROVE  Wall!Shown(t) = CivilFromDays(c.date) /\ Wall!TimeOf(t) = c.time
         /\ t \div NsPerDay = c.date
<1>1. /\ c.date \in Int /\ c.time \in Int /\ c.date * NsPerDay \in Int /\ t \in Int
      /\ t = c.date * NsPerDay + c.time
  BY CivilFieldsOf DEF ToTicksUtc
<1>2. t \div NsPerDay = c.date
  BY ReadingOfInstant DEF DayOf
<1>3. t % NsPerDay = t - c.date * NsPerDay
  BY <1>1, <1>2, RemainderOf, Widths
<1>4. t % NsPerDay = c.time
  BY <1>1, <1>3
<1> QED  BY <1>2, <1>4, SameCalendar DEF Wall!Shown, Wall!TimeOf

LEMMA WallOfZ ==
  ASSUME TypeOK, NEW c \in Civil(z)
  PROVE  c \in Civils /\ ticks + offset * NsPerSec = ToTicksUtc(c)
<1>1. z \in Zoneds /\ z.ticks = ticks /\ z.offset = offset
  BY TypeOfZ
<1>2. LocalOf(z) \in Int /\ c \in ToCivilUtc(LocalOf(z))
  BY <1>1, ReadingOf
<1>3. LocalOf(z) = ticks + offset * NsPerSec
  BY <1>1 DEF LocalOf, FromSeconds
<1> QED  BY <1>2, <1>3, InstantOfReading

LEMMA OffsetInNs ==
  ASSUME TypeOK
  PROVE  offset * NsPerSec \in Int /\ ticks \in Int /\ offset \in Int
BY TypeOfZ, OffsetIsShort DEF TypeOK, FromSeconds, Offsets

(* A reading anchored in a zone is what the wall shows there.              *)
LEMMA AnchoredReturns ==
  ASSUME NEW c \in Civils, NEW o \in Offsets, Return(FromCivil(c, o))
  PROVE  offset' = o /\ ticks' + o * NsPerSec = ToTicksUtc(c)
<1>1. ToTicksUtc(c) \in Int /\ FromSeconds(o) \in Int
  BY CivilFieldsOf, OffsetIsShort
<1>2. offset' = o /\ ticks' = ToTicksUtc(c) - FromSeconds(o)
  BY DEF Return, FromCivil, TicksSub, CheckedInst, Ok, Err
<1> QED  BY <1>1, <1>2 DEF FromSeconds

LEMMA AdjustedReturns ==
  ASSUME TypeOK, NEW S, S \subseteq Civils,
         Return(UNION {FromCivil(c, z.offset) : c \in S})
  PROVE  \E c \in S : offset' = offset /\ ticks' + offset * NsPerSec = ToTicksUtc(c)
<1>1. PICK c \in S : Return(FromCivil(c, z.offset))
  BY DEF Return
<1>2. z.offset = offset /\ offset \in Offsets /\ c \in Civils
  BY TypeOfZ DEF TypeOK
<1>3. offset' = offset /\ ticks' + offset * NsPerSec = ToTicksUtc(c)
  BY <1>1, <1>2, AnchoredReturns
<1> QED  BY <1>3

-----------------------------------------------------------------------------
(* The steps.                                                              *)
LEMMA ElapseStep ==
  ASSUME TypeOK, NEW d \in Durations \cup AddedDays, NEW ns \in {d, -d}, ns \in Int,
         ticks' = ticks + ns, offset' = offset
  PROVE  Wall!Next
<1>1. (ticks + ns) + offset * NsPerSec = (ticks + offset * NsPerSec) + ns
  BY OffsetInNs
<1>2. Wall!Elapse
  BY <1>1 DEF Wall!Elapse
<1> QED  BY <1>2 DEF Wall!Next

LEMMA OnTicksReturns ==
  ASSUME TypeOK, NEW result, Return(OnTicks(z, result))
  PROVE  ticks' \in result /\ offset' = offset
BY TypeOfZ DEF Return, OnTicks, z

LEMMA AddReturns ==
  ASSUME TypeOK, NEW d
  PROVE  /\ Return(ZonedAdd(z, d)) => ticks' = ticks + d /\ offset' = offset
         /\ Return(ZonedSub(z, d)) => ticks' = ticks + (-d) /\ offset' = offset
<1>1. ASSUME NEW e, Return(ZonedAdd(z, e))
      PROVE  ticks' = ticks + e /\ offset' = offset
  <2>1. ticks' \in TicksAdd(z.ticks, e) /\ offset' = offset
    BY <1>1, OnTicksReturns DEF ZonedAdd
  <2> QED  BY <2>1, TypeOfZ DEF TicksAdd, CheckedInst, Ok, Err
<1>2. ZonedSub(z, d) \subseteq ZonedAdd(z, -d)
  BY DEF ZonedSub, CheckedNeg, CheckedInst, Ok, Err, Try
<1>3. Return(ZonedSub(z, d)) => Return(ZonedAdd(z, -d))
  BY <1>2 DEF Return
<1> QED  BY <1>1, <1>3

LEMMA DayReturns ==
  ASSUME TypeOK, NEW n \in DayCounts
  PROVE  /\ Return(ZonedAddDays(z, n)) => Return(ZonedAdd(z, FromDays(n)))
         /\ Return(ZonedSubDays(z, n)) => Return(ZonedSub(z, FromDays(n)))
BY DEF ZonedAddDays, ZonedSubDays, CheckedDays, Ok, Err, Try, Return

(* The calendar turned by months: the day of the month as it was, or the   *)
(* last day of a month that is too short for it.                           *)
LEMMA TurnStep ==
  ASSUME TypeOK, NEW k \in Int,
         k \in MonthCounts \cup {-n : n \in MonthCounts} \cup {12 * n : n \in YearCounts},
         Return(UNION {FromCivil(c, z.offset) : c \in MonthsLater(Civil(z), k)})
  PROVE  Wall!Next
<1>1. LocalOf(z) \in Int /\ Civil(z) = ToCivilUtc(LocalOf(z))
  BY TypeOfZ, ReadingOf
<1>2. MonthsLater(Civil(z), k) \subseteq Civils
  BY <1>1, MonthsLaterAreCivil
<1>3. PICK e \in MonthsLater(Civil(z), k) :
        offset' = offset /\ ticks' + offset * NsPerSec = ToTicksUtc(e)
  BY <1>2, AdjustedReturns
<1>4. PICK c \in Civil(z) :
        \E x \in AddSignedMonths(c.date, k) : e = [c EXCEPT !.date = x]
  BY DEF MonthsLater, OnDate
<1>4a. PICK d \in AddSignedMonths(c.date, k) : e = [c EXCEPT !.date = d]
  BY <1>4
<1>5. c \in Civils /\ ticks + offset * NsPerSec = ToTicksUtc(c) /\ c.date \in Date
  BY WallOfZ, CivilFieldsOf
<1>6. e.date = d /\ e.time = c.time /\ e \in Civils
  BY <1>2, <1>4a, <1>5 DEF Civils
<1> DEFINE w == ticks + offset * NsPerSec
           v == ticks' + offset' * NsPerSec
           from == CivilFromDays(c.date)
           to   == CivilFromDays(d)
<1>7. /\ Wall!Shown(w) = from /\ Wall!TimeOf(w) = c.time
      /\ Wall!Shown(v) = to /\ Wall!TimeOf(v) = c.time
  BY <1>3, <1>5, <1>6, WallOfReading
<1>8. /\ d \in Date /\ MonthIndex(to) = MonthIndex(from) + k
      /\ to.day = Lesser(from.day, DaysInMonth(to.year, to.month))
  BY <1>5, MonthStep
<1>9. /\ from.year \in Int /\ from.month \in Int /\ from.day \in Int
      /\ to.year \in Int /\ to.month \in Int /\ to.day \in Int
      /\ to.month \in 1..12
  BY <1>5, <1>8, CivilFields
<1>10. DaysInMonth(to.year, to.month) \in Int
  BY <1>9, MonthLength
<1> HIDE DEF w, v, from, to
<1>11. 12 * (to.year - from.year) + to.month - from.month = k
  <2> DEFINE y0 == from.year
             m0 == from.month
             y1 == to.year
             m1 == to.month
  <2>1. y0 \in Int /\ m0 \in Int /\ y1 \in Int /\ m1 \in Int
    BY <1>9
  <2>2. (y1 * 12) + (m1 - 1) = ((y0 * 12) + (m0 - 1)) + k
    BY <1>8 DEF MonthIndex
  <2> HIDE DEF y0, m0, y1, m1
  <2>3. 12 * (y1 - y0) + m1 - m0 = k
    BY <2>1, <2>2
  <2> QED  BY <2>3 DEF y0, m0, y1, m1
<1>12. \/ to.day = from.day
       \/ to.day < from.day /\ to.day = Wall!DaysInMonth(to.year, to.month)
  BY <1>8, <1>9, <1>10, SameMonthLength DEF Lesser
<1>13. Wall!TurnMonths
  BY <1>3, <1>7, <1>11, <1>12 DEF Wall!TurnMonths, w, v
<1> QED  BY <1>13 DEF Wall!Next

LEMMA NextStep == TypeOK /\ [Next]_vars => [Wall!Next]_<<ticks + offset * NsPerSec, offset>>
<1> SUFFICES ASSUME TypeOK, [Next]_vars
             PROVE  Wall!Next \/ UNCHANGED <<ticks + offset * NsPerSec, offset>>
  OBVIOUS
<1>0. \A d \in Durations : d \in Int /\ -d \in Int
  BY ArgumentsAreInts
<1>1. CASE StepDuration
  <2>1. PICK d \in Durations : Return(ZonedAdd(z, d)) \/ Return(ZonedSub(z, d))
    BY <1>1 DEF StepDuration
  <2> QED  BY <1>0, <2>1, AddReturns, ElapseStep
<1>2. CASE StepTicks
  <2>1. PICK d \in Durations : \/ Return(OnTicks(z, TicksAdd(ticks, d)))
                               \/ Return(OnTicks(z, TicksSub(ticks, d)))
    BY <1>2 DEF StepTicks
  <2>2. ticks' \in TicksAdd(ticks, d) \cup TicksSub(ticks, d) /\ offset' = offset
    BY <2>1, OnTicksReturns
  <2>3. ticks' = ticks + d \/ ticks' = ticks - d
    BY <2>2 DEF TicksAdd, TicksSub, CheckedInst, Ok, Err
  <2>4. ticks' = ticks + d \/ ticks' = ticks + (-d)
    BY <1>0, <2>3, OffsetInNs
  <2> QED  BY <1>0, <2>2, <2>4, ElapseStep
<1>3. CASE Saturate
  <2>1. PICK d \in Durations :
          \/ Return(OnTicks(z, Ok(TicksSaturatingAdd(ticks, d))))
          \/ Return(OnTicks(z, Ok(TicksSaturatingSub(ticks, d))))
    BY <1>3 DEF Saturate
  <2>2. ticks' \in {SaturatedInst(ticks + d), SaturatedInst(ticks - d)} /\ offset' = offset
    BY <2>1, OnTicksReturns DEF Ok, TicksSaturatingAdd, TicksSaturatingSub
  <2>3. ticks' \in {InstMin, InstMax} \/ ticks' = ticks + d \/ ticks' = ticks - d
    BY <2>2 DEF SaturatedInst
  <2>4. CASE ticks' \in {InstMin, InstMax}
    <3>1. (ticks' + offset * NsPerSec) - offset * NsPerSec = ticks'
      BY <2>4, OffsetInNs, Widths
    <3>2. Wall!StandStill
      BY <2>2, <2>4, <3>1 DEF Wall!StandStill
    <3> QED  BY <3>2 DEF Wall!Next
  <2>5. CASE ticks' = ticks + d \/ ticks' = ticks - d
    <3>1. ticks' = ticks + d \/ ticks' = ticks + (-d)
      BY <1>0, <2>5, OffsetInNs
    <3> QED  BY <1>0, <2>2, <3>1, ElapseStep
  <2> QED  BY <2>3, <2>4, <2>5
<1>4. CASE StepDays
  <2>1. PICK n \in DayCounts : Return(ZonedAddDays(z, n)) \/ Return(ZonedSubDays(z, n))
    BY <1>4 DEF StepDays
  <2> DEFINE d == FromDays(n)
  <2>2. Return(ZonedAdd(z, d)) \/ Return(ZonedSub(z, d))
    BY <2>1, DayReturns
  <2>3. d \in AddedDays /\ d \in Int /\ -d \in Int
    BY ArgumentAssumption, Widths DEF AddedDays, FromDays
  <2> HIDE DEF d
  <2> QED  BY <2>2, <2>3, AddReturns, ElapseStep
<1>5. CASE StepMonths
  <2>0. ASSUME NEW n
        PROVE  /\ Return(ZonedAddMonths(z, n)) =>
                    Return(UNION {FromCivil(c, z.offset) : c \in MonthsLater(Civil(z), n)})
               /\ Return(ZonedSubMonths(z, n)) =>
                    Return(UNION {FromCivil(c, z.offset) : c \in MonthsLater(Civil(z), -n)})
               /\ Return(ZonedAddYears(z, n)) =>
                    Return(UNION {FromCivil(c, z.offset) : c \in MonthsLater(Civil(z), n * 12)})
    <3> DEFINE r1 == UNION {FromCivil(c, z.offset) : c \in MonthsLater(Civil(z), n)}
               r2 == UNION {FromCivil(c, z.offset) : c \in MonthsLater(Civil(z), -n)}
               r3 == UNION {FromCivil(c, z.offset) : c \in MonthsLater(Civil(z), n * 12)}
    <3>1. /\ ZonedAddMonths(z, n) = r1
          /\ ZonedSubMonths(z, n) = r2
          /\ ZonedAddYears(z, n) = r3
      BY ZonedMonths, ZenonT(60)
    <3> HIDE DEF r1, r2, r3
    <3>2. /\ Return(ZonedAddMonths(z, n)) => Return(r1)
          /\ Return(ZonedSubMonths(z, n)) => Return(r2)
          /\ Return(ZonedAddYears(z, n)) => Return(r3)
      BY <3>1, Zenon
    <3> QED  BY <3>2, Zenon DEF r1, r2, r3
  <2>1. CASE \E n \in MonthCounts : Return(ZonedAddMonths(z, n))
    <3>1. PICK n \in MonthCounts : Return(ZonedAddMonths(z, n))
      BY <2>1
    <3>2. n \in Int
      BY ArgumentAssumption
    <3> QED  BY <2>0, <3>1, <3>2, TurnStep
  <2>2. CASE \E n \in MonthCounts : Return(ZonedSubMonths(z, n))
    <3>1. PICK n \in MonthCounts : Return(ZonedSubMonths(z, n))
      BY <2>2
    <3>2. -n \in Int
      BY ArgumentAssumption
    <3> QED  BY <2>0, <3>1, <3>2, TurnStep
  <2>3. CASE \E n \in YearCounts : Return(ZonedAddYears(z, n))
    <3>1. PICK n \in YearCounts : Return(ZonedAddYears(z, n))
      BY <2>3
    <3>2. n * 12 \in Int /\ n * 12 = 12 * n
      BY ArgumentAssumption
    <3> QED  BY <2>0, <3>1, <3>2, TurnStep
  <2> QED  BY <1>5, <2>1, <2>2, <2>3 DEF StepMonths
<1>6. CASE ReadThrough
  <2>1. PICK o \in Offsets : ticks' = ticks /\ offset' = o
    BY <1>6 DEF ReadThrough, Return, Ok, WithZone, z
  <2>2. o \in Int /\ o * NsPerSec \in Int /\ (o - offset) * NsPerSec = o * NsPerSec - offset * NsPerSec
    BY OffsetInNs, Widths DEF Offsets
  <2>3. ticks + o * NsPerSec = (ticks + offset * NsPerSec) + (o - offset) * NsPerSec
    BY <2>2, OffsetInNs
  <2>4. Wall!Carry
    BY <2>1, <2>3 DEF Wall!Carry
  <2> QED  BY <2>4 DEF Wall!Next
<1>7. CASE AnchorElsewhere
  <2>1. PICK o \in Offsets : Return(Try(Civil(z), LAMBDA c : FromCivil(c, o)))
    BY <1>7 DEF AnchorElsewhere
  <2>2. PICK c \in Civil(z) : Return(FromCivil(c, o))
    BY <2>1 DEF Try, Return
  <2>3. c \in Civils /\ ticks + offset * NsPerSec = ToTicksUtc(c)
    BY WallOfZ
  <2>4. offset' = o /\ ticks' + o * NsPerSec = ToTicksUtc(c)
    BY <2>2, <2>3, AnchoredReturns
  <2>5. Wall!Repaint
    BY <2>3, <2>4 DEF Wall!Repaint
  <2> QED  BY <2>5 DEF Wall!Next
<1>8. CASE EditReading
  <2>1. CASE \E day \in 0..32 :
               Return(ZonedAdjust(z, LAMBDA c : OnDate(c, WithDay(c.date, day))))
    <3>1. PICK day \in 0..32 :
            Return(ZonedAdjust(z, LAMBDA c : OnDate(c, WithDay(c.date, day))))
      BY <2>1
    <3> DEFINE S == UNION {OnDate(c, WithDay(c.date, day)) : c \in Civil(z)}
    <3>2. Return(UNION {FromCivil(c, z.offset) : c \in S})
      BY <3>1 DEF ZonedAdjust, Try
    <3>3. ASSUME NEW c \in Civil(z), NEW d \in WithDay(c.date, day)
          PROVE  /\ c \in Civils /\ d \in Date /\ [c EXCEPT !.date = d] \in Civils
                 /\ CivilFromDays(d).year = CivilFromDays(c.date).year
                 /\ CivilFromDays(d).month = CivilFromDays(c.date).month
      <4> DEFINE f == CivilFromDays(c.date)
      <4>1. c \in Civils /\ c.date \in Date
        BY WallOfZ, CivilFieldsOf
      <4>2. f.year \in Int /\ f.month \in Int
        BY <4>1, CivilFields
      <4>3. d \in FromYmd(f.year, f.month, day)
        BY DEF WithDay
      <4> HIDE DEF f
      <4>4. d \in Date /\ CivilFromDays(d) = [year |-> f.year, month |-> f.month, day |-> day]
        <5>1. day \in Nat
          OBVIOUS
        <5> QED  BY <4>2, <4>3, <5>1, FromYmdFields
      <4>5. [c EXCEPT !.date = d] \in Civils
        BY <4>1, <4>4 DEF Civils
      <4> QED  BY <4>1, <4>4, <4>5 DEF f
    <3>4. S \subseteq Civils
      BY <3>3 DEF OnDate
    <3>5. PICK e \in S : offset' = offset /\ ticks' + offset * NsPerSec = ToTicksUtc(e)
      BY <3>2, <3>4, AdjustedReturns
    <3>6. PICK c \in Civil(z) : \E x \in WithDay(c.date, day) : e = [c EXCEPT !.date = x]
      BY DEF OnDate
    <3>6a. PICK d \in WithDay(c.date, day) : e = [c EXCEPT !.date = d]
      BY <3>6
    <3>7. c \in Civils /\ ticks + offset * NsPerSec = ToTicksUtc(c)
      BY WallOfZ
    <3>8. e \in Civils /\ e.date = d /\ e.time = c.time
      BY <3>3, <3>6a, <3>7 DEF Civils
    <3> DEFINE w == ticks + offset * NsPerSec
               v == ticks' + offset' * NsPerSec
    <3>9. /\ Wall!Shown(w) = CivilFromDays(c.date) /\ Wall!TimeOf(w) = c.time
          /\ Wall!Shown(v) = CivilFromDays(d) /\ Wall!TimeOf(v) = c.time
      BY <3>5, <3>7, <3>8, WallOfReading
    <3> HIDE DEF w, v
    <3>10. Wall!SetDay
      BY <3>3, <3>5, <3>9 DEF Wall!SetDay, w, v
    <3> QED  BY <3>10 DEF Wall!Next
  <2>2. CASE \E time \in TimesOfDay :
               Return(ZonedAdjust(z, LAMBDA c : Ok([c EXCEPT !.time = time])))
    <3>1. PICK time \in TimesOfDay :
            Return(ZonedAdjust(z, LAMBDA c : Ok([c EXCEPT !.time = time])))
      BY <2>2
    <3> DEFINE S == UNION {Ok([c EXCEPT !.time = time]) : c \in Civil(z)}
    <3>2. Return(UNION {FromCivil(c, z.offset) : c \in S})
      BY <3>1 DEF ZonedAdjust, Try
    <3>3. ASSUME NEW c \in Civil(z) PROVE [c EXCEPT !.time = time] \in Civils
      BY WallOfZ DEF Civils
    <3>4. S \subseteq Civils
      BY <3>3 DEF Ok
    <3>5. PICK e \in S : offset' = offset /\ ticks' + offset * NsPerSec = ToTicksUtc(e)
      BY <3>2, <3>4, AdjustedReturns
    <3>6. PICK c \in Civil(z) : e = [c EXCEPT !.time = time]
      BY DEF Ok
    <3>7. c \in Civils /\ ticks + offset * NsPerSec = ToTicksUtc(c)
      BY WallOfZ
    <3>8. e \in Civils /\ e.date = c.date
      BY <3>3, <3>6, <3>7 DEF Civils
    <3> DEFINE w == ticks + offset * NsPerSec
               v == ticks' + offset' * NsPerSec
    <3>9. w \div NsPerDay = c.date /\ v \div NsPerDay = c.date
      BY <3>5, <3>7, <3>8, WallOfReading
    <3> HIDE DEF w, v
    <3>10. Wall!SetTime
      BY <3>5, <3>9 DEF Wall!SetTime, w, v
    <3> QED  BY <3>10 DEF Wall!Next
  <2> QED  BY <1>8, <2>1, <2>2 DEF EditReading
<1>9. CASE UNCHANGED vars
  BY <1>9 DEF vars
<1> QED
  BY <1>1, <1>2, <1>3, <1>4, <1>5, <1>6, <1>7, <1>8, <1>9 DEF Next

(* The instant plus its offset behaves as a clock on a wall: months turn   *)
(* the local calendar and leave the local time alone, with_zone carries    *)
(* the clock, from_civil in another zone repaints the label.               *)
THEOREM ImplementsWall == Spec => ImplementsWallClock
<1>1. Init => Wall!Init
  <2>1. 0 + 0 * NsPerSec = 0
    BY Widths
  <2> QED  BY <2>1 DEF Init, Wall!Init
<1> QED  BY <1>1, TypeCorrect, NextStep, PTL DEF Spec, ImplementsWallClock, Wall!Spec

=============================================================================
