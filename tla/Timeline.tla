------------------------------ MODULE Timeline ------------------------------
(***************************************************************************)
(* A caller that holds one Zoned and keeps replacing it by the result of a *)
(* successful call of its API: it moves the instant (Ticks, Zoned), reads  *)
(* it through another zone, or takes the local reading apart, changes it   *)
(* as a CivilDateTime and anchors it again.  A method that returns Err     *)
(* leaves the caller with what it had, so its action is disabled.          *)
(***************************************************************************)
EXTENDS TimelineOps

CONSTANTS
  Durations,      \* arguments of the duration steps (i128)
  DayCounts,      \* arguments of the day steps (u64)
  MonthCounts,    \* arguments of the month steps (u32)
  YearCounts,     \* arguments of checked_add_years (i32)
  Marks,          \* instants a difference is taken from
  StampUnits      \* nanoseconds in the unit of a timestamp

ASSUME ArgumentAssumption ==
  /\ Durations \subseteq Inst /\ Marks \subseteq Inst
  /\ DayCounts \subseteq Nat /\ MonthCounts \subseteq Nat
  /\ YearCounts \subseteq Int /\ StampUnits \subseteq Nat \ {0}

VARIABLES ticks, offset

vars == <<ticks, offset>>

(* Ticks::EPOCH.to_zoned(Zone::Utc)                                        *)
Init == ticks = 0 /\ offset = 0

z == [ticks |-> ticks, offset |-> offset]

Return(result) == \E r \in result : ticks' = r.ticks /\ offset' = r.offset

-----------------------------------------------------------------------------
StepDuration ==
  \E d \in Durations : Return(ZonedAdd(z, d)) \/ Return(ZonedSub(z, d))

(* Through the instant itself: z.ticks().checked_sub(d)?.to_zoned(z.zone()) *)
StepTicks ==
  \E d \in Durations :
    Return(OnTicks(z, TicksAdd(ticks, d))) \/ Return(OnTicks(z, TicksSub(ticks, d)))

Saturate ==
  \E d \in Durations :
    \/ Return(OnTicks(z, Ok(TicksSaturatingAdd(ticks, d))))
    \/ Return(OnTicks(z, Ok(TicksSaturatingSub(ticks, d))))

StepDays ==
  \E n \in DayCounts : Return(ZonedAddDays(z, n)) \/ Return(ZonedSubDays(z, n))

StepMonths ==
  \/ \E n \in MonthCounts : Return(ZonedAddMonths(z, n))
  \/ \E n \in MonthCounts : Return(ZonedSubMonths(z, n))
  \/ \E n \in YearCounts  : Return(ZonedAddYears(z, n))

ReadThrough == \E o \in Offsets : Return(Ok(WithZone(z, o)))

(* from_civil(z.civil()?, zone): the same reading, meant in another zone.  *)
AnchorElsewhere ==
  \E o \in Offsets : Return(Try(Civil(z), LAMBDA c : FromCivil(c, o)))

(* The reading with another day of the month or another time of day.       *)
EditReading ==
  \/ \E day \in 0..32 :
       Return(ZonedAdjust(z, LAMBDA c : OnDate(c, WithDay(c.date, day))))
  \/ \E time \in TimesOfDay :
       Return(ZonedAdjust(z, LAMBDA c : Ok([c EXCEPT !.time = time])))

Next ==
  \/ StepDuration \/ StepTicks \/ Saturate \/ StepDays \/ StepMonths
  \/ ReadThrough \/ AnchorElsewhere \/ EditReading

Spec == Init /\ [][Next]_vars

-----------------------------------------------------------------------------
(* The type invariant: instants stay within an i128 and offsets within a   *)
(* day, whatever the order of calls.                                       *)
TypeOK == ticks \in Inst /\ offset \in Offsets

(* A reading exists exactly when the local day is representable, and       *)
(* anchored in the same zone it is the instant it was read from: civil and *)
(* from_civil (zoned.rs) are inverse, up to the last day of the range.     *)
ReadingsAnchorBack ==
  LET day == (ticks + FromSeconds(offset)) \div NsPerDay
  IN  /\ Civil(z) # Err <=> day \in Date
      /\ \A c \in Civil(z) : c \in Civils /\ FromCivil(c, offset) = {z}

(* Arithmetic on the reading and arithmetic on the instant agree, failures *)
(* included: CivilDateTime carries over every boundary as Ticks does, the  *)
(* day steps of both are the same although one adds days and the other     *)
(* nanoseconds, and in UTC so are the month steps of a Zoned and of its    *)
(* instant.  They part for one duration: a Zoned negates what it           *)
(* subtracts, so it never subtracts Duration::MIN.                         *)
CivilArithmeticAgrees ==
  LET utc == WithZone(z, 0)
  IN  /\ \A c \in Civil(z) :
           /\ \A d \in Durations : /\ CivilAdd(c, d) = Try(ZonedAdd(z, d), Civil)
                                   /\ CivilSub(c, d) = Try(ZonedSub(z, d), Civil)
           /\ \A n \in DayCounts : /\ CivilAddDays(c, n) = Try(ZonedAddDays(z, n), Civil)
                                   /\ CivilSubDays(c, n) = Try(ZonedSubDays(z, n), Civil)
      /\ \A n \in MonthCounts :
           /\ ZonedAddMonths(utc, n) = OnTicks(utc, TicksAddMonths(ticks, n))
           /\ ZonedSubMonths(utc, n) = OnTicks(utc, TicksSubMonths(ticks, n))
      /\ \A d \in Durations :
           ZonedSub(z, d) = IF -d \in Inst THEN OnTicks(z, TicksSub(ticks, d)) ELSE Err

Before(c, e) == c.date < e.date \/ (c.date = e.date /\ c.time < e.time)

(* Saturation never turns the order around: a longer duration never lands  *)
(* before a shorter one, whichever of the two runs into a limit.           *)
SaturationKeepsOrder ==
  \A d, e \in Durations :
    d <= e =>
      /\ TicksSaturatingAdd(ticks, d) <= TicksSaturatingAdd(ticks, e)
      /\ TicksSaturatingSub(ticks, e) <= TicksSaturatingSub(ticks, d)
      /\ \A c \in Civil(z) :
           ~Before(CivilSaturatingAdd(c, e), CivilSaturatingAdd(c, d))

(* Adding the difference to where it was taken from comes back, or the     *)
(* difference is at the limit on the right side; the readings of two       *)
(* instants are as far apart as the instants are.                          *)
DifferencesRecover ==
  \A m \in Marks :
    LET d == DurationSince(ticks, m)
    IN  /\ \/ TicksAdd(m, d) = {ticks}
           \/ d = InstMax /\ ticks > m /\ ticks - m \notin Inst
           \/ d = InstMin /\ ticks < m /\ ticks - m \notin Inst
        /\ \A c \in Civil(z), e \in Civil([ticks |-> m, offset |-> offset]) :
             CivilSince(c, e) = d

(* Seconds and nanoseconds identify the instant before the epoch as after  *)
(* it, and are refused only where the seconds do not fit an i64; a         *)
(* SystemTime is had of them from the epoch on.  A timestamp in any unit   *)
(* is the last one not after the instant, and a coarse one exists wherever *)
(* a finer one does; as a CivilDateTime it is never after the reading.     *)
TimestampsIdentifyInstant ==
  LET seconds == ticks \div NsPerSec
  IN  /\ ToUnixSeconds(ticks) # Err <=> seconds \in Long
      /\ \A p \in ToUnixSeconds(ticks) : FromTimespec(p[1], p[2]) = {ticks}
      /\ ToStdTime(ticks) # Err <=> seconds \in Long /\ ticks >= 0
      /\ \A unit \in StampUnits : \A n \in Timestamp(ticks, unit) :
           /\ FromTimestamp(n, unit) \in ticks - unit + 1 .. ticks
           /\ \A coarse \in StampUnits :
                coarse >= unit => Timestamp(ticks, coarse) # Err
           /\ \A c \in ToCivilUtc(ticks), e \in CivilFromTimestamp(n, unit) :
                ~Before(c, e)

(* While the zone stays the same, readings are ordered as their instants:  *)
(* no call moves the two in opposite directions, or only one of them.      *)
ReadingsFollowInstants ==
  [][\A c \in Civil(z), e \in Civil(z)' :
       offset' = offset => (ticks < ticks' <=> Before(c, e))]_vars

-----------------------------------------------------------------------------
AddedDays == {FromDays(n) : n \in DayCounts}

Wall == INSTANCE WallClock WITH
          wall       <- ticks + offset * NsPerSec,
          label      <- offset,
          Labels     <- Offsets,
          Elapses    <- Durations \cup AddedDays \cup {-d : d \in Durations \cup AddedDays},
          MonthTurns <- MonthCounts \cup {-n : n \in MonthCounts}
                          \cup {12 * n : n \in YearCounts},
          Ends       <- {InstMin, InstMax}

(* The instant plus its offset behaves as a clock on a wall: months turn   *)
(* the local calendar and leave the local time alone, with_zone carries    *)
(* the clock, from_civil in another zone repaints the label.               *)
ImplementsWallClock == Wall!Spec

=============================================================================
