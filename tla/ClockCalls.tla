----------------------------- MODULE ClockCalls -----------------------------
(***************************************************************************)
(* A caller that runs a clock on TimeOfDay alone: it adds durations,       *)
(* checked within the day or with overflowing_add, whose carries it sums   *)
(* in `days`, and now and then sets a field of the clock.  `since` and     *)
(* `elapsed` are history: the time the clock was last set to, and the sum  *)
(* of the durations that have passed since.                                *)
(***************************************************************************)
EXTENDS ClockOps

CONSTANTS
  Durations,      \* arguments of the additions (i128)
  DaysBound       \* the clock is set again before it counts more days

ASSUME ArgumentAssumption == Durations \subseteq Inst /\ DaysBound \in Nat

VARIABLES time, days, since, elapsed

vars == <<time, days, since, elapsed>>

Init == time = 0 /\ days = 0 /\ since = 0 /\ elapsed = 0

-----------------------------------------------------------------------------
(* The clock is set: a new ledger begins.                                  *)
Set(result) ==
  time' \in result /\ since' = time' /\ days' = 0 /\ elapsed' = 0

Pass(result, ns) ==
  /\ time' \in result
  /\ elapsed' = elapsed + ns
  /\ UNCHANGED <<days, since>>

AddChecked == \E d \in Durations : Pass(CheckedAdd(time, d), d)
SubChecked == \E d \in Durations : Pass(CheckedSub(time, d), -d)

(* A duration that saturates the sum or the carry has no exact result: the *)
(* clock shows a time of day, but the ledger is lost.                      *)
Carry ==
  \E d \in Durations :
    LET r == OverflowingAdd(time, d)
    IN  IF time + d \in Inst /\ r.carry \in LongMin+1..LongMax-1
        THEN /\ Magnitude(days + r.carry) <= DaysBound
             /\ time' = r.time
             /\ days' = days + r.carry
             /\ elapsed' = elapsed + d
             /\ UNCHANGED since
        ELSE Set(Ok(r.time))

SetField ==
  \/ \E h \in 0..HoursPerDay      : Set(WithHour(time, h))
  \/ \E m \in 0..MinutesPerHour   : Set(WithMinute(time, m))
  \/ \E s \in 0..SecondsPerMinute : Set(WithSecond(time, s))
  \/ \E n \in 0..NsPerSecond      : Set(WithNanosecond(time, n))

SetMillis ==
  \E ms \in 0..MillisPerSecond :
    Set(FromHmsMilli(Hour(time), Minute(time), Second(time), ms))

Next == AddChecked \/ SubChecked \/ Carry \/ SetField \/ SetMillis

Spec == Init /\ [][Next]_vars

-----------------------------------------------------------------------------
(* The type invariant: no call leaves the day.                             *)
TypeOK ==
  /\ time \in TimesOfDay /\ since \in TimesOfDay
  /\ days \in -DaysBound..DaysBound
  /\ elapsed \in Int

(* No nanosecond is lost: over any sequence of additions, forwards and     *)
(* back, the carried days and the time of day add up to what has passed    *)
(* (overflowing_add floors the carry and the remainder together).          *)
LedgerBalances == days * NsPerDay + time = since + elapsed

=============================================================================
