---------------------------- MODULE ClockProofs ----------------------------
(***************************************************************************)
(* Theorems about every caller of TimeOfDay (ClockCalls), for all sizes of *)
(* the units and all widths: no call leaves the day, and the ledger of     *)
(* carried days, time of day and elapsed time balances.                    *)
(***************************************************************************)
EXTENDS ClockCalls, CalendarProofs

-----------------------------------------------------------------------------
(* The remainder of a nest of units stays below the product.               *)
LEMMA NestedBelow ==
  ASSUME NEW k \in Nat \ {0}, NEW u \in Nat \ {0}, NEW i \in 0..k-1, NEW r \in 0..u-1
  PROVE  i * u + r \in 0..k*u-1
<1>1. i * u \in Nat /\ (k - 1 - i) * u \in Nat
  OBVIOUS
<1>2. k * u = i * u + (k - 1 - i) * u + u
  OBVIOUS
<1>3. k * u \in Int
  OBVIOUS
<1> QED  BY <1>1, <1>2, <1>3

LEMMA ProductIsPositive ==
  ASSUME NEW u \in Nat \ {0}, NEW k \in Nat \ {0}
  PROVE  u * k \in Nat \ {0}
OBVIOUS

-----------------------------------------------------------------------------
(* The units.                                                              *)
LEMMA UnitsArePositive ==
  /\ HoursPerDay \in Nat \ {0} /\ MinutesPerHour \in Nat \ {0}
  /\ SecondsPerMinute \in Nat \ {0} /\ MillisPerSecond \in Nat \ {0}
  /\ NsPerMilli \in Nat \ {0} /\ NsPerSecond \in Nat \ {0}
  /\ NsPerMinute \in Nat \ {0} /\ NsPerHour \in Nat \ {0} /\ NsPerDay \in Nat \ {0}
<1>1. /\ HoursPerDay \in Nat \ {0} /\ MinutesPerHour \in Nat \ {0}
      /\ SecondsPerMinute \in Nat \ {0} /\ MillisPerSecond \in Nat \ {0}
      /\ NsPerMilli \in Nat \ {0}
  BY UnitAssumption
<1>2. NsPerSecond \in Nat \ {0}
  BY <1>1, ProductIsPositive DEF NsPerSecond
<1>3. NsPerMinute \in Nat \ {0}
  BY <1>1, <1>2, ProductIsPositive DEF NsPerMinute
<1>4. NsPerHour \in Nat \ {0}
  BY <1>1, <1>3, ProductIsPositive DEF NsPerHour
<1>5. NsPerDay \in Nat \ {0}
  BY <1>1, <1>4, ProductIsPositive DEF NsPerDay
<1> QED  BY <1>1, <1>2, <1>3, <1>4, <1>5

(* A clock of valid fields shows a time of day.                            *)
LEMMA FromHmsNanoInDay ==
  ASSUME NEW h \in Nat, NEW m \in Nat, NEW s \in Nat, NEW n \in Nat
  PROVE  FromHmsNano(h, m, s, n) \subseteq TimesOfDay
<1> SUFFICES ASSUME h < HoursPerDay, m < MinutesPerHour,
                    s < SecondsPerMinute, n < NsPerSecond
             PROVE  h * NsPerHour + m * NsPerMinute + s * NsPerSecond + n \in TimesOfDay
  BY DEF FromHmsNano, Ok, Err
<1>1. s * NsPerSecond + n \in 0..NsPerMinute-1
  BY UnitsArePositive, NestedBelow DEF NsPerMinute
<1>2. m * NsPerMinute + (s * NsPerSecond + n) \in 0..NsPerHour-1
  BY <1>1, UnitsArePositive, NestedBelow DEF NsPerHour
<1>3. h * NsPerHour + (m * NsPerMinute + (s * NsPerSecond + n)) \in 0..NsPerDay-1
  BY <1>2, UnitsArePositive, NestedBelow DEF NsPerDay
<1>4. h * NsPerHour \in Int /\ m * NsPerMinute \in Int /\ s * NsPerSecond \in Int
  BY UnitsArePositive
<1> QED  BY <1>3, <1>4 DEF TimesOfDay

(* The fields of a time of day are natural numbers.                        *)
LEMMA FieldsAreNat ==
  ASSUME NEW t \in TimesOfDay
  PROVE  /\ Hour(t) \in Nat /\ Minute(t) \in Nat
         /\ Second(t) \in Nat /\ Nanosecond(t) \in Nat
<1>0. t \in Nat
  BY DEF TimesOfDay
<1>1. /\ TruncDiv(t, NsPerHour) \in Nat
      /\ TruncDiv(t, NsPerMinute) \in Nat
      /\ TruncDiv(t, NsPerSecond) \in Nat
      /\ TruncRem(t, NsPerSecond) \in Nat
  BY <1>0, TruncIsNat, UnitsArePositive
<1>2. \A a \in Nat, b \in Nat \ {0} : TruncRem(a, b) \in Nat
  BY TruncIsNat
<1>3. /\ TruncRem(TruncDiv(t, NsPerMinute), MinutesPerHour) \in Nat
      /\ TruncRem(TruncDiv(t, NsPerSecond), SecondsPerMinute) \in Nat
  BY <1>1, <1>2, UnitsArePositive
<1> QED  BY <1>1, <1>3 DEF Hour, Minute, Second, Nanosecond

(* What overflowing_add returns, and when nothing saturates.               *)
LEMMA CarrySplits ==
  ASSUME NEW t \in TimesOfDay, NEW d \in Inst
  PROVE  /\ OverflowingAdd(t, d).time \in TimesOfDay
         /\ (/\ t + d \in Inst
             /\ OverflowingAdd(t, d).carry \in LongMin+1..LongMax-1)
              => t + d = OverflowingAdd(t, d).carry * NsPerDay + OverflowingAdd(t, d).time
<1> DEFINE total == Clamp(t + d, InstMin, InstMax)
           q == EuclidDiv(total, NsPerDay)
           r == EuclidRem(total, NsPerDay)
<1>0. t \in Int /\ d \in Int /\ InstMin \in Int /\ InstMax \in Int
        /\ LongMin \in Int /\ LongMax \in Int /\ LongMin < 0 /\ 0 < LongMax
  BY WidthAssumption DEF TimesOfDay, Inst
<1>1. total \in Int /\ (t + d \in Inst => total = t + d)
  BY <1>0 DEF Clamp, Inst
<1> HIDE DEF total
<1>2. q \in Int /\ r \in 0..NsPerDay-1 /\ total = q * NsPerDay + r
  BY <1>1, EuclidSplits, UnitsArePositive
<1>3. OverflowingAdd(t, d).time = r /\ OverflowingAdd(t, d).carry = Clamp(q, LongMin, LongMax)
  BY DEF OverflowingAdd, total
<1> HIDE DEF q, r
<1>4. Clamp(q, LongMin, LongMax) \in LongMin+1..LongMax-1
        => Clamp(q, LongMin, LongMax) = q
  BY <1>0, <1>2 DEF Clamp
<1> QED  BY <1>1, <1>2, <1>3, <1>4 DEF TimesOfDay

-----------------------------------------------------------------------------
(* The type invariant and the balance together are inductive.              *)
Inv == TypeOK /\ LedgerBalances

LEMMA InitInv == Init => Inv
<1> SUFFICES ASSUME Init PROVE Inv
  OBVIOUS
<1>1. 0 \in TimesOfDay /\ NsPerDay \in Int
  BY UnitsArePositive DEF TimesOfDay
<1>2. 0 \in -DaysBound..DaysBound
  BY ArgumentAssumption
<1>3. 0 * NsPerDay + 0 = 0 + 0
  BY <1>1
<1> QED  BY <1>1, <1>2, <1>3 DEF Init, Inv, TypeOK, LedgerBalances

LEMMA DurationsAreInts ==
  ASSUME NEW d \in Durations
  PROVE  d \in Inst /\ d \in Int
BY ArgumentAssumption, WidthAssumption DEF Inst

(* A clock that is set starts a ledger that balances.                      *)
LEMMA SetKeepsInv ==
  ASSUME NEW result, result \subseteq TimesOfDay, Set(result)
  PROVE  Inv'
<1>1. time' \in TimesOfDay /\ since' = time' /\ days' = 0 /\ elapsed' = 0
  BY DEF Set
<1>2. 0 \in -DaysBound..DaysBound
  BY ArgumentAssumption
<1>3. 0 * NsPerDay + time' = time' + 0
  BY <1>1, UnitsArePositive DEF TimesOfDay
<1> QED  BY <1>1, <1>2, <1>3 DEF Inv, TypeOK, LedgerBalances

(* A checked step moves the time by exactly what has passed.               *)
LEMMA PassKeepsInv ==
  ASSUME Inv, NEW result, NEW ns \in Int, Pass(result, ns),
         \A t \in result : t \in TimesOfDay /\ t = time + ns
  PROVE  Inv'
<1>1. /\ time' \in TimesOfDay /\ time' = time + ns /\ elapsed' = elapsed + ns
      /\ days' = days /\ since' = since
  BY DEF Pass
<1>2. /\ days \in Int /\ time \in Int /\ since \in Int /\ elapsed \in Int
      /\ days * NsPerDay \in Int
  BY UnitsArePositive, ArgumentAssumption DEF Inv, TypeOK, TimesOfDay
<1>3. days' * NsPerDay + time' = since' + elapsed'
  BY <1>1, <1>2 DEF Inv, LedgerBalances
<1>4. TypeOK'
  BY <1>1, <1>2 DEF Inv, TypeOK
<1> QED  BY <1>3, <1>4 DEF Inv, LedgerBalances

LEMMA NextInv == Inv /\ [Next]_vars => Inv'
<1> SUFFICES ASSUME Inv, [Next]_vars PROVE Inv'
  OBVIOUS
<1>0. time \in TimesOfDay /\ time \in Int
  BY DEF Inv, TypeOK, TimesOfDay
<1>1. CASE AddChecked
  <2>1. PICK d \in Durations : Pass(CheckedAdd(time, d), d)
    BY <1>1 DEF AddChecked
  <2>2. \A t \in CheckedAdd(time, d) : t \in TimesOfDay /\ t = time + d
    BY DEF CheckedAdd, Ok, Err
  <2>3. d \in Int
    BY DurationsAreInts
  <2> QED  BY <2>1, <2>2, <2>3, PassKeepsInv
<1>2. CASE SubChecked
  <2>1. PICK d \in Durations : Pass(CheckedSub(time, d), -d)
    BY <1>2 DEF SubChecked
  <2>2. d \in Int /\ -d \in Int
    BY DurationsAreInts
  <2>3. CheckedSub(time, d) \subseteq CheckedAdd(time, -d)
    BY DEF CheckedSub, Try, CheckedNeg, Ok, Err
  <2>4. \A t \in CheckedAdd(time, -d) : t \in TimesOfDay /\ t = time + (-d)
    BY DEF CheckedAdd, Ok, Err
  <2> QED  BY <2>1, <2>2, <2>3, <2>4, PassKeepsInv
<1>3. CASE Carry
  <2>1. PICK d \in Durations :
          LET r == OverflowingAdd(time, d)
          IN  IF time + d \in Inst /\ r.carry \in LongMin+1..LongMax-1
              THEN /\ Magnitude(days + r.carry) <= DaysBound
                   /\ time' = r.time
                   /\ days' = days + r.carry
                   /\ elapsed' = elapsed + d
                   /\ UNCHANGED since
              ELSE Set(Ok(r.time))
    BY <1>3 DEF Carry
  <2> DEFINE r == OverflowingAdd(time, d)
             exact == time + d \in Inst /\ r.carry \in LongMin+1..LongMax-1
  <2>2. d \in Inst /\ d \in Int
    BY DurationsAreInts
  <2>3. r.time \in TimesOfDay /\ (exact => time + d = r.carry * NsPerDay + r.time)
    BY <1>0, <2>2, CarrySplits
  <2>4. CASE ~exact
    <3>1. Set(Ok(r.time))
      BY <2>1, <2>4
    <3>2. Ok(r.time) \subseteq TimesOfDay
      BY <2>3 DEF Ok
    <3> QED  BY <3>1, <3>2, SetKeepsInv
  <2>5. CASE exact
    <3> DEFINE c == r.carry
               t == r.time
    <3>1. /\ Magnitude(days + c) <= DaysBound
          /\ time' = t /\ days' = days + c /\ elapsed' = elapsed + d /\ since' = since
      BY <2>1, <2>5
    <3>2. c \in Int /\ t \in TimesOfDay /\ t \in Int /\ time + d = c * NsPerDay + t
      BY <2>3, <2>5, WidthAssumption DEF TimesOfDay
    <3>3. days \in Int /\ since \in TimesOfDay /\ since \in Int /\ elapsed \in Int
      BY ArgumentAssumption DEF Inv, TypeOK, TimesOfDay
    <3> HIDE DEF c, t
    <3>4. days + c \in -DaysBound..DaysBound
      BY <3>1, <3>2, <3>3, ArgumentAssumption DEF Magnitude
    <3>5. (days + c) * NsPerDay = days * NsPerDay + c * NsPerDay
            /\ days * NsPerDay \in Int /\ c * NsPerDay \in Int
      BY <3>2, <3>3, UnitsArePositive
    <3>6. days * NsPerDay + time = since + elapsed
      BY DEF Inv, LedgerBalances
    <3>7. (days + c) * NsPerDay + t = since + (elapsed + d)
      BY <1>0, <2>2, <3>2, <3>3, <3>5, <3>6
    <3>8. TypeOK'
      BY <2>2, <3>1, <3>2, <3>3, <3>4 DEF TypeOK
    <3>9. LedgerBalances'
      BY <3>1, <3>7 DEF LedgerBalances
    <3> QED  BY <3>8, <3>9 DEF Inv
  <2> QED  BY <2>4, <2>5
<1>4. CASE SetField
  <2>1. /\ Hour(time) \in Nat /\ Minute(time) \in Nat
        /\ Second(time) \in Nat /\ Nanosecond(time) \in Nat
    BY <1>0, FieldsAreNat
  <2>2. CASE \E h \in 0..HoursPerDay : Set(WithHour(time, h))
    <3>1. PICK h \in 0..HoursPerDay : Set(WithHour(time, h))
      BY <2>2
    <3>2. WithHour(time, h) \subseteq TimesOfDay
      BY <2>1, FromHmsNanoInDay, UnitsArePositive DEF WithHour
    <3> QED  BY <3>1, <3>2, SetKeepsInv
  <2>3. CASE \E m \in 0..MinutesPerHour : Set(WithMinute(time, m))
    <3>1. PICK m \in 0..MinutesPerHour : Set(WithMinute(time, m))
      BY <2>3
    <3>2. WithMinute(time, m) \subseteq TimesOfDay
      BY <2>1, FromHmsNanoInDay, UnitsArePositive DEF WithMinute
    <3> QED  BY <3>1, <3>2, SetKeepsInv
  <2>4. CASE \E s \in 0..SecondsPerMinute : Set(WithSecond(time, s))
    <3>1. PICK s \in 0..SecondsPerMinute : Set(WithSecond(time, s))
      BY <2>4
    <3>2. WithSecond(time, s) \subseteq TimesOfDay
      BY <2>1, FromHmsNanoInDay, UnitsArePositive DEF WithSecond
    <3> QED  BY <3>1, <3>2, SetKeepsInv
  <2>5. CASE \E n \in 0..NsPerSecond : Set(WithNanosecond(time, n))
    <3>1. PICK n \in 0..NsPerSecond : Set(WithNanosecond(time, n))
      BY <2>5
    <3>2. WithNanosecond(time, n) \subseteq TimesOfDay
      BY <2>1, FromHmsNanoInDay, UnitsArePositive DEF WithNanosecond
    <3> QED  BY <3>1, <3>2, SetKeepsInv
  <2> QED  BY <1>4, <2>2, <2>3, <2>4, <2>5 DEF SetField
<1>5. CASE SetMillis
  <2>1. PICK ms \in 0..MillisPerSecond :
          Set(FromHmsMilli(Hour(time), Minute(time), Second(time), ms))
    BY <1>5 DEF SetMillis
  <2>2. ms * NsPerMilli \in Nat
    BY UnitsArePositive
  <2>3. FromHmsMilli(Hour(time), Minute(time), Second(time), ms) \subseteq TimesOfDay
    BY <1>0, <2>2, FieldsAreNat, FromHmsNanoInDay DEF FromHmsMilli
  <2> QED  BY <2>1, <2>3, SetKeepsInv
<1>6. CASE UNCHANGED vars
  BY <1>6 DEF vars, Inv, TypeOK, LedgerBalances
<1> QED  BY <1>1, <1>2, <1>3, <1>4, <1>5, <1>6 DEF Next

(* Every reachable state satisfies the inductive invariant.                *)
THEOREM InvAlways == Spec => []Inv
BY InitInv, NextInv, PTL DEF Spec

(* The time of day stays in the day whatever the caller does.              *)
THEOREM TypeCorrect == Spec => []TypeOK
<1>1. Inv => TypeOK
  BY DEF Inv
<1> QED  BY <1>1, InvAlways, PTL

(* No nanosecond is lost over any sequence of additions: the carried days  *)
(* of overflowing_add and the time of day add up to what has passed.       *)
THEOREM LedgerAlwaysBalances == Spec => []LedgerBalances
<1>1. Inv => LedgerBalances
  BY DEF Inv
<1> QED  BY <1>1, InvAlways, PTL

=============================================================================
