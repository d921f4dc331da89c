--------------------------- MODULE DurationProofs ---------------------------
(***************************************************************************)
(* Theorems about every caller of Duration (DurationCalls), for every pair *)
(* of widths and all sizes of the units that nest as the code's do: a      *)
(* Duration stays an i128, the counts of its units agree with each other,  *)
(* a product is divided back exactly, and core::time::Duration holds every *)
(* nanosecond of it.  And theorems about every text the reader of ISO      *)
(* durations is given (DurationRead), for every set of numbers and however *)
(* long the text grows: it accepts just the texts of the notation, their   *)
(* value is exact, and what is written from it reads as the same duration. *)
(***************************************************************************)
EXTENDS DurationCalls, DurationRead, CalendarProofs

-----------------------------------------------------------------------------
(* Integer arithmetic.                                                     *)
LEMMA ProductsKeepOrder ==
  ASSUME NEW a \in Int, NEW b \in Int, NEW c \in Nat, a <= b
  PROVE  a * c \in Int /\ b * c \in Int /\ a * c <= b * c
OBVIOUS

LEMMA QuotientBounds ==
  ASSUME NEW a \in Nat, NEW b \in Nat \ {0}
  PROVE  /\ a \div b \in Nat
         /\ (a \div b) * b <= a
         /\ a < (a \div b) * b + b
OBVIOUS

LEMMA QuotientIsUnique ==
  ASSUME NEW a \in Nat, NEW b \in Nat \ {0}, NEW q \in Int,
         q * b <= a, a < q * b + b
  PROVE  a \div b = q
OBVIOUS

LEMMA ProductIsPositive ==
  ASSUME NEW u \in Nat \ {0}, NEW k \in Nat \ {0}
  PROVE  u * k \in Nat \ {0}
OBVIOUS

(* Dividing by u and then by k is dividing by both at once.                *)
LEMMA QuotientOfQuotient ==
  ASSUME NEW a \in Nat, NEW u \in Nat \ {0}, NEW k \in Nat \ {0}
  PROVE  (a \div u) \div k = a \div (u * k)
<1> DEFINE n == a \div u
           q == n \div k
<1>1. n \in Nat /\ n * u <= a /\ a < n * u + u
  BY QuotientBounds
<1>2. q \in Nat /\ q * k <= n /\ n + 1 <= q * k + k
  BY <1>1, QuotientBounds
<1>3. u * k \in Nat \ {0} /\ q * k \in Nat /\ q * (u * k) = (q * k) * u
  BY <1>2, ProductIsPositive
<1>4. (q * k) * u <= n * u
  BY <1>1, <1>2, <1>3, ProductsKeepOrder
<1>5. (n + 1) * u <= (q * k + k) * u
  BY <1>1, <1>2, <1>3, ProductsKeepOrder
<1>6. q * (u * k) <= a /\ a < q * (u * k) + u * k
  BY <1>1, <1>2, <1>3, <1>4, <1>5
<1> QED  BY <1>2, <1>3, <1>6, QuotientIsUnique

(* A multiple of a multiple.                                               *)
LEMMA MultipleHasFactor ==
  ASSUME NEW u \in Nat \ {0}, NEW v \in Nat, v % u = 0
  PROVE  v \div u \in Nat /\ v = u * (v \div u)
OBVIOUS

LEMMA FactorGivesMultiple ==
  ASSUME NEW u \in Nat \ {0}, NEW k \in Nat
  PROVE  (u * k) % u = 0 /\ (u * k) \div u = k
OBVIOUS

LEMMA MultiplesCompose ==
  ASSUME NEW u \in Nat \ {0}, NEW v \in Nat \ {0}, NEW w \in Nat \ {0},
         v % u = 0, w % v = 0
  PROVE  w % u = 0
<1>1. PICK j \in Nat : v = u * j
  BY MultipleHasFactor
<1>2. PICK k \in Nat : w = v * k
  BY MultipleHasFactor
<1>3. j * k \in Nat /\ w = u * (j * k)
  BY <1>1, <1>2
<1> QED  BY <1>3, FactorGivesMultiple

LEMMA MultipleIsNoLess ==
  ASSUME NEW u \in Nat \ {0}, NEW v \in Nat \ {0}, v % u = 0
  PROVE  u <= v
OBVIOUS

-----------------------------------------------------------------------------
(* Truncating division, by the signs of its arguments.                     *)
LEMMA MagnitudeOfProduct ==
  ASSUME NEW a \in Int, NEW b \in Int
  PROVE  /\ Magnitude(a) \in Nat /\ (b # 0 => Magnitude(b) \in Nat \ {0})
         /\ Magnitude(a * b) = Magnitude(a) * Magnitude(b)
BY DEF Magnitude

LEMMA TruncatedCount ==
  ASSUME NEW d \in Int, NEW u \in Nat \ {0}
  PROVE  TruncDiv(d, u) = IF d < 0 THEN -((-d) \div u) ELSE d \div u
BY DEF TruncDiv, Magnitude

LEMMA TruncatedCountBounds ==
  ASSUME NEW n \in Int, NEW k \in Nat \ {0}
  PROVE  /\ TruncDiv(n, k) \in Int
         /\ n < 0 => n <= TruncDiv(n, k) /\ TruncDiv(n, k) <= 0
         /\ n >= 0 => 0 <= TruncDiv(n, k) /\ TruncDiv(n, k) <= n
<1>1. ASSUME NEW m \in Nat
      PROVE  m \div k \in Nat /\ m \div k <= m
  <2> DEFINE q == m \div k
  <2>1. q \in Nat /\ q * k <= m
    BY QuotientBounds
  <2>2. 1 * q <= k * q /\ 1 * q = q /\ k * q = q * k /\ k * q \in Int
    BY <2>1, ProductsKeepOrder
  <2> QED  BY <2>1, <2>2
<1>2. CASE n < 0
  <2>1. -n \in Nat
    BY <1>2
  <2>2. (-n) \div k \in Nat /\ (-n) \div k <= -n
    BY <1>1, <2>1
  <2>3. TruncDiv(n, k) = -((-n) \div k)
    BY <1>2, TruncatedCount
  <2> QED  BY <1>2, <2>2, <2>3
<1>3. CASE n >= 0
  <2>1. n \in Nat
    BY <1>3
  <2>2. n \div k \in Nat /\ n \div k <= n
    BY <1>1, <2>1
  <2>3. TruncDiv(n, k) = n \div k
    BY <1>3, TruncatedCount
  <2> QED  BY <1>3, <2>2, <2>3
<1> QED  BY <1>2, <1>3

(* Truncation composes, on both sides of zero.                             *)
LEMMA TruncationComposes ==
  ASSUME NEW d \in Int, NEW u \in Nat \ {0}, NEW k \in Nat \ {0}
  PROVE  TruncDiv(TruncDiv(d, u), k) = TruncDiv(d, u * k)
<1>0. u * k \in Nat \ {0}
  BY ProductIsPositive
<1>1. CASE d < 0
  <2> DEFINE n == (-d) \div u
  <2>0. -d \in Nat
    BY <1>1
  <2>1. n \in Nat /\ n \div k = (-d) \div (u * k) /\ n \div k \in Nat
    <3>1. n \in Nat
      BY <2>0, QuotientBounds
    <3>2. n \div k \in Nat
      BY <3>1, QuotientBounds
    <3>3. n \div k = (-d) \div (u * k)
      BY <2>0, QuotientOfQuotient
    <3> QED  BY <3>1, <3>2, <3>3
  <2>2. TruncDiv(d, u) = -n /\ TruncDiv(d, u * k) = -((-d) \div (u * k))
    BY <1>0, <1>1, TruncatedCount
  <2>3. TruncDiv(-n, k) = -(n \div k)
    <3>1. CASE n = 0
      <4>1. 0 \div k = 0
        BY QuotientIsUnique
      <4> QED  BY <3>1, <4>1, TruncatedCount
    <3>2. CASE n # 0
      BY <2>1, <3>2, TruncatedCount
    <3> QED  BY <3>1, <3>2
  <2> QED  BY <2>1, <2>2, <2>3
<1>2. CASE d >= 0
  <2>0. d \in Nat
    BY <1>2
  <2>1. d \div u \in Nat
    BY <2>0, QuotientBounds
  <2>2. (d \div u) \div k = d \div (u * k)
    BY <2>0, QuotientOfQuotient
  <2>3. TruncDiv(d, u) = d \div u /\ TruncDiv(d, u * k) = d \div (u * k)
    BY <1>0, <1>2, TruncatedCount
  <2> QED  BY <2>1, <2>2, <2>3, TruncatedCount
<1> QED  BY <1>1, <1>2

(* A product is divided back, whatever the signs.                          *)
LEMMA TruncatedProduct ==
  ASSUME NEW a \in Int, NEW k \in Int, k # 0
  PROVE  TruncDiv(a * k, k) = a /\ TruncDiv(k * a, k) = a
<1>1. Magnitude(a * k) \div Magnitude(k) = Magnitude(a)
  <2>1. /\ Magnitude(a) \in Nat /\ Magnitude(k) \in Nat \ {0}
        /\ Magnitude(a * k) = Magnitude(k) * Magnitude(a)
    BY MagnitudeOfProduct
  <2> QED  BY <2>1, FactorGivesMultiple
<1>2. k * a = a * k /\ a * k \in Int
  OBVIOUS
<1>3. a # 0 => ((a * k < 0) # (k < 0) <=> a < 0)
  OBVIOUS
<1>4. CASE a = 0
  <2>1. a * k = 0
    BY <1>4
  <2>2. Magnitude(0) \div Magnitude(k) = 0
    BY <1>1, <1>4, <2>1 DEF Magnitude
  <2> QED  BY <1>2, <2>1, <2>2, <1>4 DEF TruncDiv
<1>5. CASE a # 0
  <2>1. TruncDiv(a * k, k) = IF a < 0 THEN -Magnitude(a) ELSE Magnitude(a)
    BY <1>1, <1>3, <1>5 DEF TruncDiv
  <2> QED  BY <1>2, <2>1 DEF Magnitude
<1> QED  BY <1>4, <1>5

(* The quotient times the divisor lies between zero and the dividend, and  *)
(* less than a divisor away from it.                                       *)
LEMMA TruncatedRemainder ==
  ASSUME NEW a \in Int, NEW k \in Int, k # 0
  PROVE  LET back == TruncDiv(a, k) * k
         IN  /\ TruncDiv(a, k) \in Int /\ back \in Int
             /\ a < 0 => a <= back /\ back <= 0
             /\ a >= 0 => 0 <= back /\ back <= a
             /\ Magnitude(a - back) < Magnitude(k)
<1> DEFINE m == Magnitude(a)  w == Magnitude(k)  q == m \div w
<1>1. m \in Nat /\ w \in Nat \ {0}
  BY DEF Magnitude
<1>2. q \in Nat /\ q * w <= m /\ m < q * w + w
  BY <1>1, QuotientBounds
<1>3. TruncDiv(a, k) = IF (a < 0) # (k < 0) THEN -q ELSE q
  BY DEF TruncDiv
<1>4. TruncDiv(a, k) * k = IF a < 0 THEN -(q * w) ELSE q * w
  <2> HIDE DEF q
  <2>1. CASE k < 0
    <3>1. w = -k
      BY <2>1 DEF Magnitude
    <3>2. (-q) * k = q * w /\ q * k = -(q * w)
      BY <1>2, <3>1
    <3> QED  BY <1>3, <2>1, <3>2
  <2>2. CASE k > 0
    <3>1. w = k
      BY <2>2 DEF Magnitude
    <3>2. q * k = q * w /\ (-q) * k = -(q * w)
      BY <1>2, <3>1
    <3> QED  BY <1>3, <2>2, <3>2
  <2> QED  BY <2>1, <2>2
<1>5. q * w \in Nat
  BY <1>1, <1>2
<1>6. m = IF a < 0 THEN -a ELSE a
  BY DEF Magnitude
<1>7. TruncDiv(a, k) \in Int
  BY <1>2, <1>3
<1> HIDE DEF q, m, w
<1>8. a - TruncDiv(a, k) * k = IF a < 0 THEN -(m - q * w) ELSE m - q * w
  BY <1>1, <1>4, <1>5, <1>6
<1>9. Magnitude(a - TruncDiv(a, k) * k) < w
  BY <1>1, <1>2, <1>5, <1>8 DEF Magnitude
<1> QED  BY <1>1, <1>2, <1>4, <1>5, <1>6, <1>7, <1>9 DEF w

-----------------------------------------------------------------------------
(* The widths and the units.                                               *)
LEMMA WidthsAreInts ==
  /\ Inst \subseteq Int /\ Long \subseteq Int /\ 0 \in Inst
  /\ InstMin \in Int /\ InstMax \in Int
BY WidthAssumption DEF Inst, Long

(* Between zero and a duration there are only durations.                   *)
LEMMA TowardsZero ==
  ASSUME NEW d \in Inst, NEW e \in Int,
         d < 0 => d <= e /\ e <= 0, d >= 0 => 0 <= e /\ e <= d
  PROVE  e \in Inst
BY WidthAssumption DEF Inst

LEMMA CheckedIsInst ==
  ASSUME NEW n, NEW d \in CheckedInst(n)
  PROVE  d = n /\ d \in Inst
BY DEF CheckedInst, Ok, Err

LEMMA SaturatedIsInst ==
  ASSUME NEW n \in Int
  PROVE  SaturatedInst(n) \in Inst
BY WidthAssumption DEF SaturatedInst, Inst

LEMMA UnitsInOrder ==
  /\ DOMAIN UnitSizes = 1..8
  /\ \A i \in 1..8 : UnitSizes[i] \in Nat \ {0}
  /\ \A j \in 1..8, i \in 1..8 : i <= j => UnitSizes[j] % UnitSizes[i] = 0
<1>1. DOMAIN UnitSizes = 1..8 /\ Len(UnitSizes) = 8
  BY DEF UnitSizes
<1>2. \A i \in 1..8 : UnitSizes[i] \in Nat \ {0}
  BY <1>1, UnitAssumption
<1>3. \A i \in 2..8 : UnitSizes[i] % UnitSizes[i - 1] = 0
  BY <1>1, UnitAssumption
<1> DEFINE Nested(j) == \A i \in 1..8 : i <= j => UnitSizes[j] % UnitSizes[i] = 0
<1>4. \A j \in 1..8 : UnitSizes[j] % UnitSizes[j] = 0
  BY <1>2
<1>5. ASSUME NEW j \in 2..8, Nested(j - 1)
      PROVE  Nested(j)
  <2> SUFFICES ASSUME NEW i \in 1..8, i <= j
               PROVE  UnitSizes[j] % UnitSizes[i] = 0
    OBVIOUS
  <2>1. CASE i = j
    BY <1>4, <2>1
  <2>2. CASE i < j
    <3>1. /\ j \in 1..8 /\ j - 1 \in 1..8 /\ i <= j - 1
          /\ UnitSizes[j - 1] % UnitSizes[i] = 0
          /\ UnitSizes[j] % UnitSizes[j - 1] = 0
      BY <1>3, <1>5, <2>2
    <3>2. /\ UnitSizes[i] \in Nat \ {0} /\ UnitSizes[j] \in Nat \ {0}
          /\ UnitSizes[j - 1] \in Nat \ {0}
      BY <1>2, <3>1
    <3> QED  BY <3>1, <3>2, MultiplesCompose
  <2> QED  BY <2>1, <2>2
<1>6. Nested(1)
  BY <1>4
<1> HIDE DEF Nested
<1>7. Nested(2) /\ Nested(3) /\ Nested(4)
  BY <1>5, <1>6
<1>8. Nested(5) /\ Nested(6) /\ Nested(7) /\ Nested(8)
  BY <1>5, <1>7
<1>9. \A j \in 1..8 : Nested(j)
  BY <1>6, <1>7, <1>8
<1> QED  BY <1>1, <1>2, <1>9 DEF Nested

(* An i64 of any unit is an i128 of nanoseconds.                           *)
LEMMA CountsFit ==
  ASSUME NEW n \in Long, NEW unit \in Units
  PROVE  /\ unit \in Nat \ {0} /\ FromUnits(n, unit) \in Inst
<1>1. PICK i \in 1..8 : unit = UnitSizes[i]
  BY UnitsInOrder DEF Units
<1>2. unit \in Nat \ {0} /\ NsPerWeek \in Nat \ {0} /\ NsPerWeek % unit = 0
  <2>1. UnitSizes[8] = NsPerWeek
    BY DEF UnitSizes
  <2> QED  BY <1>1, <2>1, UnitsInOrder
<1>3. unit <= NsPerWeek
  BY <1>2, MultipleIsNoLess
<1>4. /\ LongMin \in Int /\ LongMax \in Nat /\ n \in Int
      /\ LongMin <= 0 /\ LongMin <= n /\ n <= LongMax
  BY WidthAssumption DEF Long
<1>5. LongMin * unit <= n * unit /\ n * unit <= LongMax * unit
  BY <1>2, <1>4, ProductsKeepOrder
<1>6. LongMax * unit <= LongMax * NsPerWeek
  <2>1. unit * LongMax <= NsPerWeek * LongMax
    BY <1>2, <1>3, <1>4, ProductsKeepOrder
  <2> QED  BY <1>2, <1>4, <2>1
<1>7. LongMin * NsPerWeek <= LongMin * unit
  <2>1. -LongMin \in Nat /\ unit * (-LongMin) <= NsPerWeek * (-LongMin)
    BY <1>2, <1>3, <1>4, ProductsKeepOrder
  <2> QED  BY <1>2, <1>4, <2>1
<1>8. LongMin * NsPerWeek \in Inst /\ LongMax * NsPerWeek \in Inst
  BY WidthAssumption
<1>9. n * unit \in Int /\ LongMin * unit \in Int /\ LongMax * unit \in Int
  BY <1>2, <1>4
<1> QED  BY <1>2, <1>5, <1>6, <1>7, <1>8, <1>9, WidthsAreInts DEF Inst, FromUnits

LEMMA StdFits ==
  ASSUME NEW secs \in 0..ULongMax, NEW nanos \in 0..NsPerSec-1
  PROVE  FromStd([secs |-> secs, nanos |-> nanos]) \in Inst
<1>1. NsPerSec \in Nat \ {0}
  <2>1. UnitSizes[4] = NsPerSec
    BY DEF UnitSizes
  <2> QED  BY <2>1, UnitsInOrder
<1>2. ULongMax \in Nat /\ (ULongMax + 1) * NsPerSec \in Inst
  BY WidthAssumption
<1>3. (secs + 1) * NsPerSec <= (ULongMax + 1) * NsPerSec
  BY <1>1, <1>2, ProductsKeepOrder
<1>4. /\ secs * NsPerSec \in Nat
      /\ (secs + 1) * NsPerSec = secs * NsPerSec + NsPerSec
  BY <1>1, <1>2
<1> QED  BY <1>1, <1>2, <1>3, <1>4, WidthAssumption DEF Inst, FromStd

-----------------------------------------------------------------------------
(* No sequence of calls leaves the i128: the constructors that do not look *)
(* (seconds to weeks, from_std) cannot overflow, and every other operation *)
(* checks or saturates, MIN divided by -1 included.                        *)
THEOREM TypeCorrect == Spec => []TypeOK
<1>1. Init => TypeOK
  BY WidthsAreInts DEF Init, TypeOK
<1>2. TypeOK /\ [Next]_span => TypeOK'
  <2> SUFFICES ASSUME TypeOK, [Next]_span
               PROVE  TypeOK'
    OBVIOUS
  <2> USE DEF TypeOK
  <2>1. ASSUME NEW result \in SUBSET Inst, Return(result)
        PROVE  span' \in Inst
    BY <2>1 DEF Return
  <2>2. CASE UNCHANGED span
    BY <2>2
  <2>3. CASE Build
    <3>1. ASSUME NEW n \in Counts, NEW unit \in Units \ Scaled
          PROVE  Ok(FromUnits(n, unit)) \in SUBSET Inst
      BY CountsFit, ArgumentAssumption DEF Ok
    <3>2. ASSUME NEW n \in Counts \cup Spans, NEW unit \in Scaled
          PROVE  /\ Ok(FromScaled(n, unit)) \in SUBSET Inst
                 /\ CheckedFromScaled(n, unit) \in SUBSET Inst
      <4>1. n * unit \in Int
        <5>1. n \in Int
          BY WidthsAreInts, ArgumentAssumption
        <5>2. UnitSizes[2] = NsPerMicro /\ UnitSizes[3] = NsPerMilli
          BY DEF UnitSizes
        <5>3. unit \in Int
          BY <5>2, UnitsInOrder DEF Scaled
        <5> QED  BY <5>1, <5>3
      <4> QED  BY <4>1, SaturatedIsInst
               DEF Ok, Err, FromScaled, CheckedFromScaled, CheckedInst
    <3>3. \A d \in Spans : Ok(d) \in SUBSET Inst
      BY ArgumentAssumption DEF Ok
    <3> QED  BY <2>1, <2>3, <3>1, <3>2, <3>3 DEF Build
  <2>4. CASE BuildStd
    <3>1. PICK secs \in {0, ULongMax}, nanos \in {0, NsPerSec - 1} :
            Return(Ok(FromStd([secs |-> secs, nanos |-> nanos])))
      BY <2>4 DEF BuildStd
    <3>2. NsPerSec \in Nat \ {0} /\ ULongMax \in Nat
      <4>1. UnitSizes[4] = NsPerSec
        BY DEF UnitSizes
      <4> QED  BY <4>1, UnitsInOrder, WidthAssumption
    <3>3. secs \in 0..ULongMax /\ nanos \in 0..NsPerSec-1
      BY <3>1, <3>2
    <3> QED  BY <3>1, <3>3, StdFits DEF Return, Ok
  <2>5. CASE ChangeSign
    <3>1. CheckedNeg(span) \in SUBSET Inst
      BY DEF CheckedNeg, CheckedInst, Ok, Err
    <3>2. CheckedAbs(span) \in SUBSET Inst
      BY WidthAssumption DEF CheckedAbs, Ok, Err, Magnitude, Inst
    <3> QED  BY <2>1, <2>5, <3>1, <3>2 DEF ChangeSign
  <2>6. CASE Combine
    <3>1. ASSUME NEW d \in Spans
          PROVE  /\ CheckedAdd(span, d) \in SUBSET Inst
                 /\ CheckedSub(span, d) \in SUBSET Inst
                 /\ Ok(SaturatingAdd(span, d)) \in SUBSET Inst
                 /\ Ok(SaturatingSub(span, d)) \in SUBSET Inst
      <4>1. span + d \in Int /\ span - d \in Int
        BY WidthsAreInts, ArgumentAssumption
      <4> QED  BY <4>1, SaturatedIsInst
               DEF CheckedAdd, CheckedSub, SaturatingAdd, SaturatingSub,
                   CheckedInst, Ok, Err
    <3> QED  BY <2>1, <2>6, <3>1 DEF Combine
  <2>7. CASE Scale
    <3>1. ASSUME NEW k \in Factors
          PROVE  /\ CheckedMul(span, k) \in SUBSET Inst
                 /\ Ok(SaturatingMul(span, k)) \in SUBSET Inst
                 /\ CheckedDiv(span, k) \in SUBSET Inst
      <4>1. span * k \in Int
        BY WidthsAreInts, ArgumentAssumption
      <4> QED  BY <4>1, SaturatedIsInst
               DEF CheckedMul, SaturatingMul, CheckedDiv, CheckedInst, Ok, Err
    <3> QED  BY <2>1, <2>7, <3>1 DEF Scale
  <2> QED  BY <2>2, <2>3, <2>4, <2>5, <2>6, <2>7 DEF Next
<1> QED  BY <1>1, <1>2, PTL DEF Spec

-----------------------------------------------------------------------------
(* num_seconds, num_minutes and the other counts of units agree with each  *)
(* other on every duration.                                                *)
THEOREM CountsNest == Spec => []UnitsNest
<1>1. TypeOK => UnitsNest
  <2> SUFFICES ASSUME TypeOK,
                      NEW i \in DOMAIN UnitSizes, NEW j \in DOMAIN UnitSizes, i <= j,
                      NEW n \in NumUnits(span, UnitSizes[i])
               PROVE  NumUnits(span, UnitSizes[j])
                        = Ok(TruncDiv(n, UnitSizes[j] \div UnitSizes[i]))
    BY DEF UnitsNest
  <2> DEFINE u == UnitSizes[i]
             v == UnitSizes[j]
             k == v \div u
  <2>1. u \in Nat \ {0} /\ v \in Nat \ {0} /\ v % u = 0
    BY UnitsInOrder
  <2>2. k \in Nat \ {0} /\ v = u * k
    <3>1. k \in Nat /\ v = u * k
      BY <2>1, MultipleHasFactor
    <3> QED  BY <2>1, <3>1
  <2>3. span \in Int
    BY WidthsAreInts DEF TypeOK
  <2>4. n = TruncDiv(span, u) /\ n \in Long
    BY DEF NumUnits, AsUnits, Ok, Err
  <2> HIDE DEF u, v, k
  <2>5. TruncDiv(n, k) = TruncDiv(span, v)
    BY <2>1, <2>2, <2>3, <2>4, TruncationComposes
  <2>6. TruncDiv(n, k) \in Long
    <3>1. LongMin \in Int /\ LongMax \in Int /\ LongMin <= 0 /\ 0 <= LongMax
      BY WidthAssumption
    <3>2. n \in Int /\ LongMin <= n /\ n <= LongMax
      BY <2>4, <3>1 DEF Long
    <3>3. /\ TruncDiv(n, k) \in Int
          /\ n < 0 => n <= TruncDiv(n, k) /\ TruncDiv(n, k) <= 0
          /\ n >= 0 => 0 <= TruncDiv(n, k) /\ TruncDiv(n, k) <= n
      BY <2>2, <3>2, TruncatedCountBounds
    <3> QED  BY <3>1, <3>2, <3>3 DEF Long
  <2> QED  BY <2>5, <2>6 DEF NumUnits, AsUnits, u, v, k
<1> QED  BY <1>1, TypeCorrect, PTL

-----------------------------------------------------------------------------
(* checked_mul and checked_div are inverse as far as they can be, for all  *)
(* factors, zero, negative ones and both limits included.                  *)
THEOREM ProductsAndQuotients == Spec => []ProductsDivideBack
<1>1. TypeOK => ProductsDivideBack
  <2> SUFFICES ASSUME TypeOK, NEW k \in Factors
               PROVE  /\ \A product \in CheckedMul(span, k) :
                           /\ k # 0 => CheckedDiv(product, k) = Ok(span)
                           /\ span # 0 => CheckedDivDuration(product, span) = Ok(k)
                      /\ \A quotient \in CheckedDiv(span, k) :
                           \E back \in CheckedMul(quotient, k) :
                             /\ UnsignedAbs(back) <= UnsignedAbs(span)
                             /\ UnsignedAbs(span - back) < UnsignedAbs(k)
    BY DEF ProductsDivideBack
  <2>1. span \in Inst /\ span \in Int /\ k \in Inst /\ k \in Int
    BY WidthsAreInts, ArgumentAssumption DEF TypeOK
  <2>2. ASSUME NEW product \in CheckedMul(span, k)
        PROVE  /\ k # 0 => CheckedDiv(product, k) = Ok(span)
               /\ span # 0 => CheckedDivDuration(product, span) = Ok(k)
    <3>1. product = span * k
      BY CheckedIsInst DEF CheckedMul
    <3>2. k # 0 => TruncDiv(product, k) = span
      BY <2>1, <3>1, TruncatedProduct
    <3>3. span # 0 => TruncDiv(product, span) = k
      BY <2>1, <3>1, TruncatedProduct
    <3> QED  BY <2>1, <3>2, <3>3 DEF CheckedDivDuration, CheckedDiv, CheckedInst
  <2>3. ASSUME NEW quotient \in CheckedDiv(span, k)
        PROVE  \E back \in CheckedMul(quotient, k) :
                 /\ UnsignedAbs(back) <= UnsignedAbs(span)
                 /\ UnsignedAbs(span - back) < UnsignedAbs(k)
    <3> DEFINE back == quotient * k
    <3>1. k # 0 /\ quotient = TruncDiv(span, k)
      BY CheckedIsInst DEF CheckedDiv, Err
    <3>2. /\ back \in Int
          /\ span < 0 => span <= back /\ back <= 0
          /\ span >= 0 => 0 <= back /\ back <= span
          /\ Magnitude(span - back) < Magnitude(k)
      BY <2>1, <3>1, TruncatedRemainder
    <3> HIDE DEF back
    <3>3. back \in Inst
      BY <2>1, <3>2, TowardsZero
    <3>4. back \in CheckedMul(quotient, k)
      BY <3>3 DEF CheckedMul, CheckedInst, Ok, back
    <3>5. Magnitude(back) <= Magnitude(span)
      BY <2>1, <3>2 DEF Magnitude
    <3> QED  BY <3>2, <3>4, <3>5 DEF UnsignedAbs
  <2> QED  BY <2>2, <2>3
<1> QED  BY <1>1, TypeCorrect, PTL

-----------------------------------------------------------------------------
(* to_std succeeds exactly for the durations core::time::Duration has, and *)
(* from_std takes the result back.                                         *)
THEOREM StdIsExact == Spec => []StdKeepsSpan
<1>1. TypeOK => StdKeepsSpan
  <2> SUFFICES ASSUME TypeOK
               PROVE  StdKeepsSpan
    OBVIOUS
  <2>1. NsPerSec \in Nat \ {0} /\ ULongMax \in Nat /\ span \in Int
    <3>1. UnitSizes[4] = NsPerSec
      BY DEF UnitSizes
    <3> QED  BY <3>1, UnitsInOrder, WidthAssumption, WidthsAreInts DEF TypeOK
  <2>2. (ULongMax + 1) * NsPerSec \in Int
    BY <2>1
  <2>3. CASE span < 0
    BY <2>1, <2>2, <2>3 DEF StdKeepsSpan, ToStd, Err
  <2>4. CASE span >= 0
    <3> DEFINE secs  == FloorDivNs(span, NsPerSec)
               nanos == FloorRemNs(span, NsPerSec)
    <3>1. span \in Nat
      BY <2>1, <2>4
    <3>2. secs = span \div NsPerSec
      BY <2>1, <2>4, TruncatedCount DEF FloorDivNs
    <3>3. secs \in Nat /\ secs * NsPerSec <= span /\ span < secs * NsPerSec + NsPerSec
      BY <2>1, <3>1, <3>2, QuotientBounds
    <3>4. nanos = span - NsPerSec * secs
      BY <2>4, <3>2 DEF FloorRemNs, FloorDivNs, TruncRem
    <3> HIDE DEF secs, nanos
    <3>5. nanos \in 0..NsPerSec-1 /\ secs * NsPerSec + nanos = span
      BY <2>1, <3>3, <3>4
    <3>6. secs <= ULongMax <=> span < (ULongMax + 1) * NsPerSec
      <4>1. CASE secs <= ULongMax
        <5>1. (secs + 1) * NsPerSec <= (ULongMax + 1) * NsPerSec
          BY <2>1, <3>3, <4>1, ProductsKeepOrder
        <5> QED  BY <2>1, <2>2, <3>3, <4>1, <5>1
      <4>2. CASE secs > ULongMax
        <5>1. (ULongMax + 1) * NsPerSec <= secs * NsPerSec
          BY <2>1, <3>3, <4>2, ProductsKeepOrder
        <5> QED  BY <2>1, <2>2, <3>3, <4>2, <5>1
      <4> QED  BY <2>1, <3>3, <4>1, <4>2
    <3>7. ToStd(span) = IF secs <= ULongMax THEN Ok([secs |-> secs, nanos |-> nanos]) ELSE Err
      BY <2>4 DEF ToStd, secs, nanos
    <3>8. ToStd(span) # Err <=> span \in 0..(ULongMax + 1) * NsPerSec - 1
      <4>1. ToStd(span) # Err <=> secs <= ULongMax
        BY <3>7 DEF Ok, Err
      <4> QED  BY <2>2, <2>4, <3>1, <3>6, <4>1
    <3>9. \A s \in ToStd(span) : s.nanos \in 0..NsPerSec-1 /\ FromStd(s) = span
      BY <3>5, <3>7 DEF Ok, Err, FromStd
    <3> QED  BY <3>8, <3>9 DEF StdKeepsSpan
  <2> QED  BY <2>1, <2>3, <2>4
<1> QED  BY <1>1, TypeCorrect, PTL

-----------------------------------------------------------------------------
(* The reader of a text (DurationRead).                                    *)
LEMMA Ranks ==
  /\ DOMAIN Rank = {"W", "D", "T", "H", "M", "S"}
  /\ Rank["W"] = 6 /\ Rank["D"] = 5 /\ Rank["T"] = 4
  /\ Rank["H"] = 3 /\ Rank["M"] = 2 /\ Rank["S"] = 1
BY DEF Rank

LEMMA Places == Place("H") = 1 /\ Place("M") = 2 /\ Place("S") = 3
<1>1. DOMAIN Order = {1, 2, 3} /\ Order[1] = "H" /\ Order[2] = "M" /\ Order[3] = "S"
  BY DEF Order
<1> HIDE DEF Order
<1>2. \A i \in DOMAIN Order : /\ Order[i] = "H" <=> i = 1
                              /\ Order[i] = "M" <=> i = 2
                              /\ Order[i] = "S" <=> i = 3
  BY <1>1
<1> QED  BY <1>1, <1>2 DEF Place

LEMMA UnitSizesInNat ==
  /\ NsPerWeek \in Nat \ {0} /\ NsPerDay \in Nat \ {0} /\ NsPerHour \in Nat \ {0}
  /\ NsPerMin \in Nat \ {0} /\ NsPerSec \in Nat \ {0}
<1>1. DOMAIN UnitSizes = 1..8
  BY DEF UnitSizes
<1>2. /\ UnitSizes[4] = NsPerSec /\ UnitSizes[5] = NsPerMin /\ UnitSizes[6] = NsPerHour
      /\ UnitSizes[7] = NsPerDay /\ UnitSizes[8] = NsPerWeek
  BY DEF UnitSizes
<1>3. 4 \in 1..8 /\ 5 \in 1..8 /\ 6 \in 1..8 /\ 7 \in 1..8 /\ 8 \in 1..8
  OBVIOUS
<1> QED  BY <1>1, <1>2, <1>3, UnitAssumption

LEMMA UnitsOfDesignators ==
  /\ UnitOf["W"] = NsPerWeek /\ UnitOf["D"] = NsPerDay
  /\ UnitOf["H"] = NsPerHour /\ UnitOf["M"] = NsPerMin /\ UnitOf["S"] = NsPerSec
BY DEF UnitOf

(* One more token at the end of a text. *)
LEMMA Appended ==
  ASSUME NEW t \in Seq(Tokens), NEW token \in Tokens
  PROVE  LET u == Append(t, token)
         IN  /\ u \in Seq(Tokens) /\ Len(u) = Len(t) + 1 /\ Len(t) \in Nat
             /\ u[Len(u)] = token
             /\ \A i \in 1..Len(t) : u[i] = t[i]
OBVIOUS

(* The fields of a token; a byte alone is a token without a number. *)
LEMMA TokenFields ==
  /\ \A token \in Tokens : /\ token = [number |-> token.number, byte |-> token.byte]
                           /\ token.number \in Numbers \cup {NoNumber}
                           /\ token.byte \in Bytes
                           /\ token.number.fracDigits \in Nat
  /\ \A b : Byte(b).number = NoNumber /\ Byte(b).byte = b
  /\ NoNumber.fracDigits = 0 /\ ~IsNumber(NoNumber)
<1>1. NoNumber.fracDigits = 0 /\ NoNumber.intDigits = 0 /\ NoNumber.frac = 0
  BY DEF NoNumber
<1>2. ~IsNumber(NoNumber)
  BY <1>1 DEF IsNumber
<1>3. \A token \in Tokens : /\ token = [number |-> token.number, byte |-> token.byte]
                            /\ token.number \in Numbers \cup {NoNumber}
                            /\ token.byte \in Bytes
  BY DEF Tokens
<1>4. \A n \in Numbers \cup {NoNumber} : n.fracDigits \in Nat
  BY <1>1, DigitAssumption
<1> QED  BY <1>1, <1>2, <1>3, <1>4 DEF Byte

-----------------------------------------------------------------------------
(* No text is refused for its size: what the components up to a designator *)
(* can add to, in units of the count a number may have.                    *)
Room ==
  [P |-> 0,
   W |-> NsPerWeek,
   D |-> NsPerWeek + NsPerDay,
   T |-> NsPerWeek + NsPerDay,
   H |-> NsPerWeek + NsPerDay + NsPerHour,
   M |-> NsPerWeek + NsPerDay + NsPerHour + NsPerMin,
   S |-> NsPerWeek + NsPerDay + NsPerHour + NsPerMin + NsPerSec]

LEMMA ProductsInOrder ==
  ASSUME NEW a \in Nat, NEW b \in Nat, NEW c \in Nat, a <= b
  PROVE  a * c \in Nat /\ b * c \in Nat /\ a * c <= b * c /\ c * a <= c * b
OBVIOUS

LEMMA QuotientIsBelow ==
  ASSUME NEW a \in Nat, NEW b \in Nat \ {0}, NEW u \in Nat, a <= u * b
  PROVE  TruncDiv(a, b) \in Nat /\ TruncDiv(a, b) <= u
<1>1. Magnitude(a) = a /\ Magnitude(b) = b
  BY DEF Magnitude
<1>2. TruncDiv(a, b) = a \div b
  BY <1>1 DEF TruncDiv
<1> DEFINE q == a \div b
<1>3. q \in Nat /\ q * b <= a
  OBVIOUS
<1> HIDE DEF q
<1>4. q <= u
  <2> SUFFICES ASSUME u + 1 <= q PROVE FALSE
    BY <1>3
  <2>1. (u + 1) * b <= q * b
    BY <1>3, ProductsInOrder
  <2>2. (u + 1) * b = u * b + b /\ u * b \in Nat /\ q * b \in Nat
    BY <1>3
  <2> QED  BY <1>3, <2>1, <2>2
<1> QED  BY <1>2, <1>3, <1>4 DEF q

LEMMA NumbersAreBounded ==
  ASSUME NEW n \in Numbers, IsNumber(n)
  PROVE  /\ MaxInt \in Nat /\ n.int \in 0..MaxInt
         /\ n.frac \in Nat /\ 10^n.fracDigits \in Nat \ {0}
         /\ n.frac <= 10^n.fracDigits
<1> DEFINE ten  == 10^n.intDigits
           tenF == 10^n.fracDigits
           top  == 10^MaxIntDigits
           topF == 10^MaxFracDigits
<1>1. /\ n.int \in Nat /\ n.intDigits \in Nat /\ n.frac \in Nat /\ n.fracDigits \in Nat
      /\ n.int < ten /\ n.frac < tenF
      /\ n.intDigits <= MaxIntDigits /\ n.fracDigits <= MaxFracDigits
      /\ MaxIntDigits \in Nat /\ MaxFracDigits \in Nat
  BY DigitAssumption DEF IsNumber, Widths
<1>2. ten \in 1..top /\ tenF \in 1..topF
  <2>1. n.intDigits \in 0..MaxIntDigits /\ n.fracDigits \in 0..MaxFracDigits
    BY <1>1
  <2> QED  BY <2>1, PowerAssumption
<1>3. top \in 1..top
  <2>1. MaxIntDigits \in 0..MaxIntDigits
    BY <1>1
  <2> QED  BY <2>1, PowerAssumption
<1>4. MaxInt = top - 1
  BY DEF MaxInt
<1> HIDE DEF ten, tenF, top, topF
<1>5. MaxInt \in Nat /\ n.int \in 0..MaxInt /\ tenF \in Nat \ {0} /\ n.frac <= tenF
  BY <1>1, <1>2, <1>3, <1>4
<1> QED  BY <1>1, <1>5 DEF tenF

LEMMA ComponentIsAdded ==
  ASSUME NEW n \in Numbers, IsNumber(n), NEW unit \in Nat \ {0},
         NEW total \in Nat, NEW room \in Nat,
         total <= (MaxInt + 1) * room, (MaxInt + 1) * (room + unit) <= InstMax
  PROVE  /\ AddComponent(total, n, unit) # {}
         /\ \A v \in AddComponent(total, n, unit) :
              v \in Nat /\ v <= (MaxInt + 1) * (room + unit)
<1> DEFINE whole == n.int * unit
           part  == TruncDiv(n.frac * unit, 10^n.fracDigits)
<1>1. /\ MaxInt \in Nat /\ n.int \in 0..MaxInt
      /\ n.frac \in Nat /\ 10^n.fracDigits \in Nat \ {0}
      /\ n.frac <= 10^n.fracDigits
  BY NumbersAreBounded
<1>2. whole \in Nat /\ whole <= MaxInt * unit /\ MaxInt * unit \in Nat
  BY <1>1, ProductsInOrder
<1>3. part \in Nat /\ part <= unit
  <2> DEFINE ten == 10^n.fracDigits
  <2>1. ten \in Nat \ {0} /\ n.frac <= ten
    BY <1>1
  <2> HIDE DEF ten
  <2>2. n.frac * unit \in Nat /\ n.frac * unit <= ten * unit /\ ten * unit = unit * ten
    BY <1>1, <2>1, ProductsInOrder
  <2>3. TruncDiv(n.frac * unit, ten) \in Nat /\ TruncDiv(n.frac * unit, ten) <= unit
    BY <2>1, <2>2, QuotientIsBelow
  <2> QED  BY <2>3 DEF ten
<1> HIDE DEF whole, part
<1>4. /\ (MaxInt + 1) * (room + unit) = (MaxInt + 1) * room + MaxInt * unit + unit
      /\ (MaxInt + 1) * room \in Nat
  BY <1>1
<1>5. /\ total + whole + part \in Nat
      /\ total + whole + part <= (MaxInt + 1) * (room + unit)
      /\ total + whole \in Nat /\ total + whole <= (MaxInt + 1) * (room + unit)
  BY <1>2, <1>3, <1>4
<1>6. total + whole \in Inst /\ total + whole + part \in Inst
  <2>1. InstMax \in Nat /\ InstMin \in Int /\ InstMin <= 0
    BY WidthAssumption
  <2>2. (MaxInt + 1) * (room + unit) \in Int
    BY <1>1
  <2> QED  BY <1>5, <2>1, <2>2 DEF Inst
<1>7. CheckedInst(total + whole) = {total + whole}
      /\ CheckedInst(total + whole + part) = {total + whole + part}
  BY <1>6 DEF CheckedInst, Ok
<1>8. AddComponent(total, n, unit) = {total + whole + part}
  BY <1>7 DEF AddComponent, whole, part
<1> QED  BY <1>5, <1>8

-----------------------------------------------------------------------------
(* The inductive invariant: what the text read so far looks like when the  *)
(* reader is in a state.  After the sign and the P it is a piece of a      *)
(* duration, and the reader remembers all that the rest depends on.        *)
ReaderStates ==
  [at : {"sign", "P", "date", "time"}, negative : BOOLEAN,
   total : Nat, last : DOMAIN Room, closed : BOOLEAN]

PlaceOfP(s) == IF s.negative THEN 2 ELSE 1

Piece(t, p) ==
  /\ p <= Len(t) /\ t[p] = Byte("P") /\ (p = 2 => t[1] = Byte("-"))
  /\ \A i \in p+1..Len(t) :
       /\ t[i].byte \in DOMAIN Rank
       /\ IF t[i].byte = "T" THEN t[i].number = NoNumber ELSE IsNumber(t[i].number)
       /\ t[i].byte = "W" => Len(t) = p + 1
  /\ \A i, j \in p+1..Len(t) :
       i < j => Rank[t[i].byte] > Rank[t[j].byte] /\ t[i].number.fracDigits = 0

Remembered(t, s, p) ==
  /\ s.at = "time" <=> \E i \in p+1..Len(t) : t[i].byte = "T"
  /\ \A i \in p+1..Len(t) : t[i].byte \in TimeUnits => s.at = "time"
  /\ s.last = IF Len(t) = p THEN "P" ELSE t[Len(t)].byte
  /\ s.closed <=> Len(t) # p /\ t[Len(t)].number.fracDigits > 0

Reached(t, s) ==
  /\ s \in ReaderStates
  /\ s.total <= (MaxInt + 1) * Room[s.last]
  /\ \/ s.at = "sign" /\ t = <<>> /\ s = Start
     \/ s.at = "P" /\ t = <<Byte("-")>> /\ s = [Start EXCEPT !.at = "P", !.negative = TRUE]
     \/ /\ s.at \in {"date", "time"}
        /\ Piece(t, PlaceOfP(s)) /\ Remembered(t, s, PlaceOfP(s))

ReaderInv ==
  /\ text \in Seq(Tokens)
  /\ \A s \in scan : Reached(text, s)
  /\ scan = Err => \A more \in Seq(Tokens) : ~IsDuration(text \o more)

(* The grammar, from a given place of the P on. *)
LEMMA DurationFromP ==
  ASSUME NEW t
  PROVE  IsDuration(t) <=>
           \E p \in 1..2 :
             /\ p+1..Len(t) # {} /\ t[p] = Byte("P") /\ (p = 2 => t[1] = Byte("-"))
             /\ \A i \in p+1..Len(t) :
                  /\ t[i].byte \in DOMAIN Rank
                  /\ IF t[i].byte = "T" THEN i < Len(t) /\ t[i].number = NoNumber
                     ELSE IsNumber(t[i].number)
                  /\ t[i].byte = "W" => Len(t) = p + 1
                  /\ t[i].byte \in TimeUnits => \E j \in p+1..Len(t) : t[j].byte = "T"
             /\ \A i, j \in p+1..Len(t) :
                  i < j => Rank[t[i].byte] > Rank[t[j].byte] /\ t[i].number.fracDigits = 0
BY DEF IsDuration

(* Every text that starts with the piece has its P where the piece has it. *)
LEMMA OneSign ==
  ASSUME NEW t \in Seq(Tokens), NEW p \in 1..2, Piece(t, p),
         NEW u \in Seq(Tokens), \A i \in 1..Len(t) : u[i] = t[i],
         NEW q \in 1..2, u[q] = Byte("P"), q = 2 => u[1] = Byte("-")
  PROVE  q = p
<1>1. Byte("P") # Byte("-")
  BY TokenFields
<1>2. 1 \in 1..Len(t) /\ p \in 1..Len(t)
  BY DEF Piece
<1>3. t[p] = Byte("P") /\ (p = 2 => t[1] = Byte("-")) /\ u[1] = t[1] /\ u[p] = t[p]
  BY <1>2 DEF Piece
<1> QED  BY <1>1, <1>3

(* Before its P a text is empty or a minus. *)
LEMMA BeforeP ==
  ASSUME NEW t \in Seq(Tokens), NEW s, Reached(t, s), s.at \in {"sign", "P"}
  PROVE  \/ s.at = "sign" /\ t = <<>> /\ Len(t) = 0 /\ s = Start
         \/ /\ s.at = "P" /\ Len(t) = 1 /\ t[1] = Byte("-")
            /\ s = [Start EXCEPT !.at = "P", !.negative = TRUE]
<1>1. \/ s.at = "sign" /\ t = <<>> /\ s = Start
      \/ /\ s.at = "P" /\ t = <<Byte("-")>>
         /\ s = [Start EXCEPT !.at = "P", !.negative = TRUE]
  BY DEF Reached
<1>2. CASE t = <<>>
  BY <1>1, <1>2
<1>3. CASE t = <<Byte("-")>>
  <2>1. Len(<<Byte("-")>>) = 1 /\ <<Byte("-")>>[1] = Byte("-") /\ <<Byte("-")>> # <<>>
    OBVIOUS
  <2>2. Len(t) = 1 /\ t[1] = Byte("-") /\ t # <<>>
    BY <1>3, <2>1, Zenon
  <2> QED  BY <1>1, <2>2
<1> QED  BY <1>1, <1>2, <1>3

(* The reader ends well exactly at the end of a duration. *)
LEMMA EndsWithDuration ==
  ASSUME NEW t \in Seq(Tokens), NEW s, Reached(t, s)
  PROVE  Finish(s) # Err <=> IsDuration(t)
<1>1. Finish(s) # Err <=> s.at \in {"date", "time"} /\ s.last \notin {"P", "T"}
  BY DEF Finish, Ok, Err
<1>2. CASE s.at \in {"sign", "P"}
  <2>1. Len(t) = 0 \/ Len(t) = 1
    BY <1>2, BeforeP, Zenon
  <2>2. ~IsDuration(t)
    BY <2>1, DurationFromP
  <2> QED  BY <1>1, <1>2, <2>2
<1>3. CASE s.at \in {"date", "time"}
  <2> DEFINE p == PlaceOfP(s)
  <2>1. p \in 1..2 /\ Piece(t, p) /\ Remembered(t, s, p)
    BY <1>3 DEF Reached, PlaceOfP
  <2> HIDE DEF p
  <2>2. p <= Len(t) /\ Len(t) \in Nat
    BY <2>1 DEF Piece
  <2>3. ASSUME s.last \notin {"P", "T"}
        PROVE  IsDuration(t)
    <3>1. Len(t) # p /\ s.last = t[Len(t)].byte
      BY <2>1, <2>3 DEF Remembered
    <3>2. Len(t) \in p+1..Len(t)
      BY <2>1, <2>2, <3>1
    <3>3. \A i \in p+1..Len(t) : t[i].byte = "T" => i < Len(t)
      BY <2>2, <2>3, <3>1
    <3>4. \A i \in p+1..Len(t) :
            t[i].byte \in TimeUnits => \E j \in p+1..Len(t) : t[j].byte = "T"
      BY <2>1 DEF Remembered
    <3> QED  BY <2>1, <3>2, <3>3, <3>4, DurationFromP DEF Piece
  <2>4. ASSUME IsDuration(t)
        PROVE  s.last \notin {"P", "T"}
    <3>1. PICK q \in 1..2 :
             /\ q+1..Len(t) # {} /\ t[q] = Byte("P") /\ (q = 2 => t[1] = Byte("-"))
             /\ \A i \in q+1..Len(t) :
                  /\ t[i].byte \in DOMAIN Rank
                  /\ t[i].byte = "T" => i < Len(t)
      BY <2>4, DurationFromP
    <3>2. q = p
      BY <2>1, <3>1, OneSign
    <3>3. Len(t) # p /\ Len(t) \in q+1..Len(t)
      BY <2>1, <2>2, <3>1, <3>2
    <3>4. s.last = t[Len(t)].byte
      BY <2>1, <3>3 DEF Remembered
    <3>5. t[Len(t)].byte \in DOMAIN Rank /\ t[Len(t)].byte # "T"
      BY <2>2, <3>1, <3>3
    <3> QED  BY <3>4, <3>5, Ranks
  <2> QED  BY <1>1, <1>3, <2>3, <2>4
<1> QED  BY <1>2, <1>3 DEF Reached, ReaderStates

(* What the reader remembers of the last token. *)
LEMMA LastDesignator ==
  ASSUME NEW t \in Seq(Tokens), NEW s, Reached(t, s), s.at \in {"date", "time"}
  PROVE  /\ PlaceOfP(s) \in 1..2 /\ PlaceOfP(s) <= Len(t) /\ Len(t) \in Nat
         /\ s.last = "P" <=> Len(t) = PlaceOfP(s)
         /\ s.last # "P" => s.last = t[Len(t)].byte
         /\ s.at = "date" => s.last \in {"P", "W", "D"}
         /\ s.at = "time" => s.last \in {"T", "H", "M", "S"}
<1> DEFINE p == PlaceOfP(s)
<1>1. p \in 1..2 /\ Piece(t, p) /\ Remembered(t, s, p)
  BY DEF Reached, PlaceOfP
<1> HIDE DEF p
<1>2. p <= Len(t) /\ Len(t) \in Nat
  BY <1>1 DEF Piece
<1>3. CASE Len(t) = p
  <2>1. p+1..Len(t) = {}
    BY <1>2, <1>3
  <2>2. s.at # "time" /\ s.last = "P"
    BY <1>1, <1>3, <2>1 DEF Remembered
  <2> QED  BY <1>1, <1>2, <1>3, <2>2 DEF p
<1>4. CASE Len(t) # p
  <2> DEFINE l == Len(t)
  <2>1. l \in p+1..Len(t)
    BY <1>1, <1>2, <1>4
  <2>2. s.last = t[l].byte /\ t[l].byte \in {"W", "D", "T", "H", "M", "S"}
    BY <1>1, <1>4, <2>1, Ranks DEF Remembered, Piece
  <2>3. ASSUME s.at = "date"
        PROVE  s.last \in {"W", "D"}
    BY <1>1, <2>1, <2>2, <2>3 DEF Remembered, TimeUnits
  <2>4. ASSUME s.at = "time"
        PROVE  s.last \in {"T", "H", "M", "S"}
    <3>1. PICK i \in p+1..Len(t) : t[i].byte = "T"
      BY <1>1, <2>4 DEF Remembered
    <3>2. i < l => Rank[t[i].byte] > Rank[t[l].byte]
      BY <1>1, <2>1 DEF Piece
    <3>3. i = l \/ i < l
      BY <1>1, <1>2
    <3> HIDE DEF l
    <3> QED  BY <2>2, <3>1, <3>2, <3>3, Ranks
  <2> HIDE DEF l
  <2> QED  BY <1>1, <1>2, <1>4, <2>2, <2>3, <2>4 DEF p, l
<1> QED  BY <1>3, <1>4

(* A piece takes one more token when it is finer than the last one. *)
LEMMA PieceGrows ==
  ASSUME NEW t \in Seq(Tokens), NEW p \in 1..2, Piece(t, p),
         NEW token \in Tokens,
         token.byte \in DOMAIN Rank,
         IF token.byte = "T" THEN token.number = NoNumber ELSE IsNumber(token.number),
         token.byte = "W" => Len(t) = p,
         Len(t) # p => /\ t[Len(t)].byte # "W"
                       /\ Rank[t[Len(t)].byte] > Rank[token.byte]
                       /\ t[Len(t)].number.fracDigits = 0
  PROVE  Piece(Append(t, token), p)
<1> DEFINE u == Append(t, token)
           l == Len(t)
<1>1. /\ u \in Seq(Tokens) /\ Len(u) = l + 1 /\ l \in Nat
      /\ u[l + 1] = token /\ \A i \in 1..l : u[i] = t[i]
  BY Appended
<1> HIDE DEF u
<1>2. p <= l /\ t[p] = Byte("P") /\ (p = 2 => t[1] = Byte("-"))
  BY DEF Piece
<1> HIDE DEF l
<1>3. p <= Len(u) /\ u[p] = Byte("P") /\ (p = 2 => u[1] = Byte("-"))
  BY <1>1, <1>2
<1>4. \A i \in p+1..l : u[i] = t[i] /\ t[i].byte # "W"
  <2> TAKE i \in p+1..l
  <2>1. i \in 1..l /\ l # p
    BY <1>1, <1>2
  <2>2. ASSUME t[i].byte = "W"
        PROVE  FALSE
    <3>1. l = p + 1
      BY <2>2 DEF Piece, l
    <3>2. i = l
      BY <1>1, <3>1
    <3> QED  BY <2>1, <2>2, <3>2 DEF l
  <2> QED  BY <1>1, <2>1, <2>2
<1>5. \A i \in p+1..l : /\ Rank[t[i].byte] > Rank[token.byte]
                        /\ t[i].number.fracDigits = 0
  <2> TAKE i \in p+1..l
  <2>1. l \in p+1..l /\ l # p
    BY <1>1, <1>2
  <2>2. i = l \/ i < l
    BY <1>1
  <2>3. CASE i = l
    BY <2>1, <2>3 DEF l
  <2>4. CASE i < l
    <3>1. Rank[t[i].byte] > Rank[t[l].byte] /\ t[i].number.fracDigits = 0
      BY <2>1, <2>4 DEF Piece, l
    <3>2. Rank[t[l].byte] > Rank[token.byte]
      BY <2>1 DEF l
    <3>3. t[i].byte \in DOMAIN Rank /\ t[l].byte \in DOMAIN Rank
      BY <2>1 DEF Piece, l
    <3>4. \A b \in DOMAIN Rank : Rank[b] \in Int
      BY Ranks
    <3>5. Rank[t[i].byte] \in Int /\ Rank[t[l].byte] \in Int /\ Rank[token.byte] \in Int
      BY <3>3, <3>4
    <3> QED  BY <3>1, <3>2, <3>5
  <2> QED  BY <2>2, <2>3, <2>4
<1>6. \A i \in p+1..Len(u) : i \in p+1..l \/ i = l + 1
  BY <1>1
<1>7. \A i \in p+1..Len(u) :
        /\ u[i].byte \in DOMAIN Rank
        /\ IF u[i].byte = "T" THEN u[i].number = NoNumber ELSE IsNumber(u[i].number)
        /\ u[i].byte = "W" => Len(u) = p + 1
  <2> TAKE i \in p+1..Len(u)
  <2>1. CASE i \in p+1..l
    BY <1>4, <2>1 DEF Piece, l
  <2>2. CASE i = l + 1
    BY <1>1, <2>2 DEF l
  <2> QED  BY <1>6, <2>1, <2>2
<1>8. \A i, j \in p+1..Len(u) :
        i < j => Rank[u[i].byte] > Rank[u[j].byte] /\ u[i].number.fracDigits = 0
  <2> SUFFICES ASSUME NEW i \in p+1..Len(u), NEW j \in p+1..Len(u), i < j
               PROVE  Rank[u[i].byte] > Rank[u[j].byte] /\ u[i].number.fracDigits = 0
    OBVIOUS
  <2>1. i \in p+1..l
    BY <1>1
  <2>2. CASE j = l + 1
    BY <1>1, <1>4, <1>5, <2>1, <2>2
  <2>3. CASE j \in p+1..l
    BY <1>4, <2>1, <2>3 DEF Piece, l
  <2> QED  BY <1>6, <2>2, <2>3
<1> QED  BY <1>3, <1>7, <1>8 DEF Piece, u

(* Room for one more component. *)
LEMMA RoomForUnit ==
  ASSUME NEW last, NEW unit,
         \/ last = "P" /\ unit \in {"W", "D"}
         \/ last \in {"T", "H", "M", "S"} /\ unit \in {"H", "M", "S"} /\ Rank[last] > Rank[unit]
  PROVE  /\ last \in DOMAIN Room /\ unit \in DOMAIN Room
         /\ Room[last] \in Nat /\ Room[unit] \in Nat /\ UnitOf[unit] \in Nat \ {0}
         /\ Room[last] + UnitOf[unit] <= Room[unit]
         /\ Room[unit] <= NsPerWeek + NsPerDay + NsPerHour + NsPerMin + NsPerSec
<1> DEFINE w == NsPerWeek
           d == NsPerDay
           h == NsPerHour
           m == NsPerMin
           s == NsPerSec
<1>1. w \in Nat \ {0} /\ d \in Nat \ {0} /\ h \in Nat \ {0} /\ m \in Nat \ {0} /\ s \in Nat \ {0}
  BY UnitSizesInNat
<1>2. /\ DOMAIN Room = {"P", "W", "D", "T", "H", "M", "S"}
      /\ Room["P"] = 0 /\ Room["W"] = w /\ Room["D"] = w + d /\ Room["T"] = w + d
      /\ Room["H"] = w + d + h /\ Room["M"] = w + d + h + m
      /\ Room["S"] = w + d + h + m + s
  BY DEF Room
<1>3. /\ UnitOf["W"] = w /\ UnitOf["D"] = d /\ UnitOf["H"] = h
      /\ UnitOf["M"] = m /\ UnitOf["S"] = s
  BY UnitsOfDesignators
<1> HIDE DEF w, d, h, m, s
<1>4. /\ last \in DOMAIN Room /\ unit \in DOMAIN Room
      /\ Room[last] \in Nat /\ Room[unit] \in Nat /\ UnitOf[unit] \in Nat \ {0}
      /\ Room[last] + UnitOf[unit] <= Room[unit] /\ Room[unit] <= w + d + h + m + s
  <2>1. CASE last = "P"
    BY <1>1, <1>2, <1>3, <2>1
  <2>2. CASE last \in {"T", "H", "M", "S"} /\ unit \in {"H", "M", "S"} /\ Rank[last] > Rank[unit]
    <3>1. \/ last = "T" /\ unit \in {"H", "M", "S"}
          \/ last = "H" /\ unit \in {"M", "S"}
          \/ last = "M" /\ unit = "S"
      BY <2>2, Ranks
    <3>2. CASE last = "T"
      BY <1>1, <1>2, <1>3, <3>1, <3>2
    <3>3. CASE last = "H"
      BY <1>1, <1>2, <1>3, <3>1, <3>3
    <3>4. CASE last = "M"
      BY <1>1, <1>2, <1>3, <3>1, <3>4
    <3> QED  BY <3>1, <3>2, <3>3, <3>4
  <2> QED  BY <2>1, <2>2
<1> QED  BY <1>4 DEF w, d, h, m, s

(* What may follow what the reader remembers: coarser before finer. *)
LEMMA FollowersAreFiner ==
  ASSUME NEW t \in Seq(Tokens), NEW s, Reached(t, s), s.at \in {"date", "time"}, NEW unit
  PROVE  MayFollow(unit, s) <=>
           \/ s.at = "date" /\ s.last = "P" /\ unit \in {"W", "D"}
           \/ /\ s.at = "time" /\ s.last \in {"T", "H", "M", "S"} /\ unit \in {"H", "M", "S"}
              /\ Rank[s.last] > Rank[unit]
<1>1. s.at = "time" => s.last \in {"T", "H", "M", "S"}
  BY LastDesignator
<1>2. ASSUME unit \in {"H", "M", "S"}, s.last \in {"T", "H", "M", "S"}
      PROVE  (s.last \in TimeUnits => Place(s.last) < Place(unit)) <=> Rank[s.last] > Rank[unit]
  <2>1. CASE s.last = "T"
    BY <1>2, <2>1, Ranks DEF TimeUnits
  <2>2. CASE s.last \in {"H", "M", "S"}
    BY <1>2, <2>2, Ranks, Places DEF TimeUnits
  <2> QED  BY <1>2, <2>1, <2>2
<1> QED  BY <1>1, <1>2 DEF MayFollow, DateUnits, TimeUnits

(* The number of a component is added, and never too big. *)
LEMMA ComponentIsRead ==
  ASSUME NEW t \in Seq(Tokens), NEW s, Reached(t, s), s.at \in {"date", "time"},
         NEW token \in Tokens, IsNumber(token.number), MayFollow(token.byte, s)
  PROVE  LET sums == AddComponent(s.total, token.number, UnitOf[token.byte])
         IN  /\ sums # {}
             /\ \A v \in sums : v \in Nat /\ v <= (MaxInt + 1) * Room[token.byte]
<1> DEFINE unit == UnitOf[token.byte]
           room == Room[s.last]
           full == Room[token.byte]
           all  == NsPerWeek + NsPerDay + NsPerHour + NsPerMin + NsPerSec
<1>1. token.number \in Numbers
  BY TokenFields
<1>2. MaxInt \in Nat
  BY <1>1, NumbersAreBounded
<1>3. s.total \in Nat /\ s.total <= (MaxInt + 1) * room
  BY DEF Reached, ReaderStates
<1>4. /\ room \in Nat /\ full \in Nat /\ unit \in Nat \ {0}
      /\ room + unit <= full /\ full <= all
  BY FollowersAreFiner, RoomForUnit
<1>5. (MaxInt + 1) * all <= InstMax /\ all \in Nat /\ InstMax \in Nat
  BY RoomAssumption, UnitSizesInNat, WidthAssumption
<1> HIDE DEF unit, room, full, all
<1>6. /\ (MaxInt + 1) * (room + unit) <= (MaxInt + 1) * full
      /\ (MaxInt + 1) * full <= (MaxInt + 1) * all
      /\ (MaxInt + 1) * (room + unit) \in Nat /\ (MaxInt + 1) * full \in Nat
      /\ (MaxInt + 1) * all \in Nat
  <2>1. room + unit \in Nat /\ MaxInt + 1 \in Nat
    BY <1>2, <1>4
  <2> QED  BY <1>4, <1>5, <2>1, ProductsInOrder
<1>7. (MaxInt + 1) * (room + unit) <= InstMax
  BY <1>5, <1>6
<1>8. /\ AddComponent(s.total, token.number, unit) # {}
      /\ \A v \in AddComponent(s.total, token.number, unit) :
           v \in Nat /\ v <= (MaxInt + 1) * (room + unit)
  BY <1>1, <1>3, <1>4, <1>7, ComponentIsAdded
<1>9. \A v \in AddComponent(s.total, token.number, unit) :
        v \in Nat /\ v <= (MaxInt + 1) * full
  BY <1>6, <1>8
<1> QED  BY <1>8, <1>9 DEF unit, full

LEMMA MaxIntIsNat == MaxInt \in Nat
<1> DEFINE top == 10^MaxIntDigits
<1>1. MaxIntDigits \in 0..MaxIntDigits
  BY DigitAssumption DEF Widths
<1>2. top \in 1..top
  BY <1>1, PowerAssumption
<1>3. MaxInt = top - 1
  BY DEF MaxInt
<1> HIDE DEF top
<1> QED  BY <1>2, <1>3

LEMMA StartIsKnown ==
  /\ Start \in ReaderStates /\ [Start EXCEPT !.at = "P", !.negative = TRUE] \in ReaderStates
  /\ Start.at = "sign" /\ Start.negative = FALSE /\ Start.total = 0
  /\ Start.last = "P" /\ Start.closed = FALSE
  /\ Room["P"] = 0
BY DEF Start, ReaderStates, Room

LEMMA NothingRead ==
  /\ Reached(<<>>, Start)
  /\ Reached(<<Byte("-")>>, [Start EXCEPT !.at = "P", !.negative = TRUE])
<1> DEFINE minus == [Start EXCEPT !.at = "P", !.negative = TRUE]
<1>1. /\ minus \in ReaderStates /\ minus.at = "P" /\ minus.total = 0 /\ minus.last = "P"
  BY StartIsKnown DEF Start
<1>2. 0 <= (MaxInt + 1) * 0
  BY MaxIntIsNat
<1> HIDE DEF minus
<1>3. Reached(<<>>, Start)
  BY <1>2, StartIsKnown DEF Reached
<1>4. Reached(<<Byte("-")>>, minus)
  BY <1>1, <1>2, StartIsKnown DEF Reached, minus
<1> QED  BY <1>3, <1>4 DEF minus

(* The reader takes the P. *)
LEMMA PIsTaken ==
  ASSUME NEW t \in Seq(Tokens), NEW s, Reached(t, s), s.at \in {"sign", "P"},
         NEW token \in Tokens, token = Byte("P")
  PROVE  Reached(Append(t, token), [s EXCEPT !.at = "date"])
<1> DEFINE u == Append(t, token)
           r == [s EXCEPT !.at = "date"]
           p == PlaceOfP(r)
<1>1. /\ u \in Seq(Tokens) /\ Len(u) = Len(t) + 1 /\ Len(t) \in Nat
      /\ u[Len(u)] = token /\ \A i \in 1..Len(t) : u[i] = t[i]
  BY Appended
<1>2. /\ r \in ReaderStates /\ r.at = "date" /\ r.negative = s.negative
      /\ r.total = s.total /\ r.last = s.last /\ r.closed = s.closed
  BY DEF Reached, ReaderStates
<1>3. /\ s.total = 0 /\ s.last = "P" /\ s.closed = FALSE
      /\ \/ Len(t) = 0 /\ s.negative = FALSE
         \/ Len(t) = 1 /\ t[1] = Byte("-") /\ s.negative = TRUE
  <2>1. CASE s = Start /\ Len(t) = 0
    BY <2>1, StartIsKnown
  <2>2. CASE s = [Start EXCEPT !.at = "P", !.negative = TRUE] /\ Len(t) = 1 /\ t[1] = Byte("-")
    BY <2>2 DEF Start
  <2> QED  BY <2>1, <2>2, BeforeP
<1> HIDE DEF u, r
<1>4. p = Len(u) /\ p \in 1..2 /\ (p = 2 => u[1] = Byte("-"))
  BY <1>1, <1>2, <1>3 DEF PlaceOfP
<1> HIDE DEF p
<1>5. p+1..Len(u) = {}
  BY <1>4
<1>6. Piece(u, p)
  BY <1>1, <1>4, <1>5 DEF Piece
<1>7. Remembered(u, r, p)
  BY <1>2, <1>3, <1>4, <1>5 DEF Remembered
<1>8. r.total <= (MaxInt + 1) * Room[r.last]
  BY <1>2, <1>3, MaxIntIsNat, StartIsKnown
<1> QED  BY <1>2, <1>6, <1>7, <1>8 DEF Reached, p, u, r

(* The reader takes the T. *)
LEMMA TIsTaken ==
  ASSUME NEW t \in Seq(Tokens), NEW s, Reached(t, s),
         NEW token \in Tokens, token = Byte("T"),
         s.at = "date", s.last # "W", ~s.closed
  PROVE  Reached(Append(t, token), [s EXCEPT !.at = "time", !.last = "T"])
<1> DEFINE u == Append(t, token)
           r == [s EXCEPT !.at = "time", !.last = "T"]
           p == PlaceOfP(s)
<1>1. /\ u \in Seq(Tokens) /\ Len(u) = Len(t) + 1 /\ Len(t) \in Nat
      /\ u[Len(u)] = token /\ \A i \in 1..Len(t) : u[i] = t[i]
  BY Appended
<1>2. /\ r \in ReaderStates /\ r.at = "time" /\ r.negative = s.negative
      /\ r.total = s.total /\ r.last = "T" /\ r.closed = FALSE
  BY DEF Reached, ReaderStates, Room
<1>3. /\ p \in 1..2 /\ p <= Len(t) /\ Piece(t, p) /\ Remembered(t, s, p)
      /\ PlaceOfP(r) = p
  BY <1>2, LastDesignator DEF Reached, PlaceOfP
<1>4. /\ s.last \in {"P", "D"} /\ (Len(t) # p => s.last = t[Len(t)].byte /\ s.last = "D")
  BY LastDesignator
<1>5. token.byte = "T" /\ token.number = NoNumber /\ NoNumber.fracDigits = 0
  BY TokenFields
<1> HIDE DEF u, r, p
<1>6. Len(t) # p => t[Len(t)].number.fracDigits = 0
  <2> SUFFICES ASSUME Len(t) # p PROVE t[Len(t)].number.fracDigits = 0
    OBVIOUS
  <2>1. t[Len(t)] \in Tokens
    BY <1>1, <1>3
  <2> QED  BY <1>3, <2>1, TokenFields DEF Remembered
<1>7. Piece(u, p)
  <2>1. Rank["D"] > Rank["T"] /\ "T" \in DOMAIN Rank
    BY Ranks
  <2> QED  BY <1>3, <1>4, <1>5, <1>6, <2>1, PieceGrows DEF u
<1>8. Remembered(u, r, p)
  <2>1. Len(u) \in p+1..Len(u) /\ Len(u) # p
    BY <1>1, <1>3
  <2> QED  BY <1>1, <1>2, <1>5, <2>1 DEF Remembered
<1>9. r.total <= (MaxInt + 1) * Room[r.last]
  <2> DEFINE old == Room[s.last]
             new == Room["T"]
  <2>1. old \in Nat /\ new \in Nat /\ old <= new
    BY <1>4, UnitSizesInNat DEF Room
  <2>2. s.total \in Nat /\ s.total <= (MaxInt + 1) * old
    BY DEF Reached, ReaderStates
  <2> HIDE DEF old, new
  <2>3. MaxInt + 1 \in Nat
    BY MaxIntIsNat
  <2>4. (MaxInt + 1) * old <= (MaxInt + 1) * new /\ (MaxInt + 1) * old \in Nat
        /\ (MaxInt + 1) * new \in Nat
    BY <2>1, <2>3, ProductsInOrder
  <2>5. s.total <= (MaxInt + 1) * new
    BY <2>2, <2>4
  <2> QED  BY <1>2, <2>5 DEF new
<1> QED  BY <1>2, <1>3, <1>7, <1>8, <1>9 DEF Reached, u, r

(* The reader takes a component. *)
LEMMA ComponentIsTaken ==
  ASSUME NEW t \in Seq(Tokens), NEW s, Reached(t, s), s.at \in {"date", "time"},
         NEW token \in Tokens, ~s.closed, IsNumber(token.number), MayFollow(token.byte, s),
         NEW v \in AddComponent(s.total, token.number, UnitOf[token.byte])
  PROVE  Reached(Append(t, token),
                 [s EXCEPT !.total  = v,
                           !.last   = token.byte,
                           !.closed = token.number.fracDigits > 0])
<1> DEFINE u == Append(t, token)
           r == [s EXCEPT !.total  = v,
                          !.last   = token.byte,
                          !.closed = token.number.fracDigits > 0]
           p == PlaceOfP(s)
           l == Len(t)
<1>1. /\ u \in Seq(Tokens) /\ Len(u) = l + 1 /\ l \in Nat
      /\ u[l + 1] = token /\ \A i \in 1..l : u[i] = t[i]
  BY Appended
<1>2. \/ s.at = "date" /\ s.last = "P" /\ token.byte \in {"W", "D"}
      \/ /\ s.at = "time" /\ s.last \in {"T", "H", "M", "S"} /\ token.byte \in {"H", "M", "S"}
         /\ Rank[s.last] > Rank[token.byte]
  BY FollowersAreFiner
<1>3. v \in Nat /\ v <= (MaxInt + 1) * Room[token.byte]
  BY ComponentIsRead
<1>4. /\ r \in ReaderStates /\ r.at = s.at /\ r.negative = s.negative
      /\ r.total = v /\ r.last = token.byte /\ (r.closed <=> token.number.fracDigits > 0)
  <2>1. token.byte \in DOMAIN Room /\ s \in ReaderStates
    BY <1>2, RoomForUnit DEF Reached
  <2> DEFINE closing == token.number.fracDigits > 0
  <2>2. r = [s EXCEPT !.total = v, !.last = token.byte, !.closed = closing]
    OBVIOUS
  <2>3. closing \in BOOLEAN
    OBVIOUS
  <2> HIDE DEF closing
  <2> SUFFICES /\ r \in ReaderStates /\ r.at = s.at /\ r.negative = s.negative
               /\ r.total = v /\ r.last = token.byte /\ r.closed = closing
    BY DEF closing
  <2> HIDE DEF r
  <2> QED  BY <1>3, <2>1, <2>2, <2>3 DEF ReaderStates
<1>5. /\ p \in 1..2 /\ p <= l /\ Piece(t, p) /\ Remembered(t, s, p)
      /\ PlaceOfP(r) = p
  BY <1>4, LastDesignator DEF Reached, PlaceOfP
<1>6. /\ s.last = "P" <=> l = p
      /\ s.last # "P" => s.last = t[l].byte
  BY LastDesignator
<1> HIDE DEF u, r, p
<1>7. l # p => t[l].number.fracDigits = 0
  <2> SUFFICES ASSUME l # p PROVE t[l].number.fracDigits = 0
    OBVIOUS
  <2>1. t[l] \in Tokens
    BY <1>1, <1>5
  <2> QED  BY <1>5, <2>1, TokenFields DEF Remembered
<1>8. Piece(u, p)
  <2>1. token.byte \in DOMAIN Rank /\ token.byte # "T"
    BY <1>2, Ranks
  <2>2. token.byte = "W" => Len(t) = p
    BY <1>2, <1>6
  <2>3. Len(t) # p => /\ t[Len(t)].byte # "W"
                      /\ Rank[t[Len(t)].byte] > Rank[token.byte]
                      /\ t[Len(t)].number.fracDigits = 0
    BY <1>2, <1>6, <1>7
  <2> QED  BY <1>5, <2>1, <2>2, <2>3, PieceGrows DEF u
<1>9. Remembered(u, r, p)
  <2>1. p+1..Len(u) = (p+1..l) \cup {l + 1} /\ Len(u) # p /\ Len(u) = l + 1
    BY <1>1, <1>5
  <2>2. \A i \in p+1..l : u[i] = t[i]
    BY <1>1, <1>5
  <2>3. token.byte # "T" /\ (token.byte \in TimeUnits => s.at = "time")
    BY <1>2 DEF TimeUnits
  <2>4. r.at = "time" <=> \E i \in p+1..Len(u) : u[i].byte = "T"
    BY <1>1, <1>4, <1>5, <2>1, <2>2, <2>3 DEF Remembered
  <2>5. \A i \in p+1..Len(u) : u[i].byte \in TimeUnits => r.at = "time"
    BY <1>1, <1>4, <1>5, <2>1, <2>2, <2>3 DEF Remembered
  <2> QED  BY <1>1, <1>4, <2>1, <2>4, <2>5 DEF Remembered
<1>10. r.at \in {"date", "time"} /\ r.total <= (MaxInt + 1) * Room[r.last]
  BY <1>3, <1>4
<1> QED  BY <1>4, <1>5, <1>8, <1>9, <1>10 DEF Reached, u, r

LEMMA TokenIsTaken ==
  ASSUME NEW t \in Seq(Tokens), NEW s, Reached(t, s), NEW token \in Tokens,
         NEW r \in ReadToken(s, token)
  PROVE  Reached(Append(t, token), r)
<1>1. s.at \in {"sign", "P", "date", "time"}
  BY DEF Reached, ReaderStates
<1>2. CASE r \in ReadMinus(s, token)
  <2>1. /\ token = Byte("-") /\ s.at = "sign" /\ r = [s EXCEPT !.at = "P", !.negative = TRUE]
    BY <1>2 DEF ReadMinus, Ok, Err
  <2>2. t = <<>> /\ s = Start
    BY <2>1, BeforeP
  <2>3. Append(t, token) = <<Byte("-")>>
    BY <2>1, <2>2
  <2>4. r = [Start EXCEPT !.at = "P", !.negative = TRUE]
    BY <2>1, <2>2
  <2> QED  BY <2>3, <2>4, NothingRead
<1>3. CASE r \in ReadP(s, token)
  <2>1. token = Byte("P") /\ s.at \in {"sign", "P"} /\ r = [s EXCEPT !.at = "date"]
    BY <1>3 DEF ReadP, Ok, Err
  <2> QED  BY <2>1, PIsTaken
<1>4. CASE r \in ReadT(s, token)
  <2>1. /\ token = Byte("T") /\ s.at = "date" /\ s.last # "W" /\ ~s.closed
        /\ r = [s EXCEPT !.at = "time", !.last = "T"]
    BY <1>4 DEF ReadT, Ok, Err
  <2> QED  BY <2>1, TIsTaken
<1>5. CASE r \in ReadComponent(s, token)
  <2>1. ~s.closed /\ IsNumber(token.number) /\ MayFollow(token.byte, s)
    BY <1>5 DEF ReadComponent, Err
  <2>2. PICK v \in AddComponent(s.total, token.number, UnitOf[token.byte]) :
          r = [s EXCEPT !.total  = v,
                        !.last   = token.byte,
                        !.closed = token.number.fracDigits > 0]
    BY <1>5, <2>1 DEF ReadComponent
  <2>3. s.at \in {"date", "time"}
    BY <2>1 DEF MayFollow
  <2> QED  BY <2>1, <2>2, <2>3, ComponentIsTaken
<1> QED  BY <1>2, <1>3, <1>4, <1>5 DEF ReadToken

(* What the reader refuses is not the beginning of a duration: no text      *)
(* that goes on behind the refused token is one. *)
LEMMA RefusedIsNoDuration ==
  ASSUME NEW t \in Seq(Tokens), NEW s, Reached(t, s), NEW token \in Tokens,
         ReadToken(s, token) = Err,
         NEW u \in Seq(Tokens), Len(u) > Len(t), u[Len(t) + 1] = token,
         \A i \in 1..Len(t) : u[i] = t[i]
  PROVE  ~IsDuration(u)
<1> DEFINE l == Len(t)
<1>1. /\ u \in Seq(Tokens) /\ Len(u) \in Nat /\ Len(u) > l /\ l \in Nat
      /\ u[l + 1] = token /\ \A i \in 1..l : u[i] = t[i]
  OBVIOUS
<1> SUFFICES ASSUME IsDuration(u) PROVE FALSE
  OBVIOUS
<1>2. PICK q \in 1..2 :
        /\ q+1..Len(u) # {} /\ u[q] = Byte("P") /\ (q = 2 => u[1] = Byte("-"))
        /\ \A i \in q+1..Len(u) :
             /\ u[i].byte \in DOMAIN Rank
             /\ IF u[i].byte = "T" THEN i < Len(u) /\ u[i].number = NoNumber
                ELSE IsNumber(u[i].number)
             /\ u[i].byte = "W" => Len(u) = q + 1
             /\ u[i].byte \in TimeUnits => \E j \in q+1..Len(u) : u[j].byte = "T"
        /\ \A i, j \in q+1..Len(u) :
             i < j => Rank[u[i].byte] > Rank[u[j].byte] /\ u[i].number.fracDigits = 0
  BY DurationFromP
<1>3. CASE s.at \in {"sign", "P"}
  <2>1. \/ s.at = "sign" /\ l = 0
        \/ s.at = "P" /\ l = 1 /\ t[1] = Byte("-")
    BY <1>3, BeforeP, Zenon
  <2>2. token # Byte("P") /\ (s.at = "sign" => token # Byte("-"))
    BY <1>3 DEF ReadToken, ReadMinus, ReadP, Ok, Err
  <2>3. Byte("-") # Byte("P")
    BY TokenFields
  <2>4. CASE l = 0
    BY <1>1, <1>2, <2>1, <2>2, <2>4
  <2>5. CASE l = 1
    BY <1>1, <1>2, <2>1, <2>2, <2>3, <2>5
  <2> QED  BY <2>1, <2>4, <2>5
<1>4. CASE s.at \in {"date", "time"}
  <2> DEFINE p == PlaceOfP(s)
  <2>1. p \in 1..2 /\ p <= l /\ Piece(t, p) /\ Remembered(t, s, p)
    BY <1>4, LastDesignator DEF Reached
  <2>2. /\ s.last = "P" <=> l = p
        /\ s.last # "P" => s.last = t[l].byte
        /\ s.at = "date" => s.last \in {"P", "W", "D"}
        /\ s.at = "time" => s.last \in {"T", "H", "M", "S"}
    BY <1>4, LastDesignator
  <2> HIDE DEF p
  <2>3. q = p
    BY <1>1, <1>2, <2>1, OneSign
  <2>4. l + 1 \in p+1..Len(u) /\ (l # p => l \in p+1..Len(u) /\ u[l] = t[l])
    BY <1>1, <2>1
  <2>5. l # p => Rank[s.last] > Rank[token.byte] /\ t[l].number.fracDigits = 0
    BY <1>1, <1>2, <2>2, <2>3, <2>4
  <2>6. ~s.closed
    BY <2>1, <2>5 DEF Remembered
  <2>7. token.byte \in DOMAIN Rank /\ token.byte # "T" /\ IsNumber(token.number)
    <3>1. token.byte \in DOMAIN Rank
      BY <1>1, <1>2, <2>3, <2>4
    <3>2. token.byte # "T"
      <4> SUFFICES ASSUME token.byte = "T" PROVE FALSE
        OBVIOUS
      <4>1. token = Byte("T")
        BY <1>1, <1>2, <2>3, <2>4, TokenFields DEF Byte
      <4>2. s.at = "date"
        BY <1>4, <2>2, <2>5, Ranks
      <4>3. s.last # "W"
        <5> SUFFICES ASSUME s.last = "W" PROVE FALSE
          OBVIOUS
        <5>1. l # p /\ t[l].byte = "W"
          BY <2>2
        <5>2. Len(u) = p + 1
          BY <1>2, <2>3, <2>4, <5>1
        <5> QED  BY <1>1, <2>1, <5>1, <5>2
      <4>4. ReadT(s, token) # {}
        BY <2>6, <4>1, <4>2, <4>3 DEF ReadT, Ok
      <4> QED  BY <4>4 DEF ReadToken, Err
    <3> QED  BY <1>1, <1>2, <2>3, <2>4, <3>1, <3>2
  <2>8. \A j \in p+1..Len(u) : u[j].byte = "T" /\ j > l => token.byte \notin TimeUnits
    <3> SUFFICES ASSUME NEW j \in p+1..Len(u), u[j].byte = "T", j > l
                 PROVE  token.byte \notin TimeUnits
      OBVIOUS
    <3>1. j # l + 1
      BY <1>1, <2>7
    <3>2. l + 1 < j
      BY <1>1, <2>1, <3>1
    <3>3. Rank[token.byte] > Rank["T"]
      BY <1>1, <1>2, <2>3, <2>4, <3>2
    <3> QED  BY <3>3, Ranks DEF TimeUnits
  <2>9. MayFollow(token.byte, s)
    <3>1. CASE s.at = "date"
      <4>1. s.last = "P"
        <5> SUFFICES ASSUME s.last # "P" PROVE FALSE
          OBVIOUS
        <5>1. l # p /\ s.last \in {"W", "D"} /\ s.last = t[l].byte
          BY <2>2, <3>1
        <5>2. CASE s.last = "W"
          <6>1. Len(u) = p + 1
            BY <1>2, <2>3, <2>4, <5>1, <5>2
          <6> QED  BY <1>1, <2>1, <5>1, <6>1
        <5>3. CASE s.last = "D"
          <6>1. token.byte \in {"H", "M", "S"}
            BY <2>7, <2>5, <5>1, <5>3, Ranks
          <6>2. PICK j \in p+1..Len(u) : u[j].byte = "T"
            BY <1>1, <1>2, <2>3, <2>4, <6>1 DEF TimeUnits
          <6>3. j \in p+1..l
            BY <1>1, <2>1, <2>8, <6>1, <6>2 DEF TimeUnits
          <6>4. t[j].byte = "T"
            BY <1>1, <2>1, <6>2, <6>3
          <6> QED  BY <2>1, <3>1, <6>3, <6>4 DEF Remembered
        <5> QED  BY <5>1, <5>2, <5>3
      <4>2. l = p
        BY <2>2, <4>1
      <4>3. token.byte \notin TimeUnits
        <5> SUFFICES ASSUME token.byte \in TimeUnits PROVE FALSE
          OBVIOUS
        <5>1. PICK j \in p+1..Len(u) : u[j].byte = "T"
          BY <1>1, <1>2, <2>3, <2>4
        <5>2. j > l
          BY <1>1, <2>1, <4>2, <5>1
        <5> QED  BY <2>8, <5>1, <5>2
      <4>4. token.byte \in {"W", "D"}
        BY <2>7, <4>3, Ranks DEF TimeUnits
      <4> QED  BY <1>4, <3>1, <4>1, <4>4, FollowersAreFiner
    <3>2. CASE s.at = "time"
      <4>1. s.last \in {"T", "H", "M", "S"} /\ l # p
        BY <2>2, <3>2
      <4>2. Rank[s.last] > Rank[token.byte]
        BY <2>5, <4>1
      <4>3. token.byte \in {"H", "M", "S"}
        BY <2>7, <4>1, <4>2, Ranks
      <4> QED  BY <1>4, <3>2, <4>1, <4>2, <4>3, FollowersAreFiner
    <3> QED  BY <1>4, <3>1, <3>2
  <2>10. AddComponent(s.total, token.number, UnitOf[token.byte]) # {}
    BY <1>4, <2>7, <2>9, ComponentIsRead
  <2>11. ReadComponent(s, token) # {}
    <3>1. PICK v \in AddComponent(s.total, token.number, UnitOf[token.byte]) : TRUE
      BY <2>10
    <3> DEFINE r == [s EXCEPT !.total = v, !.last = token.byte,
                              !.closed = token.number.fracDigits > 0]
    <3>2. ~s.closed /\ IsNumber(token.number) /\ MayFollow(token.byte, s)
      BY <2>6, <2>7, <2>9
    <3>3. r \in ReadComponent(s, token)
      BY <3>1, <3>2, Zenon DEF ReadComponent
    <3> QED  BY <3>3
  <2> QED  BY <2>11 DEF ReadToken, Err
<1> QED  BY <1>3, <1>4 DEF Reached, ReaderStates

LEMMA ReaderInvariance == ReaderSpec => []ReaderInv
<1>1. ReaderInit => ReaderInv
  BY NothingRead DEF ReaderInit, ReaderInv, Ok, Err
<1>2. ReaderInv /\ [ReaderNext]_readerVars => ReaderInv'
  <2> SUFFICES ASSUME ReaderInv, [ReaderNext]_readerVars PROVE ReaderInv'
    OBVIOUS
  <2>1. CASE ReadOn
    <3>1. PICK token \in Tokens, s \in scan :
            text' = Append(text, token) /\ scan' = ReadToken(s, token)
      BY <2>1 DEF ReadOn
    <3>2. text \in Seq(Tokens) /\ Reached(text, s)
      BY DEF ReaderInv
    <3>3. text' \in Seq(Tokens)
      BY <3>1, <3>2
    <3>4. \A r \in scan' : Reached(text', r)
      BY <3>1, <3>2, TokenIsTaken
    <3>5. scan' = Err => \A more \in Seq(Tokens) : ~IsDuration(text' \o more)
      <4> SUFFICES ASSUME scan' = Err, NEW more \in Seq(Tokens)
                   PROVE  ~IsDuration(text' \o more)
        OBVIOUS
      <4> DEFINE u == text' \o more
      <4>1. /\ u \in Seq(Tokens) /\ Len(u) > Len(text) /\ u[Len(text) + 1] = token
            /\ \A i \in 1..Len(text) : u[i] = text[i]
        BY <3>1, <3>2
      <4> HIDE DEF u
      <4>2. ~IsDuration(u)
        BY <3>1, <3>2, <4>1, RefusedIsNoDuration
      <4> QED  BY <4>2 DEF u
    <3> QED  BY <3>3, <3>4, <3>5 DEF ReaderInv
  <2>2. CASE AnotherText
    <3>1. text' = <<>> /\ scan' = {Start}
      BY <2>2 DEF AnotherText, Ok
    <3>2. text' \in Seq(Tokens) /\ scan' # {}
      BY <3>1
    <3> QED  BY <3>1, <3>2, NothingRead DEF ReaderInv, Err
  <2>3. CASE UNCHANGED readerVars
    BY <2>3 DEF ReaderInv, readerVars
  <2> QED  BY <2>1, <2>2, <2>3 DEF ReaderNext
<1> QED  BY <1>1, <1>2, PTL DEF ReaderSpec

(* parse_duration_iso accepts exactly the texts of its grammar, of every   *)
(* length: its flags and ranks amount to the order of the designators, and *)
(* it never refuses one of them for its size.                              *)
THEOREM ReaderAcceptsIso == ReaderSpec => []AcceptsExactlyIso
<1>1. ReaderInv => AcceptsExactlyIso
  <2> SUFFICES ASSUME ReaderInv PROVE AcceptsExactlyIso
    OBVIOUS
  <2>1. Result # Err <=> \E s \in scan : Finish(s) # Err
    BY DEF Result, Err
  <2>2. \A s \in scan : Finish(s) # Err <=> IsDuration(text)
    BY EndsWithDuration DEF ReaderInv
  <2>3. scan = {} => ~IsDuration(text)
    <3>1. <<>> \in Seq(Tokens) /\ (text \in Seq(Tokens) => text \o <<>> = text)
      OBVIOUS
    <3> QED  BY <3>1 DEF ReaderInv, Err
  <2> QED  BY <2>1, <2>2, <2>3 DEF AcceptsExactlyIso
<1> QED  BY <1>1, ReaderInvariance, PTL

(* parse_duration_iso may stop at the first token it refuses: no text that  *)
(* begins like this is a duration, whatever stands behind.                 *)
THEOREM RefusedForGood ==
  ReaderSpec => [](scan = Err => \A more \in Seq(Tokens) : ~IsDuration(text \o more))
<1> DEFINE Refused == scan = Err => \A more \in Seq(Tokens) : ~IsDuration(text \o more)
<1>1. ReaderInv => Refused
  BY DEF ReaderInv
<1> HIDE DEF Refused
<1>2. ReaderSpec => []Refused
  BY <1>1, ReaderInvariance, PTL
<1> QED  BY <1>2 DEF Refused

-----------------------------------------------------------------------------
(* The sum of a text, from the left: its recursive definition has a        *)
(* solution, and one more token adds its component.                        *)
SumUpto(f, t, n) ==
  f = [i \in 0..n |-> IF i = 0 THEN 0 ELSE f[i - 1] + Shifted(t[i])]

LEMMA SumExists ==
  ASSUME NEW t, NEW n \in Nat
  PROVE  \E f : SumUpto(f, t, n)
<1> DEFINE S == {k \in Nat : \E f : SumUpto(f, t, k)}
<1>1. 0 \in S
  <2>1. SumUpto([i \in 0..0 |-> 0], t, 0)
    BY DEF SumUpto
  <2> QED  BY <2>1
<1>2. ASSUME NEW k \in S
      PROVE  k + 1 \in S
  <2>1. PICK f : SumUpto(f, t, k)
    OBVIOUS
  <2> DEFINE g == [i \in 0..k+1 |-> IF i = k + 1 THEN f[k] + Shifted(t[i]) ELSE f[i]]
  <2>2. \A i \in 0..k : f[i] = IF i = 0 THEN 0 ELSE f[i - 1] + Shifted(t[i])
    BY <2>1 DEF SumUpto
  <2>3. \A i \in 0..k+1 : g[i] = IF i = 0 THEN 0 ELSE g[i - 1] + Shifted(t[i])
    <3> TAKE i \in 0..k+1
    <3>1. CASE i = 0
      BY <2>2, <3>1
    <3>2. CASE i \in 1..k
      BY <2>2, <3>2
    <3>3. CASE i = k + 1
      BY <3>3
    <3> QED  BY <3>1, <3>2, <3>3
  <2>4. SumUpto(g, t, k + 1)
    BY <2>3 DEF SumUpto
  <2> QED  BY <2>4
<1>3. S = Nat
  <2> HIDE DEF S
  <2>1. S \in SUBSET Nat
    BY DEF S
  <2> QED  BY <1>1, <1>2, <2>1, InductiveSet
<1> QED  BY <1>3

LEMMA SumIs ==
  ASSUME NEW t, Len(t) \in Nat
  PROVE  \E f : SumUpto(f, t, Len(t)) /\ Sum(t) = f[Len(t)]
<1> DEFINE sum == CHOOSE f : SumUpto(f, t, Len(t))
<1>1. SumUpto(sum, t, Len(t))
  BY SumExists
<1>2. Sum(t) = sum[Len(t)]
  BY DEF Sum, SumUpto
<1> QED  BY <1>1, <1>2

LEMMA SumGrows ==
  ASSUME NEW t, NEW u, Len(t) \in Nat, Len(u) = Len(t) + 1,
         \A i \in 1..Len(t) : u[i] = t[i]
  PROVE  Sum(u) = Sum(t) + Shifted(u[Len(u)])
<1> DEFINE l == Len(t)
<1>1. PICK f : SumUpto(f, t, l) /\ Sum(t) = f[l]
  BY SumIs
<1>2. PICK g : SumUpto(g, u, l + 1) /\ Sum(u) = g[l + 1]
  BY SumIs
<1>3. l \in Nat /\ \A i \in 1..l : u[i] = t[i]
  OBVIOUS
<1>4. Len(u) = l + 1
  OBVIOUS
<1> HIDE DEF l
<1>5. \A i \in 0..l : f[i] = IF i = 0 THEN 0 ELSE f[i - 1] + Shifted(t[i])
  BY <1>1 DEF SumUpto
<1>6. \A i \in 0..l+1 : g[i] = IF i = 0 THEN 0 ELSE g[i - 1] + Shifted(u[i])
  BY <1>2 DEF SumUpto
<1> DEFINE S == {k \in Nat : k <= l => f[k] = g[k]}
<1>7. 0 \in S
  BY <1>3, <1>5, <1>6
<1>8. ASSUME NEW k \in S
      PROVE  k + 1 \in S
  <2> SUFFICES ASSUME k + 1 <= l PROVE f[k + 1] = g[k + 1]
    OBVIOUS
  <2>1. f[k] = g[k] /\ k + 1 \in 1..l /\ k + 1 - 1 = k
    BY <1>3
  <2>2. f[k + 1] = f[k] + Shifted(t[k + 1])
    BY <1>3, <1>5, <2>1
  <2>3. g[k + 1] = g[k] + Shifted(u[k + 1])
    BY <1>3, <1>6, <2>1
  <2> QED  BY <1>3, <2>1, <2>2, <2>3
<1>9. f[l] = g[l]
  <2>1. S \in SUBSET Nat
    OBVIOUS
  <2> HIDE DEF S
  <2>2. l \in S
    BY <1>3, <1>7, <1>8, <2>1, InductiveSet
  <2> QED  BY <2>2 DEF S
<1>10. g[l + 1] = g[l] + Shifted(u[l + 1])
  BY <1>3, <1>6
<1> QED  BY <1>1, <1>2, <1>4, <1>9, <1>10

LEMMA SumOfNothing == Sum(<<>>) = 0
<1>1. Len(<<>>) = 0
  OBVIOUS
<1>2. PICK f : SumUpto(f, <<>>, 0) /\ Sum(<<>>) = f[0]
  BY <1>1, SumIs
<1> QED  BY <1>2 DEF SumUpto

(* The fraction of a unit is a whole number of nanoseconds: a unit is a    *)
(* multiple of the second, and a second has as many digits as a fraction   *)
(* may have.                                                               *)
LEMMA DesignatorsAreSeconds ==
  ASSUME NEW b \in DateUnits \cup TimeUnits
  PROVE  b \in DOMAIN UnitOf /\ \E k \in Nat : UnitOf[b] = NsPerSec * k
<1>1. \A i \in 4..8 : i \in 1..8 /\ 4 \in 1..8 /\ 4 <= i
  OBVIOUS
<1>2. \A i \in 4..8 : UnitSizes[i] % UnitSizes[4] = 0 /\ UnitSizes[i] \in Nat \ {0}
  BY <1>1, UnitsInOrder
<1>3. /\ UnitSizes[4] = NsPerSec /\ UnitSizes[5] = NsPerMin /\ UnitSizes[6] = NsPerHour
      /\ UnitSizes[7] = NsPerDay /\ UnitSizes[8] = NsPerWeek
  BY DEF UnitSizes
<1>4. b \in DOMAIN UnitOf /\ UnitOf[b] \in {NsPerWeek, NsPerDay, NsPerHour, NsPerMin, NsPerSec}
  BY DEF UnitOf, DateUnits, TimeUnits
<1>5. \A u \in {NsPerWeek, NsPerDay, NsPerHour, NsPerMin, NsPerSec} :
        u \in Nat /\ u % NsPerSec = 0
  <2>1. 4 \in 4..8 /\ 5 \in 4..8 /\ 6 \in 4..8 /\ 7 \in 4..8 /\ 8 \in 4..8
    OBVIOUS
  <2> QED  BY <1>2, <1>3, <2>1
<1>6. NsPerSec \in Nat \ {0}
  BY UnitSizesInNat
<1> QED  BY <1>4, <1>5, <1>6, MultipleHasFactor

LEMMA PowersAreKnown ==
  ASSUME NEW k \in 0..MaxFracDigits
  PROVE  /\ 10^k \in Nat \ {0} /\ 10^MaxFracDigits \in Nat \ {0}
         /\ 10^(MaxFracDigits - k) \in Nat \ {0}
         /\ 10^k * 10^(MaxFracDigits - k) = 10^MaxFracDigits
         /\ NsPerSec = 10^MaxFracDigits
<1>1. MaxFracDigits \in Nat /\ MaxFracDigits - k \in 0..MaxFracDigits
      /\ MaxFracDigits \in 0..MaxFracDigits
  BY DigitAssumption DEF Widths
<1>2. \A j \in 0..MaxFracDigits : /\ 10^j \in 1..10^MaxFracDigits
                                  /\ 10^j * 10^(MaxFracDigits - j) = 10^MaxFracDigits
  BY PowerAssumption
<1>3. \A j \in 0..MaxFracDigits : 10^j \in Nat \ {0}
  BY <1>2
<1> QED  BY <1>1, <1>2, <1>3, DigitAssumption

Cancels(f, a, b, k) ==
  /\ TruncDiv(f * ((a * b) * k), a) = f * (b * k)
  /\ (f * (b * k)) * (a * b) = ((a * b) * k) * (f * b)

LEMMA FactorsCancel ==
  ASSUME NEW f \in Nat, NEW a \in Nat \ {0}, NEW b \in Nat, NEW k \in Nat
  PROVE  Cancels(f, a, b, k)
<1> DEFINE q == f * (b * k)
           x == f * ((a * b) * k)
<1>1. q \in Nat /\ b * k \in Nat
  OBVIOUS
<1>2. x = a * q
  OBVIOUS
<1>3. q * (a * b) = ((a * b) * k) * (f * b)
  OBVIOUS
<1> HIDE DEF q, x
<1>4. TruncDiv(x, a) = (a * q) \div a
  <2>1. a * q \in Nat
    BY <1>1
  <2> QED  BY <1>2, <2>1 DEF TruncDiv, Magnitude
<1>5. (a * q) \div a = q
  BY <1>1, FactorGivesMultiple
<1>6. TruncDiv(x, a) = q
  BY <1>4, <1>5
<1> QED  BY <1>3, <1>6 DEF q, x, Cancels

LEMMA ComponentIsExact ==
  ASSUME NEW token \in Tokens, token.byte \in DateUnits \cup TimeUnits,
         IsNumber(token.number), NEW total \in Int,
         NEW v \in AddComponent(total, token.number, UnitOf[token.byte])
  PROVE  v * 10^MaxFracDigits = total * 10^MaxFracDigits + Shifted(token)
<1> DEFINE n    == token.number
           unit == UnitOf[token.byte]
           ten  == 10^MaxFracDigits
           low  == 10^n.fracDigits
           high == 10^(MaxFracDigits - n.fracDigits)
           x    == n.frac * unit
           part == TruncDiv(x, low)
<1>1. n \in Numbers /\ n.fracDigits \in 0..MaxFracDigits /\ n.int \in Int /\ n.frac \in Nat
  <2>1. n \in Numbers
    BY TokenFields
  <2> QED  BY <2>1, DigitAssumption DEF IsNumber, Widths
<1>2. low \in Nat \ {0} /\ high \in Nat /\ low * high = ten /\ NsPerSec = ten
  BY <1>1, PowersAreKnown
<1>3. PICK k \in Nat : unit = NsPerSec * k
  BY DesignatorsAreSeconds
<1>4. v = total + n.int * unit + part
  BY DEF AddComponent, CheckedInst, Ok, Err
<1>5. Shifted(token) = unit * (n.int * ten + n.frac * high)
  BY DesignatorsAreSeconds DEF Shifted
<1> HIDE DEF n, unit, ten, low, high, x, part
<1>6. part = n.frac * (high * k) /\ part * ten = unit * (n.frac * high)
  <2>1. unit = ten * k /\ x = n.frac * unit /\ ten = low * high
    BY <1>2, <1>3 DEF x
  <2>2. /\ TruncDiv(x, low) = n.frac * (high * k)
        /\ (n.frac * (high * k)) * ten = unit * (n.frac * high)
    <3> DEFINE f == n.frac
    <3>1. f \in Nat /\ k \in Nat /\ low \in Nat \ {0} /\ high \in Nat
      BY <1>1, <1>2, <1>3
    <3>2. ten = low * high /\ unit = (low * high) * k /\ x = f * ((low * high) * k)
      BY <2>1
    <3> HIDE DEF f
    <3>3. Cancels(f, low, high, k)
      BY <3>1, FactorsCancel, Zenon
    <3>4. TruncDiv(x, low) = f * (high * k) /\ (f * (high * k)) * ten = unit * (f * high)
      BY <3>2, <3>3, Zenon DEF Cancels
    <3> QED  BY <3>4 DEF f
  <2>3. part = n.frac * (high * k)
    BY <2>2, Zenon DEF part
  <2> QED  BY <1>2, <2>1, <2>2, <2>3, Zenon
<1>7. /\ part \in Int /\ ten \in Int /\ unit \in Int
      /\ n.frac * high \in Int /\ n.int \in Int /\ total \in Int
  BY <1>1, <1>2, <1>3, <1>6
<1>8. (total + n.int * unit + part) * ten
        = total * ten + unit * (n.int * ten + n.frac * high)
  <2> DEFINE i == n.int
             f == n.frac * high
             w == i * unit
  <2>1. i \in Int /\ f \in Int /\ part * ten = unit * f
    BY <1>6, <1>7
  <2> HIDE DEF i, f
  <2>2. w \in Int /\ w * ten = unit * (i * ten) /\ i * ten \in Int
    BY <1>7, <2>1
  <2>3. unit * (i * ten + f) = unit * (i * ten) + unit * f
    BY <1>7, <2>1, <2>2
  <2> HIDE DEF w
  <2>4. (total + w + part) * ten = total * ten + w * ten + part * ten
    BY <1>7, <2>2
  <2>5. (total + w + part) * ten = total * ten + unit * (i * ten + f)
    BY <1>7, <2>1, <2>2, <2>3, <2>4
  <2> QED  BY <2>5 DEF w, i, f
<1>9. v * ten = total * ten + Shifted(token)
  BY <1>4, <1>5, <1>8, Zenon
<1> QED  BY <1>9 DEF ten

-----------------------------------------------------------------------------
(* The inductive invariant, continued: what the reader has added is the    *)
(* sum of what it read.                                                    *)
Counted(t, s) == s.total * 10^MaxFracDigits = Sum(t)

LEMMA TokenIsCounted ==
  ASSUME NEW t \in Seq(Tokens), NEW s, Reached(t, s), Counted(t, s),
         NEW token \in Tokens, NEW r \in ReadToken(s, token)
  PROVE  Counted(Append(t, token), r)
<1> DEFINE u == Append(t, token)
<1>1. Sum(u) = Sum(t) + Shifted(token)
  <2>1. u \in Seq(Tokens) /\ Len(u) = Len(t) + 1 /\ Len(t) \in Nat
        /\ u[Len(u)] = token /\ \A i \in 1..Len(t) : u[i] = t[i]
    BY Appended
  <2> HIDE DEF u
  <2> QED  BY <2>1, SumGrows
<1>2. s.total \in Int /\ 10^MaxFracDigits \in Int
  <2>1. MaxFracDigits \in 0..MaxFracDigits
    BY DigitAssumption DEF Widths
  <2> QED  BY <2>1, PowersAreKnown DEF Reached, ReaderStates
<1> HIDE DEF u
<1>3. ASSUME r.total = s.total, token.byte \in {"-", "P", "T"}
      PROVE  Counted(u, r)
  <2>1. Shifted(token) = 0
    <3>1. token.byte \notin DOMAIN UnitOf
      BY <1>3 DEF UnitOf
    <3> QED  BY <3>1 DEF Shifted
  <2>2. s.total * 10^MaxFracDigits \in Int
    BY <1>2
  <2> QED  BY <1>1, <1>3, <2>1, <2>2 DEF Counted
<1>4. CASE r \in ReadMinus(s, token)
  <2>1. token = Byte("-") /\ r = [s EXCEPT !.at = "P", !.negative = TRUE]
    BY <1>4 DEF ReadMinus, Ok, Err
  <2>2. r.total = s.total
    BY <2>1 DEF Reached, ReaderStates
  <2> QED  BY <1>3, <2>1, <2>2, TokenFields DEF u
<1>5. CASE r \in ReadP(s, token)
  <2>1. token = Byte("P") /\ r = [s EXCEPT !.at = "date"]
    BY <1>5 DEF ReadP, Ok, Err
  <2>2. r.total = s.total
    BY <2>1 DEF Reached, ReaderStates
  <2> QED  BY <1>3, <2>1, <2>2, TokenFields DEF u
<1>6. CASE r \in ReadT(s, token)
  <2>1. token = Byte("T") /\ r = [s EXCEPT !.at = "time", !.last = "T"]
    BY <1>6 DEF ReadT, Ok, Err
  <2>2. r.total = s.total
    BY <2>1 DEF Reached, ReaderStates
  <2> QED  BY <1>3, <2>1, <2>2, TokenFields DEF u
<1>7. CASE r \in ReadComponent(s, token)
  <2>1. ~s.closed /\ IsNumber(token.number) /\ MayFollow(token.byte, s)
    BY <1>7 DEF ReadComponent, Err
  <2>2. PICK v \in AddComponent(s.total, token.number, UnitOf[token.byte]) :
          r = [s EXCEPT !.total  = v,
                        !.last   = token.byte,
                        !.closed = token.number.fracDigits > 0]
    BY <1>7, <2>1 DEF ReadComponent
  <2>3. r.total = v
    BY <2>2 DEF Reached, ReaderStates
  <2>4. token.byte \in DateUnits \cup TimeUnits
    BY <2>1 DEF MayFollow
  <2>5. v * 10^MaxFracDigits = s.total * 10^MaxFracDigits + Shifted(token)
    BY <1>2, <2>1, <2>4, ComponentIsExact
  <2> QED  BY <1>1, <2>3, <2>5 DEF Counted, u
<1> QED  BY <1>4, <1>5, <1>6, <1>7 DEF ReadToken, u

LEMMA TotalIsInst ==
  ASSUME NEW t, NEW s, Reached(t, s)
  PROVE  s.total \in 0..InstMax /\ -s.total \in Inst /\ s.total \in Inst
<1> DEFINE all  == NsPerWeek + NsPerDay + NsPerHour + NsPerMin + NsPerSec
           room == Room[s.last]
<1>1. all \in Nat /\ room \in Nat /\ room <= all
  <2>1. s.last \in {"P", "W", "D", "T", "H", "M", "S"}
    BY DEF Reached, ReaderStates, Room
  <2> QED  BY <2>1, UnitSizesInNat DEF Room
<1>2. s.total \in Nat /\ s.total <= (MaxInt + 1) * room /\ (MaxInt + 1) * all <= InstMax
  BY RoomAssumption DEF Reached, ReaderStates
<1>3. MaxInt + 1 \in Nat
  BY MaxIntIsNat
<1> HIDE DEF all, room
<1>4. (MaxInt + 1) * room <= (MaxInt + 1) * all /\ (MaxInt + 1) * room \in Nat
      /\ (MaxInt + 1) * all \in Nat
  BY <1>1, <1>3, ProductsInOrder
<1> QED  BY <1>2, <1>4, WidthAssumption DEF Inst

LEMMA FinishedValue ==
  ASSUME NEW t \in Seq(Tokens), NEW s, Reached(t, s), Counted(t, s), NEW d \in Finish(s)
  PROVE  /\ d \in Inst
         /\ d * 10^MaxFracDigits = IF t[1].byte = "-" THEN -Sum(t) ELSE Sum(t)
<1>1. /\ s.at \in {"date", "time"}
      /\ d = IF s.negative THEN -s.total ELSE s.total
  BY DEF Finish, Ok, Err
<1>2. s.total \in Nat /\ -s.total \in Inst /\ s.total \in Inst /\ s.negative \in BOOLEAN
  BY TotalIsInst DEF Reached, ReaderStates
<1>3. s.negative <=> t[1].byte = "-"
  <2>1. Piece(t, PlaceOfP(s))
    BY <1>1 DEF Reached
  <2>2. CASE s.negative
    <3>1. t[1] = Byte("-")
      BY <2>1, <2>2 DEF Piece, PlaceOfP
    <3> QED  BY <2>2, <3>1, TokenFields
  <2>3. CASE ~s.negative
    <3>1. t[1] = Byte("P")
      BY <2>1, <2>3 DEF Piece, PlaceOfP
    <3> QED  BY <2>3, <3>1, TokenFields
  <2> QED  BY <2>2, <2>3
<1>4. 10^MaxFracDigits \in Int
  <2>1. MaxFracDigits \in 0..MaxFracDigits
    BY DigitAssumption DEF Widths
  <2> QED  BY <2>1, PowersAreKnown
<1> DEFINE ten == 10^MaxFracDigits
<1>5. Sum(t) = s.total * ten /\ ten \in Int
  BY <1>4 DEF Counted
<1> HIDE DEF ten
<1>6. (-s.total) * ten = -(s.total * ten)
  BY <1>2, <1>5
<1>7. d * ten = IF t[1].byte = "-" THEN -Sum(t) ELSE Sum(t)
  BY <1>1, <1>2, <1>3, <1>5, <1>6
<1> QED  BY <1>1, <1>2, <1>7 DEF ten

ReaderCounts == ReaderInv /\ \A s \in scan : Counted(text, s)

LEMMA CountInvariance == ReaderSpec => []ReaderCounts
<1>1. ReaderInit => \A s \in scan : Counted(text, s)
  <2> SUFFICES ASSUME ReaderInit PROVE Counted(<<>>, Start)
    BY DEF ReaderInit, Ok
  <2>1. MaxFracDigits \in 0..MaxFracDigits
    BY DigitAssumption DEF Widths
  <2>2. 0 * 10^MaxFracDigits = 0
    BY <2>1, PowersAreKnown
  <2> QED  BY <2>2, StartIsKnown, SumOfNothing DEF Counted
<1>2. /\ ReaderInv /\ (\A s \in scan : Counted(text, s)) /\ [ReaderNext]_readerVars
      => (\A s \in scan : Counted(text, s))'
  <2> SUFFICES ASSUME ReaderInv, \A s \in scan : Counted(text, s), [ReaderNext]_readerVars
               PROVE  \A s \in scan' : Counted(text', s)
    OBVIOUS
  <2>1. CASE ReadOn
    <3>1. PICK token \in Tokens, s \in scan :
            text' = Append(text, token) /\ scan' = ReadToken(s, token)
      BY <2>1 DEF ReadOn
    <3> QED  BY <3>1, TokenIsCounted DEF ReaderInv
  <2>2. CASE AnotherText
    <3>1. text' = <<>> /\ scan' = {Start}
      BY <2>2 DEF AnotherText, Ok
    <3>2. MaxFracDigits \in 0..MaxFracDigits
      BY DigitAssumption DEF Widths
    <3>3. 0 * 10^MaxFracDigits = 0
      BY <3>2, PowersAreKnown
    <3> QED  BY <3>1, <3>3, StartIsKnown, SumOfNothing DEF Counted
  <2>3. CASE UNCHANGED readerVars
    BY <2>3 DEF readerVars
  <2> QED  BY <2>1, <2>2, <2>3 DEF ReaderNext
<1> QED  BY <1>1, <1>2, ReaderInvariance, PTL DEF ReaderSpec, ReaderCounts

(* A text that is accepted means the sum of its components to the last     *)
(* nanosecond, under its sign, and that is an i128: the divisions of       *)
(* add_duration_component leave no remainder and its sums never overflow.  *)
THEOREM ReaderIsExact == ReaderSpec => []ValueIsExact
<1>1. ReaderCounts => ValueIsExact
  <2> SUFFICES ASSUME ReaderCounts, NEW d \in Result
               PROVE  /\ d \in Inst
                      /\ d * 10^MaxFracDigits = IF text[1].byte = "-" THEN -Sum(text) ELSE Sum(text)
    BY DEF ValueIsExact
  <2>1. PICK s \in scan : d \in Finish(s)
    BY DEF Result
  <2> QED  BY <2>1, FinishedValue DEF ReaderCounts, ReaderInv
<1> QED  BY <1>1, CountInvariance, PTL

-----------------------------------------------------------------------------
(* Reading a whole text at once: what ReadAll computes, from the left, and *)
(* that a text may be read in two parts.                                   *)
ReadUpto(f, r, t, n) ==
  f = [i \in 0..n |-> IF i = 0 THEN r ELSE ReadOne(f[i - 1], t[i])]

LEMMA ReadingExists ==
  ASSUME NEW r, NEW t, NEW n \in Nat
  PROVE  \E f : ReadUpto(f, r, t, n)
<1> DEFINE S == {k \in Nat : \E f : ReadUpto(f, r, t, k)}
<1>1. 0 \in S
  <2>1. ReadUpto([i \in 0..0 |-> r], r, t, 0)
    BY DEF ReadUpto
  <2> QED  BY <2>1
<1>2. ASSUME NEW k \in S
      PROVE  k + 1 \in S
  <2>1. PICK f : ReadUpto(f, r, t, k)
    OBVIOUS
  <2> DEFINE g == [i \in 0..k+1 |-> IF i = k + 1 THEN ReadOne(f[k], t[i]) ELSE f[i]]
  <2>2. \A i \in 0..k : f[i] = IF i = 0 THEN r ELSE ReadOne(f[i - 1], t[i])
    BY <2>1 DEF ReadUpto
  <2>3. \A i \in 0..k+1 : g[i] = IF i = 0 THEN r ELSE ReadOne(g[i - 1], t[i])
    <3> TAKE i \in 0..k+1
    <3>1. CASE i = 0
      BY <2>2, <3>1
    <3>2. CASE i \in 1..k
      BY <2>2, <3>2
    <3>3. CASE i = k + 1
      BY <3>3
    <3> QED  BY <3>1, <3>2, <3>3
  <2>4. ReadUpto(g, r, t, k + 1)
    BY <2>3 DEF ReadUpto
  <2> QED  BY <2>4
<1>3. S = Nat
  <2> HIDE DEF S
  <2>1. S \in SUBSET Nat
    BY DEF S
  <2> QED  BY <1>1, <1>2, <2>1, InductiveSet
<1> QED  BY <1>3

LEMMA ReadAllIs ==
  ASSUME NEW r, NEW t, Len(t) \in Nat
  PROVE  \E f : ReadUpto(f, r, t, Len(t)) /\ ReadAll(r, t) = f[Len(t)]
<1> DEFINE run == CHOOSE f : ReadUpto(f, r, t, Len(t))
<1>1. ReadUpto(run, r, t, Len(t))
  BY ReadingExists
<1>2. ReadAll(r, t) = run[Len(t)]
  BY DEF ReadAll, ReadUpto
<1> QED  BY <1>1, <1>2

LEMMA ReadInParts ==
  ASSUME NEW X, NEW r, NEW t \in Seq(X), NEW u \in Seq(X)
  PROVE  ReadAll(r, t \o u) = ReadAll(ReadAll(r, t), u)
<1> DEFINE w == t \o u
           l == Len(t)
           m == Len(u)
<1>1. /\ Len(w) = l + m /\ l \in Nat /\ m \in Nat
      /\ \A i \in 1..l : w[i] = t[i]
      /\ \A i \in 1..m : w[l + i] = u[i]
  OBVIOUS
<1>2. PICK f : ReadUpto(f, r, t, l) /\ ReadAll(r, t) = f[l]
  BY ReadAllIs
<1>3. PICK g : ReadUpto(g, f[l], u, m) /\ ReadAll(f[l], u) = g[m]
  BY ReadAllIs
<1> HIDE DEF w
<1> HIDE DEF l, m
<1>4. PICK h : ReadUpto(h, r, w, l + m) /\ ReadAll(r, w) = h[l + m]
  <2>1. Len(w) \in Nat
    BY <1>1
  <2>2. PICK h : ReadUpto(h, r, w, Len(w)) /\ ReadAll(r, w) = h[Len(w)]
    BY <2>1, ReadAllIs
  <2> QED  BY <1>1, <2>2
<1>5. \A i \in 0..l : f[i] = IF i = 0 THEN r ELSE ReadOne(f[i - 1], t[i])
  BY <1>2 DEF ReadUpto
<1>6. \A i \in 0..m : g[i] = IF i = 0 THEN f[l] ELSE ReadOne(g[i - 1], u[i])
  BY <1>3 DEF ReadUpto
<1>7. \A i \in 0..l+m : h[i] = IF i = 0 THEN r ELSE ReadOne(h[i - 1], w[i])
  BY <1>4 DEF ReadUpto
<1> DEFINE Agree(k) == k <= l + m => h[k] = IF k <= l THEN f[k] ELSE g[k - l]
<1>8. Agree(0)
  BY <1>1, <1>5, <1>7
<1>9. ASSUME NEW k \in Nat, Agree(k)
      PROVE  Agree(k + 1)
  <2> HAVE k + 1 <= l + m
  <2>1. /\ k \in Nat /\ k + 1 \in 0..l+m /\ k + 1 # 0 /\ k + 1 - 1 = k
        /\ h[k] = IF k <= l THEN f[k] ELSE g[k - l]
    BY <1>1, <1>9
  <2>2. h[k + 1] = ReadOne(h[k], w[k + 1])
    BY <1>7, <2>1
  <2>3. CASE k + 1 <= l
    <3>1. f[k + 1] = ReadOne(f[k], t[k + 1])
      BY <1>1, <1>5, <2>1, <2>3
    <3>2. w[k + 1] = t[k + 1]
      BY <1>1, <2>1, <2>3
    <3> QED  BY <1>1, <2>1, <2>2, <2>3, <3>1, <3>2
  <2>4. CASE k + 1 > l
    <3> DEFINE j == k + 1 - l
    <3>1. j \in 1..m /\ k + 1 = l + j /\ j - 1 = k - l
      <4>1. l \in Nat /\ m \in Nat /\ k \in Nat /\ k + 1 <= l + m
        BY <1>1, <2>1
      <4> QED  BY <2>4, <4>1
    <3>2. g[j] = ReadOne(g[j - 1], u[j])
      BY <1>1, <1>6, <3>1
    <3>3. w[k + 1] = u[j]
      BY <1>1, <3>1
    <3>4. h[k] = g[j - 1]
      <4>1. CASE k = l
        <5>1. j - 1 = 0 /\ h[k] = f[l] /\ 0 \in 0..m
          BY <1>1, <2>1, <3>1, <4>1
        <5> QED  BY <1>6, <5>1
      <4>2. CASE k > l
        BY <1>1, <2>1, <3>1, <4>2
      <4> QED  BY <1>1, <2>1, <2>4, <4>1, <4>2
    <3> QED  BY <1>1, <2>1, <2>2, <2>4, <3>2, <3>3, <3>4
  <2> QED  BY <1>1, <2>1, <2>3, <2>4
<1>10. h[l + m] = g[m]
  <2> DEFINE S == {k \in Nat : Agree(k)}
  <2> HIDE DEF Agree
  <2>1. S \in SUBSET Nat /\ 0 \in S /\ \A k \in S : k + 1 \in S
    BY <1>8, <1>9
  <2> HIDE DEF S
  <2>2. S = Nat
    BY <2>1, InductiveSet
  <2>3. Agree(l + m)
    BY <1>1, <2>2 DEF S
  <2> USE DEF Agree
  <2>4. CASE m = 0
    <3>1. l + m = l /\ h[l] = f[l] /\ 0 \in 0..m
      BY <1>1, <1>5, <2>3, <2>4
    <3> QED  BY <1>6, <2>4, <3>1
  <2>5. CASE m # 0
    BY <1>1, <2>3, <2>5
  <2> QED  BY <2>4, <2>5
<1> QED  BY <1>2, <1>3, <1>4, <1>10 DEF w

LEMMA ReadAllOfLittle ==
  /\ \A r : ReadAll(r, <<>>) = r
  /\ \A r, token : ReadAll(r, <<token>>) = ReadOne(r, token)
<1>1. ASSUME NEW r PROVE ReadAll(r, <<>>) = r
  <2>1. Len(<<>>) = 0
    OBVIOUS
  <2>2. PICK f : ReadUpto(f, r, <<>>, 0) /\ ReadAll(r, <<>>) = f[0]
    BY <2>1, ReadAllIs
  <2> QED  BY <2>2 DEF ReadUpto
<1>2. ASSUME NEW r, NEW token PROVE ReadAll(r, <<token>>) = ReadOne(r, token)
  <2> DEFINE t == <<token>>
  <2>1. Len(t) = 1 /\ t[1] = token
    OBVIOUS
  <2> HIDE DEF t
  <2>2. PICK f : ReadUpto(f, r, t, 1) /\ ReadAll(r, t) = f[1]
    BY <2>1, ReadAllIs
  <2>3. \A i \in 0..1 : f[i] = IF i = 0 THEN r ELSE ReadOne(f[i - 1], t[i])
    BY <2>2 DEF ReadUpto
  <2>4. f[0] = r /\ f[1] = ReadOne(f[0], t[1])
    BY <2>3
  <2>5. ReadAll(r, t) = ReadOne(r, token)
    BY <2>1, <2>2, <2>4
  <2> QED  BY <2>5 DEF t
<1> QED  BY <1>1, <1>2

-----------------------------------------------------------------------------
(* The digits that are written.                                            *)
LEMMA PowersOfInt ==
  /\ MaxIntDigits \in Widths /\ MaxInt + 1 = 10^MaxIntDigits /\ 10^MaxIntDigits \in Nat
  /\ \A k \in 1..MaxIntDigits : 10^k \in 1..10^MaxIntDigits
<1> DEFINE top == 10^MaxIntDigits
<1>1. MaxIntDigits \in Widths /\ MaxIntDigits \in 0..MaxIntDigits
      /\ \A k \in 1..MaxIntDigits : k \in 0..MaxIntDigits
  BY DigitAssumption DEF Widths
<1>2. top \in 1..top /\ MaxInt = top - 1
  BY <1>1, PowerAssumption DEF MaxInt
<1>3. \A k \in 1..MaxIntDigits : 10^k \in 1..top
  BY <1>1, PowerAssumption
<1> HIDE DEF top
<1>4. MaxInt + 1 = top /\ top \in Nat
  BY <1>2
<1> QED  BY <1>1, <1>3, <1>4 DEF top

LEMMA DigitsAreCounted ==
  ASSUME NEW n \in 0..InstMax
  PROVE  /\ DigitCount(n) \in Widths
         /\ DigitCount(n) <= MaxIntDigits <=> n <= MaxInt
<1> DEFINE c == DigitCount(n)
<1>1. n \in Nat /\ InstMax \in Nat /\ n <= InstMax
  BY WidthAssumption
<1>2. c \in Widths /\ n < 10^c /\ \A j \in 1..c-1 : 10^j <= n
  <2>1. PICK top \in Widths : InstMax < 10^top /\ \A j \in 1..top : 10^j \in Nat
    BY PowerAssumption
  <2> DEFINE Enough == {k \in 1..top : n < 10^k}
  <2>2. Enough \in SUBSET Nat /\ top \in Enough
    BY <1>1, <2>1 DEF Widths
  <2>3. PICK k \in Enough : \A j \in Enough : k <= j
    <3> HIDE DEF Enough
    <3> QED  BY <2>2, LeastElement
  <2>4. \A j \in 1..k-1 : 10^j <= n
    <3> TAKE j \in 1..k-1
    <3>1. j \in 1..top /\ ~(k <= j)
      BY <2>1 DEF Widths
    <3>2. 10^j \in Nat /\ ~(n < 10^j)
      BY <2>1, <2>3, <3>1
    <3> QED  BY <1>1, <3>2
  <2>5. k \in Widths /\ n < 10^k
    BY <2>1 DEF Widths
  <2> QED  BY <2>4, <2>5 DEF DigitCount
<1>3. c <= MaxIntDigits <=> n <= MaxInt
  <2>1. MaxInt \in Nat /\ c \in Nat \ {0} /\ MaxIntDigits \in Nat \ {0}
    BY <1>2, MaxIntIsNat, PowersOfInt DEF Widths
  <2>2. ASSUME c <= MaxIntDigits
        PROVE  n <= MaxInt
    <3>1. c \in 1..MaxIntDigits
      BY <2>1, <2>2
    <3>2. 10^c \in 1..10^MaxIntDigits
      BY <3>1, PowersOfInt
    <3> QED  BY <1>1, <1>2, <2>1, <3>2, PowersOfInt
  <2>3. ASSUME n <= MaxInt, ~(c <= MaxIntDigits)
        PROVE  FALSE
    <3>1. MaxIntDigits \in 1..c-1
      BY <2>1, <2>3
    <3>2. 10^MaxIntDigits <= n
      BY <1>2, <3>1
    <3> QED  BY <1>1, <2>1, <2>3, <3>2, PowersOfInt
  <2> QED  BY <2>2, <2>3
<1> QED  BY <1>2, <1>3 DEF c

(* What is left of a multiple's remainder. *)
LEMMA RemainderOfRemainder ==
  ASSUME NEW a \in Nat, NEW u \in Nat \ {0}, NEW v \in Nat \ {0}, v % u = 0
  PROVE  (a % v) % u = a % u
<1>1. PICK k \in Nat : v = u * k
  BY MultipleHasFactor
<1> DEFINE q == a \div v
           r == a % v
<1>2. q \in Nat /\ r \in Nat /\ a = v * q + r
  OBVIOUS
<1> DEFINE x == r \div u
           y == r % u
<1>3. x \in Nat /\ y \in 0..u-1 /\ r = u * x + y
  BY <1>2
<1> HIDE DEF q, r, x, y
<1>4. v * q = u * (k * q) /\ k * q \in Nat
  BY <1>1, <1>2
<1> DEFINE z == k * q + x
<1>5. u * z = u * (k * q) + u * x /\ z \in Nat
  BY <1>3, <1>4
<1> HIDE DEF z
<1>6. a = u * z + y
  BY <1>2, <1>3, <1>4, <1>5
<1>7. a % u = y
  BY <1>3, <1>5, <1>6
<1> QED  BY <1>7 DEF y, r

LEMMA SplitByUnit ==
  ASSUME NEW a \in Nat, NEW u \in Nat \ {0}
  PROVE  /\ a \div u \in Nat /\ a % u \in 0..u-1 /\ a = (a \div u) * u + (a % u)
         /\ \A m \in Nat : a < m * u => a \div u < m
<1> DEFINE q == a \div u
           r == a % u
<1>1. q \in Nat /\ r \in 0..u-1 /\ a = q * u + r
  <2>1. q \in Nat /\ r \in 0..u-1 /\ a = u * q + r
    OBVIOUS
  <2> HIDE DEF q, r
  <2> QED  BY <2>1
<1> HIDE DEF q, r
<1>2. ASSUME NEW m \in Nat, a < m * u, m <= q
      PROVE  FALSE
  <2>1. m * u <= q * u /\ q * u \in Nat /\ m * u \in Nat
    BY <1>1, <1>2, ProductsInOrder
  <2> QED  BY <1>1, <1>2, <2>1
<1>3. \A m \in Nat : a < m * u => q < m
  BY <1>1, <1>2
<1>4. /\ a \div u \in Nat /\ a % u \in 0..u-1 /\ a = (a \div u) * u + (a % u)
  BY <1>1, Zenon DEF q, r
<1>5. \A m \in Nat : a < m * u => a \div u < m
  BY <1>3, Zenon DEF q
<1> QED  BY <1>4, <1>5, Zenon

-----------------------------------------------------------------------------
(* Reading what was written: a state of the reader between two parts, and  *)
(* what each part of the text makes of it.                                 *)
State(at, negative, total, last, closed) ==
  [at |-> at, negative |-> negative, total |-> total, last |-> last, closed |-> closed]

(* Without and with a fraction read. *)
At(at, negative, total, last)     == State(at, negative, total, last, FALSE)
Closed(at, negative, total, last) == State(at, negative, total, last, TRUE)

Written == [number : [int : Nat, intDigits : Nat, frac : Nat, fracDigits : Nat], byte : Bytes]

Fields == {"at", "negative", "total", "last", "closed"}

LEMMA StateOfFields ==
  ASSUME NEW at, NEW negative, NEW total, NEW last, NEW closed
  PROVE  LET s == State(at, negative, total, last, closed)
         IN  /\ s = [x \in Fields |-> s[x]] /\ DOMAIN s = Fields
             /\ s.at = at /\ s.negative = negative /\ s.total = total
             /\ s.last = last /\ s.closed = closed
BY DEF State, Fields

LEMMA SameFields ==
  ASSUME NEW r, DOMAIN r = Fields, r = [x \in Fields |-> r[x]]
  PROVE  r = State(r.at, r.negative, r.total, r.last, r.closed)
<1> DEFINE q == State(r.at, r.negative, r.total, r.last, r.closed)
<1>1. /\ q = [x \in Fields |-> q[x]]
      /\ q.at = r.at /\ q.negative = r.negative /\ q.total = r.total
      /\ q.last = r.last /\ q.closed = r.closed
  BY StateOfFields
<1> HIDE DEF q
<1>2. \A x \in Fields : r[x] = q[x]
  BY <1>1 DEF Fields
<1>3. r = q
  BY <1>1, <1>2
<1> QED  BY <1>3 DEF q

LEMMA OneAfterAnother ==
  ASSUME NEW s, NEW token, NEW r, ReadToken(s, token) = {r}
  PROVE  ReadAll({s}, <<token>>) = {r}
BY ReadAllOfLittle DEF ReadOne

LEMMA OnlyComponents ==
  ASSUME NEW s, NEW token, token.byte \in DateUnits \cup TimeUnits
  PROVE  ReadToken(s, token) = ReadComponent(s, token)
<1>1. token.byte \notin {"-", "P", "T"}
  BY DEF DateUnits, TimeUnits
<1>2. token # Byte("-") /\ token # Byte("P") /\ token # Byte("T")
  BY <1>1 DEF Byte
<1>3. ReadMinus(s, token) = {} /\ ReadP(s, token) = {} /\ ReadT(s, token) = {}
  BY <1>2 DEF ReadMinus, ReadP, ReadT, Err
<1> QED  BY <1>3 DEF ReadToken

(* A component that is read adds to the total what its number is worth. *)
LEMMA ComponentStep ==
  ASSUME NEW at, NEW negative, NEW total \in Nat, NEW last, NEW n, NEW unit,
         unit \in DateUnits \cup TimeUnits, MayFollow(unit, At(at, negative, total, last)),
         IsNumber(n), n.int \in Nat,
         TruncDiv(n.frac * UnitOf[unit], 10^n.fracDigits) \in Nat,
         total + n.int * UnitOf[unit] + TruncDiv(n.frac * UnitOf[unit], 10^n.fracDigits) <= InstMax
  PROVE  LET sum == total + n.int * UnitOf[unit]
                      + TruncDiv(n.frac * UnitOf[unit], 10^n.fracDigits)
         IN  ReadToken(At(at, negative, total, last), [number |-> n, byte |-> unit])
               = {IF n.fracDigits > 0 THEN Closed(at, negative, sum, unit)
                  ELSE At(at, negative, sum, unit)}
<1>0. PICK closed \in BOOLEAN : closed = (n.fracDigits > 0)
  <2>1. (n.fracDigits > 0) \in BOOLEAN
    OBVIOUS
  <2> QED  BY <2>1, Zenon
<1> DEFINE s     == At(at, negative, total, last)
           token == [number |-> n, byte |-> unit]
           whole == n.int * UnitOf[unit]
           part  == TruncDiv(n.frac * UnitOf[unit], 10^n.fracDigits)
           sum   == total + whole + part
<1>1. token.number = n /\ token.byte = unit
  OBVIOUS
<1>2. s.total = total /\ s.closed = FALSE
  BY DEF At, State
<1>3. UnitOf[unit] \in Nat
  BY UnitsOfDesignators, UnitSizesInNat DEF DateUnits, TimeUnits
<1>4. whole \in Nat
  BY <1>3
<1>5. sum <= InstMax /\ part \in Nat
  OBVIOUS
<1>6. total + n.int * UnitOf[unit] = total + whole
  OBVIOUS
<1>9. AddComponent(total, n, UnitOf[unit]) =
        UNION {CheckedInst(v + part) : v \in CheckedInst(total + whole)}
  BY DEF AddComponent
<1> HIDE DEF whole, part
<1>7. CheckedInst(total + whole) = {total + whole}
  BY <1>4, <1>5, WidthAssumption DEF CheckedInst, Inst, Ok
<1>8. CheckedInst(total + whole + part) = {sum}
  BY <1>4, <1>5, WidthAssumption DEF CheckedInst, Inst, Ok
<1>10. AddComponent(s.total, n, UnitOf[unit]) = {sum}
  <2>1. AddComponent(total, n, UnitOf[unit]) =
          UNION {CheckedInst(v + part) : v \in CheckedInst(total + whole)}
    BY <1>9
  <2>2. UNION {CheckedInst(v + part) : v \in {total + whole}} = CheckedInst(total + whole + part)
    OBVIOUS
  <2> QED  BY <1>2, <1>7, <1>8, <2>1, <2>2
<1> HIDE DEF sum
<1>11. [s EXCEPT !.total = sum, !.last = unit, !.closed = closed]
         = State(at, negative, sum, unit, closed)
  <2> DEFINE r == [s EXCEPT !.total = sum, !.last = unit, !.closed = closed]
  <2>1. /\ s = At(at, negative, total, last)
        /\ r = [s EXCEPT !.total = sum, !.last = unit, !.closed = closed]
    OBVIOUS
  <2>2. /\ s = [x \in Fields |-> s[x]] /\ DOMAIN s = Fields
        /\ s.at = at /\ s.negative = negative
    BY DEF s, At, State, Fields
  <2> HIDE DEF s, r
  <2>3. /\ DOMAIN r = Fields /\ r = [x \in Fields |-> r[x]]
        /\ r.at = at /\ r.negative = negative /\ r.total = sum /\ r.last = unit /\ r.closed = closed
    BY <2>1, <2>2 DEF Fields
  <2>4. r = State(r.at, r.negative, r.total, r.last, r.closed)
    BY <2>3, SameFields
  <2>5. r = State(at, negative, sum, unit, closed)
    BY <2>3, <2>4, Zenon
  <2> QED  BY <2>5, Zenon DEF r
<1>12. ReadComponent(s, token) = {State(at, negative, sum, unit, closed)}
  <2>1. ReadComponent(s, token) =
          {[s EXCEPT !.total = v, !.last = unit, !.closed = closed] : v \in {sum}}
    <3>1. /\ ~s.closed /\ IsNumber(token.number) /\ MayFollow(token.byte, s)
          /\ token.number = n /\ token.byte = unit
      BY <1>1, <1>2
    <3> HIDE DEF s, token
    <3>2. closed = (n.fracDigits > 0)
      BY <1>0
    <3>3. ReadComponent(s, token) =
            {[s EXCEPT !.total = v, !.last = token.byte, !.closed = token.number.fracDigits > 0] :
               v \in AddComponent(s.total, token.number, UnitOf[token.byte])}
      BY <3>1 DEF ReadComponent
    <3> QED  BY <1>10, <3>1, <3>2, <3>3, Zenon
  <2> QED  BY <1>11, <2>1
<1>13. State(at, negative, sum, unit, closed) =
         IF n.fracDigits > 0 THEN Closed(at, negative, sum, unit) ELSE At(at, negative, sum, unit)
  <2>1. CASE n.fracDigits > 0
    <3>1. closed = TRUE
      BY <1>0, <2>1
    <3> QED  BY <2>1, <3>1, Zenon DEF Closed
  <2>2. CASE ~(n.fracDigits > 0)
    <3>1. closed = FALSE
      BY <1>0, <2>2
    <3> QED  BY <2>2, <3>1, Zenon DEF At
  <2> QED  BY <2>1, <2>2
<1>14. ReadToken(s, token) = {State(at, negative, sum, unit, closed)}
  BY <1>1, <1>12, OnlyComponents
<1> QED  BY <1>13, <1>14, Zenon DEF sum, whole, part

-----------------------------------------------------------------------------
(* Who has refused reads no more. *)
LEMMA RefusedReadsNothing ==
  ASSUME NEW X, NEW t \in Seq(X)
  PROVE  ReadAll({}, t) = {}
<1>1. Len(t) \in Nat
  OBVIOUS
<1>2. PICK f : ReadUpto(f, {}, t, Len(t)) /\ ReadAll({}, t) = f[Len(t)]
  BY <1>1, ReadAllIs
<1> DEFINE S == {n \in Nat : n <= Len(t) => f[n] = {}}
<1>3. 0 \in S
  BY <1>1, <1>2 DEF ReadUpto
<1>4. ASSUME NEW n \in S PROVE n + 1 \in S
  <2>1. CASE n + 1 <= Len(t)
    <3>1. n + 1 \in 0..Len(t) /\ n + 1 # 0 /\ (n + 1) - 1 = n /\ f[n] = {}
      BY <1>1, <2>1
    <3>2. f[n + 1] = ReadOne(f[n], t[n + 1])
      BY <1>2, <3>1 DEF ReadUpto
    <3>3. f[n + 1] = {}
      BY <3>1, <3>2 DEF ReadOne
    <3> QED  BY <1>1, <3>3
  <2> QED  BY <2>1
<1>5. S = Nat
  <2>1. S \in SUBSET Nat
    OBVIOUS
  <2> HIDE DEF S
  <2> QED  BY <1>3, <1>4, <2>1, InductiveSet
<1> QED  BY <1>1, <1>2, <1>5

LEMMA WholeIsNumber ==
  ASSUME NEW n \in 0..InstMax
  PROVE  /\ IsNumber(Whole(n)) <=> n <= MaxInt
         /\ Whole(n).int = n /\ Whole(n).frac = 0 /\ Whole(n).fracDigits = 0
         /\ Whole(n) \in [int : Nat, intDigits : Nat, frac : Nat, fracDigits : Nat]
<1> DEFINE c == DigitCount(n)
<1>1. c \in Nat \ {0} /\ (c <= MaxIntDigits <=> n <= MaxInt) /\ n \in Nat
  BY DigitsAreCounted, WidthAssumption DEF Widths
<1>2. Whole(n) = [int |-> n, intDigits |-> c, frac |-> 0, fracDigits |-> 0]
  BY DEF Whole
<1>3. MaxFracDigits \in Nat
  BY DigitAssumption DEF Widths
<1> HIDE DEF c
<1> QED  BY <1>1, <1>2, <1>3 DEF IsNumber

LEMMA NoFraction ==
  ASSUME NEW u \in Nat
  PROVE  TruncDiv(0 * u, 10^0) = 0
<1>1. 10^0 \in Nat \ {0}
  <2>1. 0 \in 0..MaxFracDigits
    BY DigitAssumption DEF Widths
  <2> QED  BY <2>1, PowersAreKnown
<1> DEFINE p == 10^0
<1>2. p \in Nat \ {0}
  BY <1>1
<1> HIDE DEF p
<1>3. 0 * u = 0 /\ 0 \in Nat /\ 0 \div p = 0
  BY <1>2
<1>4. TruncDiv(0, p) = 0
  BY <1>2, <1>3, TruncOfNat
<1> QED  BY <1>3, <1>4 DEF p

LEMMA UnitIsNat ==
  ASSUME NEW unit \in DateUnits \cup TimeUnits
  PROVE  UnitOf[unit] \in Nat \ {0}
BY UnitsOfDesignators, UnitSizesInNat DEF DateUnits, TimeUnits

(* A component that is written only when it is not zero is read as much, if *)
(* its number is not too long. *)
LEMMA PartIsRead ==
  ASSUME NEW at, NEW negative, NEW total \in Nat, NEW last, NEW n \in Nat,
         NEW unit \in DateUnits \cup TimeUnits,
         MayFollow(unit, At(at, negative, total, last)),
         total + n * UnitOf[unit] <= InstMax
  PROVE  /\ Part(n, unit) \in Seq(Written)
         /\ ReadAll({At(at, negative, total, last)}, Part(n, unit)) =
              IF n <= MaxInt
              THEN {At(at, negative, total + n * UnitOf[unit], IF n > 0 THEN unit ELSE last)}
              ELSE {}
<1> DEFINE u == UnitOf[unit]
           s == At(at, negative, total, last)
<1>1. u \in Nat \ {0} /\ InstMax \in Nat /\ MaxInt \in Nat
  BY UnitIsNat, WidthAssumption, MaxIntIsNat
<1>2. n * u \in Nat /\ n <= n * u /\ (n = 0 => n * u = 0)
  <2> HIDE DEF u
  <2>1. n * 1 \in Nat /\ n * u \in Nat /\ n * 1 <= n * u
    BY <1>1, ProductsInOrder
  <2> QED  BY <1>1, <2>1
<1>3. CASE n = 0
  <2>1. Part(n, unit) = <<>>
    BY <1>3 DEF Part
  <2>2. total + n * u = total /\ ~(n > 0) /\ n <= MaxInt
    BY <1>1, <1>2, <1>3
  <2>3. ReadAll({s}, <<>>) = {s} /\ <<>> \in Seq(Written)
    BY ReadAllOfLittle
  <2> QED  BY <2>1, <2>2, <2>3
<1>4. CASE n > 0
  <2> DEFINE token == [number |-> Whole(n), byte |-> unit]
  <2>1. Part(n, unit) = <<token>>
    BY <1>4 DEF Part
  <2>2. n \in 0..InstMax
    <3> HIDE DEF u
    <3>1. total + n * u <= InstMax
      BY DEF u
    <3> QED  BY <1>1, <1>2, <3>1
  <2>3. token \in Written
    <3>1. unit \in Bytes
      BY DEF Bytes
    <3> QED  BY <2>2, <3>1, WholeIsNumber DEF Written
  <2>4. CASE n <= MaxInt
    <3> DEFINE w == Whole(n)
    <3>1. IsNumber(w) /\ w.int = n /\ w.frac = 0 /\ w.fracDigits = 0
      BY <2>2, <2>4, WholeIsNumber
    <3>2. TruncDiv(w.frac * u, 10^w.fracDigits) = 0
      BY <1>1, <3>1, NoFraction
    <3> HIDE DEF w
    <3> DEFINE sum == total + w.int * u + TruncDiv(w.frac * u, 10^w.fracDigits)
    <3>3. sum <= InstMax /\ sum = total + n * u
      BY <1>2, <3>1, <3>2
    <3>4. w.int \in Nat /\ ~(w.fracDigits > 0) /\ 0 \in Nat
      BY <3>1
    <3>5. ReadToken(s, [number |-> w, byte |-> unit]) = {At(at, negative, sum, unit)}
      <4>1. /\ MayFollow(unit, At(at, negative, total, last)) /\ IsNumber(w) /\ w.int \in Nat
            /\ TruncDiv(w.frac * UnitOf[unit], 10^w.fracDigits) \in Nat
            /\ total + w.int * UnitOf[unit]
                 + TruncDiv(w.frac * UnitOf[unit], 10^w.fracDigits) <= InstMax
        BY <3>1, <3>2, <3>3, <3>4
      <4>2. ReadToken(s, [number |-> w, byte |-> unit]) =
              {IF w.fracDigits > 0 THEN Closed(at, negative, sum, unit)
               ELSE At(at, negative, sum, unit)}
        BY <4>1, ComponentStep
      <4> QED  BY <3>4, <4>2
    <3>6. ReadToken(s, token) = {At(at, negative, total + n * u, unit)}
      BY <3>3, <3>5, Zenon DEF w
    <3>7. ReadAll({s}, <<token>>) = {At(at, negative, total + n * u, unit)}
      BY <3>6, OneAfterAnother, Zenon
    <3> HIDE DEF s, token
    <3>8. <<token>> \in Seq(Written)
      BY <2>3
    <3> QED  BY <1>4, <2>1, <2>4, <3>7, <3>8, Zenon DEF s
  <2>5. CASE ~(n <= MaxInt)
    <3>1. ~IsNumber(token.number) /\ token.byte \in DateUnits \cup TimeUnits
      BY <2>2, <2>5, WholeIsNumber
    <3>2. ReadToken(s, token) = {}
      BY <3>1, OnlyComponents DEF ReadComponent, Err
    <3>3. ReadAll({s}, <<token>>) = {}
      BY <3>2, ReadAllOfLittle DEF ReadOne
    <3> HIDE DEF s, token
    <3>4. <<token>> \in Seq(Written)
      BY <2>3
    <3> QED  BY <2>1, <2>5, <3>3, <3>4, Zenon DEF s
  <2> QED  BY <2>4, <2>5
<1> QED  BY <1>3, <1>4

-----------------------------------------------------------------------------
(* The greatest number of zeros that a fraction ends with. *)
LEMMA GreatestElement ==
  ASSUME NEW m \in Nat, NEW T \in SUBSET (0..m), T # {}
  PROVE  Max(T) \in T
<1> DEFINE U == {j \in 0..m : m - j \in T}
<1>1. U \in SUBSET Nat /\ U # {}
  <2>1. PICK x \in T : TRUE
    OBVIOUS
  <2>2. m - x \in 0..m /\ m - (m - x) = x
    BY <2>1
  <2> QED  BY <2>1, <2>2
<1>2. PICK j \in U : \A i \in U : j <= i
  <2> HIDE DEF U
  <2> QED  BY <1>1, LeastElement
<1>3. m - j \in T
  BY <1>2
<1>4. \A y \in T : m - j >= y
  <2> TAKE y \in T
  <2>1. m - y \in 0..m /\ m - (m - y) = y
    OBVIOUS
  <2>2. j <= m - y
    BY <1>2, <2>1
  <2> QED  BY <2>1, <2>2
<1>5. \E x \in T : \A y \in T : x >= y
  BY <1>3, <1>4
<1> QED  BY <1>5 DEF Max

LEMMA FractionIsWritten ==
  ASSUME NEW n \in 0..InstMax, n <= MaxInt, NEW subsec \in 1..NsPerSec-1
  PROVE  LET w == WithFraction(n, subsec)
         IN  /\ w \in [int : Nat, intDigits : Nat, frac : Nat, fracDigits : Nat]
             /\ IsNumber(w) /\ w.int = n /\ w.fracDigits > 0
             /\ TruncDiv(w.frac * NsPerSec, 10^w.fracDigits) = subsec
<1> DEFINE Zeros   == {k \in 0..MaxFracDigits : subsec % 10^k = 0}
           trimmed == Max(Zeros)
           f       == subsec \div 10^trimmed
           digits  == MaxFracDigits - trimmed
           whole   == Whole(n)
           w       == [whole EXCEPT !.frac = f, !.fracDigits = digits]
<1>1. MaxFracDigits \in Nat /\ 0 \in 0..MaxFracDigits /\ NsPerSec \in Nat \ {0}
      /\ subsec \in Nat \ {0} /\ subsec < NsPerSec
  BY DigitAssumption, UnitSizesInNat DEF Widths
<1>2. 10^0 = 1
  <2> DEFINE one == 10^0
             ten == 10^MaxFracDigits
  <2>1. one \in Nat \ {0} /\ ten \in Nat \ {0} /\ one * ten = ten
    <3>1. MaxFracDigits - 0 = MaxFracDigits
      BY <1>1
    <3> QED  BY <1>1, <3>1, PowersAreKnown
  <2> HIDE DEF one, ten
  <2>2. one = 1
    BY <2>1
  <2> QED  BY <2>2 DEF one
<1>3. trimmed \in Zeros
  <2>1. 0 \in Zeros
    <3>1. subsec % 1 = 0
      BY <1>1
    <3> QED  BY <1>1, <1>2, <3>1
  <2>2. Zeros \in SUBSET (0..MaxFracDigits) /\ Zeros # {}
    BY <2>1
  <2> HIDE DEF Zeros
  <2> QED  BY <1>1, <2>2, GreatestElement
<1>4. trimmed \in 0..MaxFracDigits /\ subsec % 10^trimmed = 0
  BY <1>3
<1> HIDE DEF trimmed
<1>5. /\ 10^trimmed \in Nat \ {0} /\ 10^digits \in Nat \ {0}
      /\ 10^trimmed * 10^digits = NsPerSec /\ 10^MaxFracDigits = NsPerSec
  BY <1>4, PowersAreKnown
<1>6. f \in Nat /\ subsec = 10^trimmed * f
  BY <1>1, <1>4, <1>5, MultipleHasFactor
<1>7. digits \in Nat /\ digits <= MaxFracDigits
  BY <1>1, <1>4
<1>8. digits > 0
  <2>1. SUFFICES ASSUME trimmed = MaxFracDigits PROVE FALSE
    BY <1>1, <1>4
  <2>2. subsec % NsPerSec = 0
    BY <1>4, <1>5, <2>1
  <2> QED  BY <1>1, <2>2
<1>9. TruncDiv(f * NsPerSec, 10^digits) = subsec
  <2> DEFINE a == 10^digits
             b == 10^trimmed
  <2>1. /\ a \in Nat \ {0} /\ b \in Nat /\ NsPerSec = b * a /\ f \in Nat
        /\ subsec = b * f
    BY <1>5, <1>6
  <2> HIDE DEF a, b, f
  <2>2. f * NsPerSec = a * subsec /\ a * subsec \in Nat
    BY <1>1, <2>1
  <2>3. (a * subsec) \div a = subsec
    BY <1>1, <2>1, FactorGivesMultiple
  <2>4. TruncDiv(a * subsec, a) = (a * subsec) \div a
    BY <2>1, <2>2, TruncOfNat
  <2>5. TruncDiv(f * NsPerSec, a) = subsec
    BY <2>2, <2>3, <2>4
  <2> QED  BY <2>5 DEF a
<1> HIDE DEF f, digits
<1>10. /\ whole.int = n /\ IsNumber(whole)
       /\ whole \in [int : Nat, intDigits : Nat, frac : Nat, fracDigits : Nat]
       /\ whole.frac = 0
  BY WholeIsNumber
<1> HIDE DEF whole
<1>11. /\ w \in [int : Nat, intDigits : Nat, frac : Nat, fracDigits : Nat]
       /\ w.int = n /\ w.intDigits = whole.intDigits /\ w.frac = f /\ w.fracDigits = digits
  BY <1>6, <1>7, <1>10
<1>12. IsNumber(w)
  <2>1. whole.intDigits <= MaxIntDigits /\ whole.intDigits # 0
    BY <1>10 DEF IsNumber
  <2> HIDE DEF w
  <2> QED  BY <1>7, <1>11, <2>1 DEF IsNumber
<1>13. w = WithFraction(n, subsec)
  BY DEF WithFraction, whole, f, digits, trimmed
<1> HIDE DEF w
<1>14. w.fracDigits > 0 /\ TruncDiv(w.frac * NsPerSec, 10^w.fracDigits) = subsec
  BY <1>8, <1>9, <1>11
<1> QED  BY <1>11, <1>12, <1>13, <1>14

LEMMA SecondsAreRead ==
  ASSUME NEW at, NEW negative, NEW total \in Nat, NEW last,
         MayFollow("S", At(at, negative, total, last)),
         NEW n \in 0..MaxInt, NEW subsec \in 1..NsPerSec-1,
         total + n * NsPerSec + subsec <= InstMax
  PROVE  LET t == <<[number |-> WithFraction(n, subsec), byte |-> "S"]>>
         IN  /\ t \in Seq(Written)
             /\ ReadAll({At(at, negative, total, last)}, t)
                  = {Closed(at, negative, total + n * NsPerSec + subsec, "S")}
<1> DEFINE w     == WithFraction(n, subsec)
           token == [number |-> w, byte |-> "S"]
           s     == At(at, negative, total, last)
<1>1. n \in 0..InstMax /\ n <= MaxInt
  <2>1. NsPerSec \in Nat \ {0} /\ InstMax \in Nat /\ MaxInt \in Nat
    BY UnitSizesInNat, WidthAssumption, MaxIntIsNat
  <2>2. n * 1 <= n * NsPerSec /\ n * NsPerSec \in Nat
    BY <2>1, ProductsInOrder
  <2> QED  BY <2>1, <2>2
<1>2. /\ w \in [int : Nat, intDigits : Nat, frac : Nat, fracDigits : Nat]
      /\ IsNumber(w) /\ w.int = n /\ w.fracDigits > 0
      /\ TruncDiv(w.frac * NsPerSec, 10^w.fracDigits) = subsec
  BY <1>1, FractionIsWritten
<1> HIDE DEF w
<1>3. "S" \in DateUnits \cup TimeUnits /\ UnitOf["S"] = NsPerSec /\ "S" \in Bytes
  BY UnitsOfDesignators DEF DateUnits, TimeUnits, Bytes
<1>4. token \in Written
  BY <1>2, <1>3 DEF Written
<1> DEFINE sum == total + w.int * UnitOf["S"] + TruncDiv(w.frac * UnitOf["S"], 10^w.fracDigits)
<1>5. /\ TruncDiv(w.frac * UnitOf["S"], 10^w.fracDigits) \in Nat /\ w.int \in Nat
      /\ sum <= InstMax /\ sum = total + n * NsPerSec + subsec
  BY <1>2, <1>3, UnitSizesInNat
<1>6. ReadToken(s, token) =
        {IF w.fracDigits > 0 THEN Closed(at, negative, sum, "S") ELSE At(at, negative, sum, "S")}
  BY <1>2, <1>3, <1>5, ComponentStep
<1>7. ReadToken(s, token) = {Closed(at, negative, total + n * NsPerSec + subsec, "S")}
  BY <1>2, <1>5, <1>6
<1>8. ReadAll({s}, <<token>>) = {Closed(at, negative, total + n * NsPerSec + subsec, "S")}
  BY <1>7, OneAfterAnother, ZenonT(60)
<1>9. <<token>> \in Seq(Written)
  BY <1>4
<1> QED  BY <1>8, <1>9, Zenon DEF w

-----------------------------------------------------------------------------
(* The time of a duration is the sum of its components. *)
LEMMA TimeSplits ==
  ASSUME NEW rem \in 0..NsPerDay-1
  PROVE  LET h   == rem \div NsPerHour
             m   == (rem % NsPerHour) \div NsPerMin
             s   == (rem % NsPerMin) \div NsPerSec
             sub == rem % NsPerSec
         IN  /\ h \in 0..MaxInt /\ m \in 0..MaxInt /\ s \in 0..MaxInt
             /\ sub \in 0..NsPerSec-1
             /\ rem = h * NsPerHour + m * NsPerMin + s * NsPerSec + sub
<1> DEFINE h    == rem \div NsPerHour
           mins == rem % NsPerHour
           m    == mins \div NsPerMin
           secs == rem % NsPerMin
           s    == secs \div NsPerSec
           sub  == rem % NsPerSec
           some == MaxInt + 1
<1>1. /\ NsPerDay \in Nat \ {0} /\ NsPerHour \in Nat \ {0} /\ NsPerMin \in Nat \ {0}
      /\ NsPerSec \in Nat \ {0} /\ some \in Nat /\ rem \in Nat /\ rem < NsPerDay
      /\ MaxInt \in Nat
  BY UnitSizesInNat, MaxIntIsNat
<1>2. NsPerHour % NsPerMin = 0 /\ NsPerMin % NsPerSec = 0
  <2>1. 4 \in 1..8 /\ 5 \in 1..8 /\ 6 \in 1..8 /\ 4 <= 5 /\ 5 <= 6
    OBVIOUS
  <2>2. UnitSizes[6] % UnitSizes[5] = 0 /\ UnitSizes[5] % UnitSizes[4] = 0
    BY <2>1, UnitsInOrder
  <2>3. UnitSizes[4] = NsPerSec /\ UnitSizes[5] = NsPerMin /\ UnitSizes[6] = NsPerHour
    BY DEF UnitSizes
  <2> QED  BY <2>2, <2>3
<1>3. /\ NsPerDay <= some * NsPerHour /\ NsPerHour <= some * NsPerMin
      /\ NsPerMin <= some * NsPerSec
      /\ some * NsPerHour \in Nat /\ some * NsPerMin \in Nat /\ some * NsPerSec \in Nat
  BY <1>1, DesignatorAssumption
<1>4. some = MaxInt + 1
  OBVIOUS
<1> HIDE DEF some
<1>5. /\ h \in Nat /\ mins \in 0..NsPerHour-1 /\ rem = h * NsPerHour + mins
      /\ \A k \in Nat : rem < k * NsPerHour => h < k
  BY <1>1, SplitByUnit
<1>6. h \in 0..MaxInt
  <2>1. rem < some * NsPerHour
    BY <1>1, <1>3
  <2> QED  BY <1>1, <1>4, <1>5, <2>1
<1>7. mins \in Nat /\ mins < NsPerHour
  BY <1>1, <1>5
<1> HIDE DEF h, mins
<1>8. /\ m \in Nat /\ mins = m * NsPerMin + (mins % NsPerMin)
      /\ \A k \in Nat : mins < k * NsPerMin => m < k
  BY <1>1, <1>7, SplitByUnit
<1> HIDE DEF m
<1>9. m \in 0..MaxInt
  <2>1. mins < some * NsPerMin
    BY <1>1, <1>3, <1>7
  <2>2. m < some
    BY <1>1, <1>8, <2>1, Zenon
  <2> QED  BY <1>1, <1>4, <1>8, <2>2
<1>10. mins % NsPerMin = secs
  BY <1>1, <1>2, RemainderOfRemainder DEF mins
<1>11. secs \in Nat /\ secs < NsPerMin
  BY <1>1
<1> HIDE DEF secs
<1>12. /\ s \in Nat /\ secs = s * NsPerSec + (secs % NsPerSec)
       /\ \A k \in Nat : secs < k * NsPerSec => s < k
  BY <1>1, <1>11, SplitByUnit
<1> HIDE DEF s
<1>13. s \in 0..MaxInt
  <2>1. secs < some * NsPerSec
    BY <1>1, <1>3, <1>11
  <2>2. s < some
    BY <1>1, <1>12, <2>1, Zenon
  <2> QED  BY <1>1, <1>4, <1>12, <2>2
<1>14. secs % NsPerSec = sub
  BY <1>1, <1>2, RemainderOfRemainder DEF secs
<1>15. sub \in 0..NsPerSec-1
  BY <1>1
<1> HIDE DEF sub
<1>16. rem = h * NsPerHour + m * NsPerMin + s * NsPerSec + sub
  <2> DEFINE x == h * NsPerHour
             y == m * NsPerMin
             z == s * NsPerSec
  <2>1. x \in Nat /\ y \in Nat /\ z \in Nat
    BY <1>1, <1>5, <1>8, <1>12
  <2>2. rem = x + mins /\ mins = y + secs /\ secs = z + sub
    BY <1>5, <1>8, <1>10, <1>12, <1>14
  <2> HIDE DEF x, y, z
  <2>3. rem = x + y + z + sub
    BY <1>7, <1>11, <1>15, <2>1, <2>2
  <2> QED  BY <2>3 DEF x, y, z
<1> QED  BY <1>6, <1>9, <1>13, <1>15, <1>16, Zenon DEF h, m, s, sub, mins, secs

LEMMA DesignatorsInTurn ==
  ASSUME NEW negative, NEW total
  PROVE  /\ MayFollow("D", At("date", negative, total, "P"))
         /\ MayFollow("H", At("time", negative, total, "T"))
         /\ \A last \in {"T", "H"} : MayFollow("M", At("time", negative, total, last))
         /\ \A last \in {"T", "H", "M"} : MayFollow("S", At("time", negative, total, last))
         /\ {"D", "H", "M", "S"} \subseteq DateUnits \cup TimeUnits
<1>1. ASSUME NEW at, NEW last
      PROVE  At(at, negative, total, last).at = at /\ At(at, negative, total, last).last = last
  BY DEF At, State
<1> QED  BY <1>1, Places DEF MayFollow, DateUnits, TimeUnits

-----------------------------------------------------------------------------
TimeReads(negative, total, rem) ==
  /\ TimeText(rem) \in Seq(Written)
  /\ \E unit \in TimeUnits : \E r :
       /\ r \in {At("time", negative, total + rem, unit),
                 Closed("time", negative, total + rem, unit)}
       /\ ReadAll({At("time", negative, total, "T")}, TimeText(rem)) = {r}

LEMMA TimeIsRead ==
  ASSUME NEW negative, NEW total \in Nat, NEW rem \in 1..NsPerDay-1, total + rem <= InstMax
  PROVE  TimeReads(negative, total, rem)
<1> DEFINE h    == rem \div NsPerHour
           m    == (rem % NsPerHour) \div NsPerMin
           s    == (rem % NsPerMin) \div NsPerSec
           sub  == rem % NsPerSec
           hours   == Part(h, "H")
           minutes == Part(m, "M")
           seconds == IF sub > 0
                      THEN <<[number |-> WithFraction(s, sub), byte |-> "S"]>>
                      ELSE Part(s, "S")
<1>1. /\ h \in 0..MaxInt /\ m \in 0..MaxInt /\ s \in 0..MaxInt /\ sub \in 0..NsPerSec-1
      /\ rem = h * NsPerHour + m * NsPerMin + s * NsPerSec + sub
  <2>1. NsPerDay \in Nat \ {0} /\ rem \in 0..NsPerDay-1
    BY UnitSizesInNat
  <2> QED  BY <2>1, TimeSplits
<1>2. TimeText(rem) = (hours \o minutes) \o seconds
  BY DEF TimeText
<1> HIDE DEF h, m, s, sub
<1> DEFINE x  == h * NsPerHour
           y  == m * NsPerMin
           z  == s * NsPerSec
           l1 == IF h > 0 THEN "H" ELSE "T"
           l2 == IF m > 0 THEN "M" ELSE l1
<1>3. /\ x \in Nat /\ y \in Nat /\ z \in Nat /\ (h = 0 => x = 0) /\ (m = 0 => y = 0)
      /\ (s = 0 => z = 0) /\ h \in Nat /\ m \in Nat /\ s \in Nat
      /\ h <= MaxInt /\ m <= MaxInt /\ s <= MaxInt /\ rem = x + y + z + sub
      /\ sub \in Nat
  BY <1>1, UnitSizesInNat, MaxIntIsNat
<1>4. UnitOf["H"] = NsPerHour /\ UnitOf["M"] = NsPerMin /\ UnitOf["S"] = NsPerSec
  BY UnitsOfDesignators
<1> DEFINE r0 == At("time", negative, total, "T")
           r1 == At("time", negative, total + x, l1)
           r2 == At("time", negative, total + x + y, l2)
<1>5. hours \in Seq(Written) /\ ReadAll({r0}, hours) = {r1}
  <2>1. MayFollow("H", At("time", negative, total, "T")) /\ "H" \in DateUnits \cup TimeUnits
    BY DesignatorsInTurn
  <2>2. total + h * UnitOf["H"] = total + x /\ total + h * UnitOf["H"] <= InstMax
    <3>1. total + x <= InstMax
      <4> HIDE DEF x, y, z
      <4> QED  BY <1>3, WidthAssumption
    <3> QED  BY <1>4, <3>1
  <2>5. h \in Nat /\ total \in Nat
    BY <1>3
  <2> HIDE DEF r0, x, y, z
  <2>6. total + h * UnitOf["H"] <= InstMax
    BY <2>2
  <2>3. /\ hours \in Seq(Written)
        /\ ReadAll({r0}, hours) =
             IF h <= MaxInt
             THEN {At("time", negative, total + h * UnitOf["H"], IF h > 0 THEN "H" ELSE "T")}
             ELSE {}
    BY <2>1, <2>5, <2>6, PartIsRead, Zenon DEF r0
  <2>4. ReadAll({r0}, hours) = {At("time", negative, total + h * UnitOf["H"], l1)}
    BY <1>3, <2>3, Zenon
  <2> QED  BY <2>2, <2>3, <2>4, Zenon
<1>6. minutes \in Seq(Written) /\ ReadAll({r1}, minutes) = {r2}
  <2>1. MayFollow("M", r1) /\ "M" \in DateUnits \cup TimeUnits
    BY DesignatorsInTurn
  <2> HIDE DEF l1
  <2>2. /\ total + x + m * UnitOf["M"] = total + x + y /\ total + x + m * UnitOf["M"] <= InstMax
        /\ total + x \in Nat
    <3>1. total + x + y <= InstMax /\ total + x \in Nat
      <4> HIDE DEF x, y, z
      <4> QED  BY <1>3, WidthAssumption
    <3> QED  BY <1>4, <3>1
  <2> HIDE DEF x
  <2>5. m \in Nat /\ total + x \in Nat
    BY <1>3, <2>2
  <2> HIDE DEF y, z
  <2>6. total + x + m * UnitOf["M"] <= InstMax /\ MayFollow("M", At("time", negative, total + x, l1))
    BY <2>1, <2>2
  <2>3. /\ minutes \in Seq(Written)
        /\ ReadAll({r1}, minutes) =
             IF m <= MaxInt
             THEN {At("time", negative, total + x + m * UnitOf["M"], IF m > 0 THEN "M" ELSE l1)}
             ELSE {}
    BY <2>1, <2>5, <2>6, PartIsRead, Zenon
  <2>4. ReadAll({r1}, minutes) = {At("time", negative, total + x + m * UnitOf["M"], l2)}
    BY <1>3, <2>3, Zenon
  <2> QED  BY <2>2, <2>3, <2>4, Zenon
<1>7. seconds \in Seq(Written) /\
      \E unit \in TimeUnits : \E r :
        /\ r \in {At("time", negative, total + rem, unit),
                  Closed("time", negative, total + rem, unit)}
        /\ ReadAll({r2}, seconds) = {r}
  <2>1. MayFollow("S", r2) /\ "S" \in DateUnits \cup TimeUnits /\ "S" \in TimeUnits
    BY DesignatorsInTurn DEF TimeUnits
  <2>2. l2 \in TimeUnits \/ (h = 0 /\ m = 0)
    BY <1>3 DEF TimeUnits
  <2> HIDE DEF l2
  <2> DEFINE t2 == total + x + y
  <2>3. t2 \in Nat /\ t2 + z + sub = total + rem /\ t2 + z <= InstMax /\ t2 + z + sub <= InstMax
    <3> HIDE DEF x, y, z
    <3> QED  BY <1>3, WidthAssumption
  <2> HIDE DEF t2
  <2>4. CASE sub > 0
    <3>1. sub \in 1..NsPerSec-1 /\ t2 + s * NsPerSec + sub <= InstMax
      BY <1>1, <1>3, <2>3, <2>4
    <3> DEFINE t == <<[number |-> WithFraction(s, sub), byte |-> "S"]>>
    <3>2. MayFollow("S", At("time", negative, t2, l2))
      BY <2>1 DEF t2
    <3>3. /\ t \in Seq(Written)
          /\ ReadAll({At("time", negative, t2, l2)}, t)
               = {Closed("time", negative, t2 + s * NsPerSec + sub, "S")}
      BY <1>1, <2>3, <3>1, <3>2, SecondsAreRead
    <3>4. seconds = t
      BY <2>4
    <3> HIDE DEF t, seconds
    <3>5. t2 + s * NsPerSec + sub = total + rem
      BY <2>3
    <3>6. ReadAll({r2}, seconds) = {Closed("time", negative, total + rem, "S")}
      BY <3>3, <3>4, <3>5, Zenon DEF t2
    <3> QED  BY <2>1, <3>3, <3>4, <3>6
  <2>5. CASE ~(sub > 0)
    <3>1. sub = 0 /\ seconds = Part(s, "S")
      BY <1>3, <2>5
    <3>2. MayFollow("S", At("time", negative, t2, l2))
      BY <2>1 DEF t2
    <3>3. t2 + s * UnitOf["S"] <= InstMax /\ t2 + s * UnitOf["S"] = total + rem
      <4>1. t2 + z <= InstMax /\ t2 + z = total + rem
        <5> HIDE DEF z
        <5> QED  BY <1>3, <2>3, <3>1
      <4> QED  BY <1>4, <4>1
    <3> HIDE DEF seconds
    <3> DEFINE l3 == IF s > 0 THEN "S" ELSE l2
    <3>4. /\ Part(s, "S") \in Seq(Written)
          /\ ReadAll({At("time", negative, t2, l2)}, Part(s, "S")) =
               IF s <= MaxInt
               THEN {At("time", negative, t2 + s * UnitOf["S"], IF s > 0 THEN "S" ELSE l2)}
               ELSE {}
      <4>1. s \in Nat /\ t2 \in Nat /\ t2 + s * UnitOf["S"] <= InstMax
        BY <1>3, <2>3, <3>3
      <4> HIDE DEF x, y, z
      <4> QED  BY <2>1, <3>2, <4>1, PartIsRead, Zenon
    <3>5. ReadAll({r2}, seconds) = {At("time", negative, total + rem, l3)}
      BY <1>3, <3>1, <3>3, <3>4, Zenon DEF t2
    <3>6. l3 \in TimeUnits
      <4>1. CASE s > 0
        BY <2>1, <4>1
      <4>2. CASE ~(s > 0)
        <5>1. s = 0
          BY <1>3, <4>2
        <5>2. ~(h = 0 /\ m = 0)
          <6> HIDE DEF x, y, z
          <6>1. ~(x = 0 /\ y = 0)
            BY <1>3, <3>1, <5>1
          <6> QED  BY <1>3, <6>1
        <5> QED  BY <2>2, <4>2, <5>2
      <4> QED  BY <4>1, <4>2
    <3> HIDE DEF l3
    <3> QED  BY <3>1, <3>4, <3>5, <3>6
  <2> QED  BY <2>4, <2>5
<1> HIDE DEF hours, minutes, seconds, r0, r1, r2
<1>12. seconds \in Seq(Written)
  BY <1>7
<1>8. hours \o minutes \in Seq(Written)
  BY <1>5, <1>6
<1>9. ReadAll({r0}, hours \o minutes) = {r2}
  <2>1. ReadAll({r0}, hours \o minutes) = ReadAll(ReadAll({r0}, hours), minutes)
    BY <1>5, <1>6, ReadInParts
  <2> QED  BY <1>5, <1>6, <2>1
<1>10. ReadAll({r0}, (hours \o minutes) \o seconds) = ReadAll({r2}, seconds)
  <2> DEFINE front == hours \o minutes
  <2>2. front \in Seq(Written)
    BY <1>8
  <2> HIDE DEF front
  <2>3. ReadAll({r0}, front \o seconds) = ReadAll(ReadAll({r0}, front), seconds)
    BY <1>12, <2>2, ReadInParts
  <2>1. ReadAll({r0}, (hours \o minutes) \o seconds)
          = ReadAll(ReadAll({r0}, hours \o minutes), seconds)
    BY <2>3, Zenon DEF front
  <2> QED  BY <1>9, <2>1
<1>11. (hours \o minutes) \o seconds \in Seq(Written)
  BY <1>7, <1>8
<1> QED  BY <1>2, <1>7, <1>10, <1>11, Zenon DEF r0, TimeReads

-----------------------------------------------------------------------------
LEMMA TwoTokens ==
  ASSUME NEW a, NEW b
  PROVE  <<a>> \o <<b>> = <<a, b>>
<1> DEFINE c == <<a>> \o <<b>>
           e == <<a, b>>
           X == {a, b}
<1>1. c \in Seq(X) /\ Len(c) = 2 /\ c[1] = a /\ c[2] = b
  OBVIOUS
<1>2. e \in Seq(X) /\ Len(e) = 2 /\ e[1] = a /\ e[2] = b
  OBVIOUS
<1> HIDE DEF c, e, X
<1>3. \A i \in 1..2 : c[i] = e[i]
  BY <1>1, <1>2
<1>4. c = e
  BY <1>1, <1>2, <1>3
<1> QED  BY <1>4 DEF c, e

LEMMA HeadIsRead ==
  LET minus == Byte("-")
      p     == Byte("P")
  IN  /\ <<minus, p>> \in Seq(Written) /\ <<p>> \in Seq(Written)
      /\ ReadAll(Ok(Start), <<p>>) = {At("date", FALSE, 0, "P")}
      /\ ReadAll(Ok(Start), <<minus, p>>) = {At("date", TRUE, 0, "P")}
<1>0. PICK no, yes : no = FALSE /\ yes = TRUE
  OBVIOUS
<1> DEFINE minus == Byte("-")
           p     == Byte("P")
           s0    == At("sign", no, 0, "P")
           s1    == At("P", yes, 0, "P")
<1>1. minus \in Written /\ p \in Written
  BY DEF Byte, NoNumber, Written, Bytes
<1>2. minus.byte = "-" /\ p.byte = "P" /\ minus # p /\ minus # Byte("T") /\ p # Byte("T")
  BY DEF Byte
<1>3. Start = s0
  BY <1>0, Zenon DEF Start, At, State
<1>4. ReadToken(s0, p) = {At("date", no, 0, "P")}
  <2>1. ReadP(s0, p) = {At("date", no, 0, "P")}
    <3> DEFINE r == [s0 EXCEPT !.at = "date"]
    <3>1. /\ DOMAIN r = Fields /\ r = [x \in Fields |-> r[x]] /\ r.closed = FALSE
          /\ r.at = "date" /\ r.negative = no /\ r.total = 0 /\ r.last = "P"
          /\ s0.at = "sign"
      BY DEF At, State, Fields
    <3> HIDE DEF s0, r
    <3>2. r = At("date", no, 0, "P")
      <4>1. r = State(r.at, r.negative, r.total, r.last, r.closed)
        BY <3>1, SameFields
      <4> QED  BY <3>1, <4>1, Zenon DEF At
    <3>3. s0.at = "sign" /\ [s0 EXCEPT !.at = "date"] = At("date", no, 0, "P")
      BY <3>1, <3>2 DEF r
    <3> QED  BY <3>3 DEF ReadP, Ok
  <2>2. ReadMinus(s0, p) = {} /\ ReadT(s0, p) = {} /\ ReadComponent(s0, p) = {}
    <3>1. ~MayFollow(p.byte, s0)
      BY <1>2 DEF MayFollow, DateUnits, TimeUnits
    <3> QED  BY <1>2, <3>1 DEF ReadMinus, ReadT, ReadComponent, Err
  <2> QED  BY <2>1, <2>2 DEF ReadToken
<1>5. ReadToken(s0, minus) = {s1}
  <2>1. ReadMinus(s0, minus) = {s1}
    <3> DEFINE r == [s0 EXCEPT !.at = "P", !.negative = yes]
    <3>1. /\ DOMAIN r = Fields /\ r = [x \in Fields |-> r[x]] /\ r.closed = FALSE
          /\ r.at = "P" /\ r.negative = yes /\ r.total = 0 /\ r.last = "P"
          /\ s0.at = "sign"
      BY DEF At, State, Fields
    <3> HIDE DEF s0, r
    <3>2. r = At("P", yes, 0, "P")
      <4>1. r = State(r.at, r.negative, r.total, r.last, r.closed)
        BY <3>1, SameFields
      <4> QED  BY <3>1, <4>1, Zenon DEF At
    <3>3. s0.at = "sign" /\ [s0 EXCEPT !.at = "P", !.negative = TRUE] = s1
      BY <1>0, <3>1, <3>2, Zenon DEF r
    <3> QED  BY <3>3 DEF ReadMinus, Ok
  <2>2. ReadP(s0, minus) = {} /\ ReadT(s0, minus) = {} /\ ReadComponent(s0, minus) = {}
    <3>1. ~MayFollow(minus.byte, s0)
      BY <1>2 DEF MayFollow, DateUnits, TimeUnits
    <3> QED  BY <1>2, <3>1 DEF ReadP, ReadT, ReadComponent, Err
  <2> QED  BY <2>1, <2>2 DEF ReadToken
<1>6. ReadToken(s1, p) = {At("date", yes, 0, "P")}
  <2>1. ReadP(s1, p) = {At("date", yes, 0, "P")}
    <3> DEFINE r == [s1 EXCEPT !.at = "date"]
    <3>1. /\ DOMAIN r = Fields /\ r = [x \in Fields |-> r[x]] /\ r.closed = FALSE
          /\ r.at = "date" /\ r.negative = yes /\ r.total = 0 /\ r.last = "P"
          /\ s1.at = "P"
      BY DEF At, State, Fields
    <3> HIDE DEF s1, r
    <3>2. r = At("date", yes, 0, "P")
      <4>1. r = State(r.at, r.negative, r.total, r.last, r.closed)
        BY <3>1, SameFields
      <4> QED  BY <3>1, <4>1, Zenon DEF At
    <3>3. s1.at = "P" /\ [s1 EXCEPT !.at = "date"] = At("date", yes, 0, "P")
      BY <3>1, <3>2 DEF r
    <3> QED  BY <3>3 DEF ReadP, Ok
  <2>2. ReadMinus(s1, p) = {} /\ ReadT(s1, p) = {} /\ ReadComponent(s1, p) = {}
    <3>1. ~MayFollow(p.byte, s1)
      BY <1>2 DEF MayFollow, DateUnits, TimeUnits
    <3> QED  BY <1>2, <3>1 DEF ReadMinus, ReadT, ReadComponent, Err
  <2> QED  BY <2>1, <2>2 DEF ReadToken
<1> HIDE DEF minus, p, s0, s1
<1>7. /\ ReadAll({s0}, <<p>>) = {At("date", no, 0, "P")}
      /\ ReadAll({s0}, <<minus>>) = {s1}
      /\ ReadAll({s1}, <<p>>) = {At("date", yes, 0, "P")}
  <2>1. ReadAll({s0}, <<p>>) = {At("date", no, 0, "P")}
    BY <1>4, OneAfterAnother, Zenon
  <2>2. ReadAll({s0}, <<minus>>) = {s1}
    BY <1>5, OneAfterAnother, Zenon
  <2>3. ReadAll({s1}, <<p>>) = {At("date", yes, 0, "P")}
    BY <1>6, OneAfterAnother, Zenon
  <2> QED  BY <2>1, <2>2, <2>3
<1>8. <<minus>> \in Seq(Written) /\ <<p>> \in Seq(Written)
      /\ <<minus>> \o <<p>> = <<minus, p>> /\ <<minus, p>> \in Seq(Written)
  <2>1. <<minus>> \in Seq(Written) /\ <<p>> \in Seq(Written) /\ <<minus, p>> \in Seq(Written)
    BY <1>1
  <2>2. <<minus>> \o <<p>> = <<minus, p>>
    BY TwoTokens
  <2> QED  BY <2>1, <2>2
<1>9. ReadAll({s0}, <<minus, p>>) = {At("date", yes, 0, "P")}
  <2>1. ReadAll({s0}, <<minus>> \o <<p>>) = ReadAll(ReadAll({s0}, <<minus>>), <<p>>)
    <3> DEFINE a == <<minus>>
               b == <<p>>
    <3>1. a \in Seq(Written) /\ b \in Seq(Written)
      BY <1>8
    <3> HIDE DEF a, b
    <3>2. ReadAll({s0}, a \o b) = ReadAll(ReadAll({s0}, a), b)
      BY <3>1, ReadInParts
    <3> QED  BY <3>2, Zenon DEF a, b
  <2> QED  BY <1>7, <1>8, <2>1
<1>10. Ok(Start) = {s0}
  BY <1>3 DEF Ok
<1> QED  BY <1>0, <1>7, <1>8, <1>9, <1>10, Zenon DEF minus, p

LEMMA TIsRead ==
  ASSUME NEW negative, NEW total, NEW last, last # "W"
  PROVE  /\ <<Byte("T")>> \in Seq(Written)
         /\ ReadAll({At("date", negative, total, last)}, <<Byte("T")>>)
              = {At("time", negative, total, "T")}
<1> DEFINE s == At("date", negative, total, last)
           t == Byte("T")
           r == At("time", negative, total, "T")
<1>1. t \in Written /\ t.byte = "T" /\ t # Byte("-") /\ t # Byte("P")
  BY DEF Byte, NoNumber, Written, Bytes
<1>2. /\ s.at = "date" /\ s.last = last /\ ~s.closed
      /\ [s EXCEPT !.at = "time", !.last = "T"] = r
  <2> DEFINE q == [s EXCEPT !.at = "time", !.last = "T"]
  <2>1. /\ DOMAIN q = Fields /\ q = [x \in Fields |-> q[x]] /\ q.closed = FALSE
        /\ q.at = "time" /\ q.negative = negative /\ q.total = total /\ q.last = "T"
        /\ s.at = "date" /\ s.last = last /\ ~s.closed
    BY DEF At, State, Fields
  <2> HIDE DEF s, q
  <2>2. q = At("time", negative, total, "T")
    <3>1. q = State(q.at, q.negative, q.total, q.last, q.closed)
      BY <2>1, SameFields
    <3> QED  BY <2>1, <3>1, Zenon DEF At
  <2> QED  BY <2>1, <2>2, Zenon DEF q
<1>3. ~MayFollow(t.byte, s)
  BY <1>1 DEF MayFollow, DateUnits, TimeUnits
<1>4. ReadMinus(s, t) = {} /\ ReadP(s, t) = {} /\ ReadComponent(s, t) = {}
  BY <1>1, <1>3 DEF ReadMinus, ReadP, ReadComponent, Err
<1>5. ReadT(s, t) = {r}
  BY <1>2 DEF ReadT, Ok
<1>6. ReadToken(s, t) = {r}
  BY <1>4, <1>5 DEF ReadToken
<1>7. <<t>> \in Seq(Written)
  BY <1>1
<1> HIDE DEF s, t, r
<1>8. ReadAll({s}, <<t>>) = {r}
  BY <1>6, OneAfterAnother, Zenon
<1> QED  BY <1>7, <1>8, Zenon DEF s, t, r

LEMMA ZeroIsRead ==
  ASSUME NEW negative
  PROVE  LET t == <<[number |-> Whole(0), byte |-> "S"]>>
         IN  /\ t \in Seq(Written)
             /\ ReadAll({At("time", negative, 0, "T")}, t) = {At("time", negative, 0, "S")}
<1>0. PICK none \in Nat : none = 0
  OBVIOUS
<1> DEFINE w     == Whole(0)
           token == [number |-> w, byte |-> "S"]
           s     == At("time", negative, none, "T")
<1>1. /\ IsNumber(w) /\ w.int = 0 /\ w.frac = 0 /\ w.fracDigits = 0
      /\ w \in [int : Nat, intDigits : Nat, frac : Nat, fracDigits : Nat]
  <2>1. 0 \in 0..InstMax /\ 0 <= MaxInt
    BY WidthAssumption, MaxIntIsNat
  <2> QED  BY <2>1, WholeIsNumber
<1> HIDE DEF w
<1>2. /\ UnitOf["S"] = NsPerSec /\ "S" \in DateUnits \cup TimeUnits /\ "S" \in Bytes
      /\ NsPerSec \in Nat /\ InstMax \in Nat
  BY UnitsOfDesignators, UnitSizesInNat, WidthAssumption DEF DateUnits, TimeUnits, Bytes
<1>3. TruncDiv(w.frac * UnitOf["S"], 10^w.fracDigits) = 0
  BY <1>1, <1>2, NoFraction
<1>4. MayFollow("S", s)
  BY DesignatorsInTurn
<1> DEFINE sum == none + w.int * UnitOf["S"] + TruncDiv(w.frac * UnitOf["S"], 10^w.fracDigits)
<1>5. /\ TruncDiv(w.frac * UnitOf["S"], 10^w.fracDigits) \in Nat /\ w.int \in Nat
      /\ sum <= InstMax /\ sum = 0 /\ 0 \in Nat /\ ~(w.fracDigits > 0)
  BY <1>0, <1>1, <1>2, <1>3
<1>6. ReadToken(s, token) =
        {IF w.fracDigits > 0 THEN Closed("time", negative, sum, "S")
         ELSE At("time", negative, sum, "S")}
  <2>1. /\ MayFollow("S", At("time", negative, none, "T")) /\ IsNumber(w) /\ w.int \in Nat
        /\ TruncDiv(w.frac * UnitOf["S"], 10^w.fracDigits) \in Nat
        /\ none + w.int * UnitOf["S"] + TruncDiv(w.frac * UnitOf["S"], 10^w.fracDigits) <= InstMax
        /\ "S" \in DateUnits \cup TimeUnits
    BY <1>1, <1>2, <1>4, <1>5
  <2> QED  BY <2>1, ComponentStep
<1>7. ReadToken(s, token) = {At("time", negative, 0, "S")}
  BY <1>5, <1>6
<1>8. <<token>> \in Seq(Written)
  BY <1>1, <1>2 DEF Written
<1> HIDE DEF s, token
<1>9. ReadAll({s}, <<token>>) = {At("time", negative, 0, "S")}
  BY <1>7, OneAfterAnother, Zenon
<1> QED  BY <1>0, <1>8, <1>9, Zenon DEF s, token, w

LEMMA FinishIsSigned ==
  ASSUME NEW at \in {"date", "time"}, NEW negative, NEW total,
         NEW last \in DateUnits \cup TimeUnits,
         NEW r \in {At(at, negative, total, last), Closed(at, negative, total, last)}
  PROVE  UNION {Finish(s) : s \in {r}} = {IF negative THEN -total ELSE total}
<1>1. r.at = at /\ r.negative = negative /\ r.total = total /\ r.last = last
  BY DEF At, Closed, State
<1>2. last \notin {"P", "T"}
  BY DEF DateUnits, TimeUnits
<1>3. Finish(r) = {IF negative THEN -total ELSE total}
  BY <1>1, <1>2 DEF Finish, Ok
<1> QED  BY <1>3

-----------------------------------------------------------------------------
(* What is written reads as what it was written from, unless the days have *)
(* more digits than are read.  Only the least of the instants is negated   *)
(* out of its range, and no text means it.                                 *)
LEMMA WrittenIsRead ==
  ASSUME NEW d \in -InstMax..InstMax
  PROVE  Parse(Format(d)) = IF UnsignedAbs(d) \div NsPerDay <= MaxInt THEN Ok(d) ELSE Err
<1>0. PICK negative \in BOOLEAN : negative <=> d < 0
  OBVIOUS
<1> DEFINE abs  == UnsignedAbs(d)
           rem  == abs % NsPerDay
           days == abs \div NsPerDay
           head == IF d < 0 THEN <<Byte("-"), Byte("P")>> ELSE <<Byte("P")>>
           date == Part(days, "D")
           time == IF rem > 0 THEN <<Byte("T")>> \o TimeText(rem)
                   ELSE IF abs = 0 THEN <<Byte("T"), [number |-> Whole(0), byte |-> "S"]>>
                   ELSE <<>>
           signed(n) == IF negative THEN -n ELSE n
<1>1. Format(d) = (head \o date) \o time
  BY DEF Format
<1>2. abs \in 0..InstMax /\ abs \in Nat /\ InstMax \in Nat /\ d = signed(abs)
  BY <1>0, WidthAssumption DEF UnsignedAbs, Magnitude
<1> HIDE DEF abs
<1>3. NsPerDay \in Nat \ {0} /\ MaxInt \in Nat
  BY UnitSizesInNat, MaxIntIsNat
<1>4. days \in Nat /\ rem \in 0..NsPerDay-1 /\ abs = days * NsPerDay + rem
      /\ days * NsPerDay \in Nat
  <2>1. days \in Nat /\ rem \in 0..NsPerDay-1 /\ abs = days * NsPerDay + rem
    BY <1>2, <1>3, SplitByUnit
  <2> HIDE DEF days
  <2>2. days * NsPerDay \in Nat
    BY <1>3, <2>1
  <2> QED  BY <2>1, <2>2
<1> HIDE DEF rem, days
<1> DEFINE whole == days * NsPerDay
           unit  == IF days > 0 THEN "D" ELSE "P"
           s0    == At("date", negative, 0, "P")
           s1    == At("date", negative, whole, unit)
<1>5. head \in Seq(Written) /\ ReadAll(Ok(Start), head) = {s0}
  <2>1. CASE d < 0
    <3>1. negative = TRUE /\ head = <<Byte("-"), Byte("P")>>
      BY <1>0, <2>1
    <3> HIDE DEF head
    <3> QED  BY <3>1, HeadIsRead, Zenon
  <2>2. CASE ~(d < 0)
    <3>1. negative = FALSE /\ head = <<Byte("P")>>
      BY <1>0, <2>2
    <3> HIDE DEF head
    <3> QED  BY <3>1, HeadIsRead, Zenon
  <2> QED  BY <2>1, <2>2
<1>6. /\ date \in Seq(Written)
      /\ ReadAll({s0}, date) = IF days <= MaxInt THEN {s1} ELSE {}
  <2>1. PICK none \in Nat : none = 0
    OBVIOUS
  <2>2. /\ MayFollow("D", At("date", negative, none, "P")) /\ "D" \in DateUnits \cup TimeUnits
        /\ UnitOf["D"] = NsPerDay
    BY DesignatorsInTurn, UnitsOfDesignators
  <2>3. none + days * UnitOf["D"] = whole /\ none + days * UnitOf["D"] <= InstMax /\ days \in Nat
    <3>1. whole <= InstMax /\ whole = none + whole
      <4> HIDE DEF whole
      <4>1. abs = whole + rem /\ whole \in Nat
        BY <1>4 DEF whole
      <4> QED  BY <1>2, <1>3, <1>4, <2>1, <4>1
    <3> QED  BY <1>4, <2>2, <3>1
  <2> HIDE DEF whole
  <2>4. /\ Part(days, "D") \in Seq(Written)
        /\ ReadAll({At("date", negative, none, "P")}, Part(days, "D")) =
             IF days <= MaxInt
             THEN {At("date", negative, none + days * UnitOf["D"], IF days > 0 THEN "D" ELSE "P")}
             ELSE {}
    BY <2>2, <2>3, PartIsRead, Zenon
  <2> QED  BY <2>1, <2>3, <2>4, Zenon
<1> DEFINE Ends(x) == UNION {Finish(s) : s \in x}
<1>7. /\ time \in Seq(Written)
      /\ Ends(ReadAll({s1}, time)) = {d}
  <2>1. unit # "W" /\ (days > 0 => unit \in DateUnits \cup TimeUnits)
    BY DEF DateUnits, TimeUnits
  <2>2. whole \in Nat /\ abs = whole + rem /\ (days = 0 => whole = 0)
    BY <1>3, <1>4
  <2> HIDE DEF whole, unit
  <2> DEFINE t  == <<Byte("T")>>
             s2 == At("time", negative, whole, "T")
  <2>3. t \in Seq(Written) /\ ReadAll({s1}, t) = {s2}
    BY <2>1, TIsRead
  <2> HIDE DEF t, s1
  <2>4. CASE rem > 0
    <3>1. rem \in 1..NsPerDay-1 /\ whole + rem <= InstMax
      BY <1>2, <1>3, <1>4, <2>2, <2>4
    <3>2. /\ TimeText(rem) \in Seq(Written)
          /\ \E v \in TimeUnits : \E r :
               /\ r \in {At("time", negative, whole + rem, v), Closed("time", negative, whole + rem, v)}
               /\ ReadAll({s2}, TimeText(rem)) = {r}
      <4>1. whole \in Nat /\ rem \in 1..NsPerDay-1 /\ whole + rem <= InstMax
        BY <2>2, <3>1
      <4>2. TimeReads(negative, whole, rem)
        BY <4>1, TimeIsRead, Zenon
      <4> QED  BY <4>2, Zenon DEF TimeReads
    <3>11. PICK v \in TimeUnits : \E r :
            /\ r \in {At("time", negative, whole + rem, v), Closed("time", negative, whole + rem, v)}
            /\ ReadAll({s2}, TimeText(rem)) = {r}
      BY <3>2
    <3>3. PICK r :
            /\ r \in {At("time", negative, whole + rem, v), Closed("time", negative, whole + rem, v)}
            /\ ReadAll({s2}, TimeText(rem)) = {r}
      BY <3>11
    <3> DEFINE text2 == TimeText(rem)
    <3>4. time = t \o text2 /\ text2 \in Seq(Written)
      BY <2>4, <3>2 DEF t
    <3>5. ReadAll({s2}, text2) = {r}
      BY <3>3
    <3> HIDE DEF text2, time, s2
    <3>6. ReadAll({s1}, t \o text2) = ReadAll(ReadAll({s1}, t), text2)
      BY <2>3, <3>4, ReadInParts
    <3>7. ReadAll({s1}, time) = {r}
      BY <2>3, <3>4, <3>5, <3>6
    <3>8. time \in Seq(Written)
      BY <2>3, <3>4
    <3>9. Ends({r}) = {d}
      <4>1. "time" \in {"date", "time"} /\ v \in DateUnits \cup TimeUnits
        OBVIOUS
      <4>2. Ends({r}) = {IF negative THEN -(whole + rem) ELSE whole + rem}
        BY <3>3, <4>1, FinishIsSigned
      <4> QED  BY <1>2, <2>2, <4>2
    <3> QED  BY <3>7, <3>8, <3>9
  <2>5. CASE ~(rem > 0) /\ abs = 0
    <3> DEFINE zero == <<[number |-> Whole(0), byte |-> "S"]>>
    <3>1. zero \in Seq(Written) /\ whole = 0
      <4>1. whole = 0
        BY <1>3, <1>4, <2>2, <2>5
      <4>2. zero \in Seq(Written)
        BY ZeroIsRead
      <4> QED  BY <4>1, <4>2
    <3>2. ReadAll({s2}, zero) = {At("time", negative, whole, "S")}
      BY <3>1, ZeroIsRead, Zenon
    <3>3. time = t \o zero
      <4> DEFINE z == [number |-> Whole(0), byte |-> "S"]
                 b == Byte("T")
      <4>1. time = <<b, z>>
        BY <2>5
      <4> HIDE DEF z, b, time
      <4>2. <<b>> \o <<z>> = <<b, z>>
        BY TwoTokens
      <4> QED  BY <4>1, <4>2, Zenon DEF z, b, t
    <3> HIDE DEF zero, time, s2
    <3>4. ReadAll({s1}, t \o zero) = ReadAll(ReadAll({s1}, t), zero)
      BY <2>3, <3>1, ReadInParts
    <3> DEFINE r == At("time", negative, whole, "S")
    <3>5. ReadAll({s1}, time) = {r}
      BY <2>3, <3>2, <3>3, <3>4
    <3>6. time \in Seq(Written)
      BY <2>3, <3>1, <3>3
    <3>7. Ends({r}) = {d}
      <4>1. "time" \in {"date", "time"} /\ "S" \in DateUnits \cup TimeUnits
            /\ r \in {At("time", negative, whole, "S"), Closed("time", negative, whole, "S")}
        BY DEF TimeUnits
      <4>2. Ends({r}) = {IF negative THEN -whole ELSE whole}
        BY <4>1, FinishIsSigned
      <4> QED  BY <1>2, <2>5, <3>1, <4>2
    <3> QED  BY <3>5, <3>6, <3>7
  <2>6. CASE ~(rem > 0) /\ abs # 0
    <3>1. rem = 0 /\ days > 0 /\ whole = abs
      BY <1>3, <1>4, <2>2, <2>6
    <3>2. time = <<>> /\ <<>> \in Seq(Written)
      BY <2>6
    <3>3. ReadAll({s1}, time) = {s1}
      BY <3>2, ReadAllOfLittle
    <3>4. Ends({s1}) = {d}
      <4>1. "date" \in {"date", "time"} /\ unit \in DateUnits \cup TimeUnits
            /\ s1 \in {At("date", negative, whole, unit), Closed("date", negative, whole, unit)}
        BY <2>1, <3>1 DEF s1
      <4>2. Ends({s1}) = {IF negative THEN -whole ELSE whole}
        BY <4>1, FinishIsSigned
      <4> QED  BY <1>2, <3>1, <4>2
    <3> QED  BY <3>2, <3>3, <3>4
  <2> QED  BY <2>4, <2>5, <2>6
<1> HIDE DEF head, date, time, s0, s1
<1>8. head \o date \in Seq(Written)
  BY <1>5, <1>6
<1> DEFINE front == head \o date
<1>9. ReadAll(Ok(Start), front) = ReadAll({s0}, date)
  <2>1. ReadAll(Ok(Start), head \o date) = ReadAll(ReadAll(Ok(Start), head), date)
    <3>1. head \in Seq(Written) /\ date \in Seq(Written)
      BY <1>5, <1>6
    <3> QED  BY <3>1, ReadInParts
  <2> QED  BY <1>5, <2>1
<1>10. front \in Seq(Written) /\ Format(d) = front \o time
  BY <1>1, <1>8
<1> HIDE DEF front
<1>11. ReadAll(Ok(Start), Format(d)) = ReadAll(ReadAll({s0}, date), time)
  <2>1. ReadAll(Ok(Start), front \o time) = ReadAll(ReadAll(Ok(Start), front), time)
    BY <1>7, <1>10, ReadInParts
  <2> QED  BY <1>9, <1>10, <2>1
<1>12. CASE days <= MaxInt
  <2>1. Parse(Format(d)) = {d}
    BY <1>6, <1>7, <1>11, <1>12 DEF Parse
  <2> QED  BY <1>12, <2>1 DEF Ok, days, abs
<1>13. CASE ~(days <= MaxInt)
  <2>1. ReadAll({}, time) = {}
    BY <1>7, RefusedReadsNothing
  <2>2. Parse(Format(d)) = {}
    BY <1>6, <1>11, <1>13, <2>1 DEF Parse
  <2> QED  BY <1>13, <2>2 DEF Err, days, abs
<1> QED  BY <1>12, <1>13

(* A caller may write a duration that it read and hand it on: the text is   *)
(* read as the same duration wherever its days have no more digits than     *)
(* digits_opt takes, and refused, never misread, where they have more.      *)
THEOREM ReaderReadsBack == ReaderSpec => []RewritingReadsBack
<1>1. ReaderCounts => RewritingReadsBack
  <2> HAVE ReaderCounts
  <2>1. ASSUME NEW d \in Result PROVE d \in -InstMax..InstMax
    <3>1. PICK s \in scan : d \in Finish(s)
      BY <2>1 DEF Result
    <3>2. Reached(text, s)
      BY DEF ReaderCounts, ReaderInv
    <3>3. s.total \in 0..InstMax
      BY <3>2, TotalIsInst
    <3>4. d = IF s.negative THEN -s.total ELSE s.total
      BY <3>1 DEF Finish, Ok, Err
    <3> QED  BY <3>3, <3>4, WidthAssumption
  <2> QED  BY <2>1, WrittenIsRead DEF RewritingReadsBack
<1> QED  BY <1>1, CountInvariance, PTL

-----------------------------------------------------------------------------
(* The reader goes on in one way, and so it reads what Parse reads.        *)
LEMMA OneWayOn ==
  ASSUME NEW s, NEW token
  PROVE  \E r : ReadToken(s, token) \subseteq {r}
<1>1. CASE token.byte \in DateUnits \cup TimeUnits
  <2> DEFINE n == token.number
             u == UnitOf[token.byte]
             x == TruncDiv(n.frac * u, 10^n.fracDigits)
             sum == s.total + n.int * u + x
  <2>1. AddComponent(s.total, n, u) =
          UNION {CheckedInst(v + x) : v \in CheckedInst(s.total + n.int * u)}
    BY DEF AddComponent
  <2> HIDE DEF n, u, x
  <2>2. \A v \in CheckedInst(s.total + n.int * u) : v = s.total + n.int * u
    BY DEF CheckedInst, Ok, Err
  <2>3. CheckedInst(sum) \subseteq {sum}
    BY DEF CheckedInst, Ok, Err
  <2>4. AddComponent(s.total, n, u) \subseteq {sum}
    BY <2>1, <2>2, <2>3
  <2> HIDE DEF sum
  <2> DEFINE next(v) == [s EXCEPT !.total  = v,
                                  !.last   = token.byte,
                                  !.closed = token.number.fracDigits > 0]
  <2>5. ReadComponent(s, token) \subseteq {next(v) : v \in AddComponent(s.total, n, u)}
    BY Zenon DEF ReadComponent, Err, n, u
  <2> HIDE DEF next
  <2>6. ReadComponent(s, token) \subseteq {next(sum)}
    BY <2>4, <2>5
  <2>7. ReadToken(s, token) = ReadComponent(s, token)
    BY <1>1, OnlyComponents
  <2> QED  BY <2>6, <2>7
<1>2. CASE token.byte \notin DateUnits \cup TimeUnits
  <2>1. ReadComponent(s, token) = {}
    <3>1. ~MayFollow(token.byte, s)
      BY <1>2 DEF MayFollow
    <3> QED  BY <3>1 DEF ReadComponent, Err
  <2> DEFINE minus == Byte("-")
             p     == Byte("P")
             t     == Byte("T")
  <2>2. minus # p /\ minus # t /\ p # t
    <3>1. minus.byte = "-" /\ p.byte = "P" /\ t.byte = "T"
      BY DEF Byte
    <3> HIDE DEF minus, p, t
    <3> QED  BY <3>1
  <2>3. ReadMinus(s, token) = {} \/ token = minus
    BY DEF ReadMinus, Err
  <2>4. ReadP(s, token) = {} \/ token = p
    BY DEF ReadP, Err
  <2>5. ReadT(s, token) = {} \/ token = t
    BY DEF ReadT, Err
  <2> HIDE DEF minus, p, t
  <2>6. \E r : ReadMinus(s, token) \subseteq {r}
    BY Zenon DEF ReadMinus, Ok, Err
  <2>7. \E r : ReadP(s, token) \subseteq {r}
    BY Zenon DEF ReadP, Ok, Err
  <2>8. \E r : ReadT(s, token) \subseteq {r}
    BY Zenon DEF ReadT, Ok, Err
  <2> QED  BY <2>1, <2>2, <2>3, <2>4, <2>5, <2>6, <2>7, <2>8 DEF ReadToken
<1> QED  BY <1>1, <1>2

ReaderIsAFunction ==
  /\ text \in Seq(Tokens)
  /\ scan = ReadAll(Ok(Start), text)
  /\ \E r : scan \subseteq {r}

(* The state machine that the other theorems are about and the function    *)
(* that reads a whole text back are one reader: at every place where a     *)
(* text may end, the caller of parse_duration_iso gets what Parse says.    *)
THEOREM ReaderIsParse == ReaderSpec => [](Result = Parse(text))
<1>1. ReaderInit => ReaderIsAFunction
  <2> SUFFICES ASSUME ReaderInit PROVE ReaderIsAFunction
    OBVIOUS
  <2>1. text = <<>> /\ scan = {Start} /\ Ok(Start) = {Start}
    BY DEF ReaderInit, Ok
  <2>2. ReadAll(Ok(Start), text) = {Start}
    BY <2>1, ReadAllOfLittle
  <2>3. text \in Seq(Tokens)
    BY <2>1
  <2> QED  BY <2>1, <2>2, <2>3 DEF ReaderIsAFunction
<1>2. ReaderIsAFunction /\ [ReaderNext]_readerVars => ReaderIsAFunction'
  <2> SUFFICES ASSUME ReaderIsAFunction, [ReaderNext]_readerVars PROVE ReaderIsAFunction'
    OBVIOUS
  <2>1. CASE ReadOn
    <3>1. PICK token \in Tokens, s \in scan :
            text' = Append(text, token) /\ scan' = ReadToken(s, token)
      BY <2>1 DEF ReadOn
    <3>2. text \in Seq(Tokens) /\ scan = ReadAll(Ok(Start), text) /\ scan = {s}
      BY <3>1 DEF ReaderIsAFunction
    <3> DEFINE one == <<token>>
    <3>3. /\ text' = text \o one /\ text' \in Seq(Tokens) /\ one \in Seq(Tokens)
      <4>1. Append(text, token) = text \o <<token>>
        BY <3>2
      <4>2. Append(text, token) \in Seq(Tokens) /\ <<token>> \in Seq(Tokens)
        BY <3>2
      <4> QED  BY <3>1, <4>1, <4>2
    <3>4. ReadAll({s}, one) = ReadToken(s, token)
      <4>1. ReadAll({s}, one) = ReadOne({s}, token)
        BY ReadAllOfLittle
      <4>2. ReadOne({s}, token) = ReadToken(s, token)
        BY DEF ReadOne
      <4> QED  BY <4>1, <4>2
    <3> HIDE DEF one
    <3>5. ReadAll(Ok(Start), text \o one) = ReadAll(ReadAll(Ok(Start), text), one)
      <4> DEFINE start == Ok(Start)
      <4> HIDE DEF start
      <4>1. ReadAll(start, text \o one) = ReadAll(ReadAll(start, text), one)
        BY <3>2, <3>3, ReadInParts
      <4> QED  BY <4>1 DEF start
    <3>6. scan' = ReadAll(Ok(Start), text')
      BY <3>1, <3>2, <3>3, <3>4, <3>5
    <3>7. \E r : scan' \subseteq {r}
      BY <3>1, OneWayOn
    <3> QED  BY <3>3, <3>6, <3>7 DEF ReaderIsAFunction
  <2>2. CASE AnotherText
    <3>1. text' = <<>> /\ scan' = {Start} /\ Ok(Start) = {Start}
      BY <2>2 DEF AnotherText, Ok
    <3>2. ReadAll(Ok(Start), text') = {Start}
      BY <3>1, ReadAllOfLittle
    <3>3. text' \in Seq(Tokens)
      BY <3>1
    <3> QED  BY <3>1, <3>2, <3>3 DEF ReaderIsAFunction
  <2>3. CASE UNCHANGED readerVars
    BY <2>3 DEF readerVars, ReaderIsAFunction
  <2> QED  BY <2>1, <2>2, <2>3 DEF ReaderNext
<1>3. ReaderIsAFunction => Result = Parse(text)
  BY DEF ReaderIsAFunction, Result, Parse
<1> QED  BY <1>1, <1>2, <1>3, PTL DEF ReaderSpec

=============================================================================
