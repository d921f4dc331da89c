--------------------------- MODULE CalendarProofs ---------------------------
(***************************************************************************)
(* The calendar arithmetic of calendar.rs, proved for every integer: floor *)
(* division is floor division, a day count and a civil date determine each *)
(* other, and the order of day counts is the order of civil dates.         *)
(***************************************************************************)
EXTENDS Calendar, WellFoundedInduction, TLAPS

-----------------------------------------------------------------------------
(* Induction, on sets: a set of natural numbers has a least element, so    *)
(* one that holds 0 and, with each number, the next one holds them all.    *)
LEMMA LeastElement ==
  ASSUME NEW T \in SUBSET Nat, T # {}
  PROVE  \E x \in T : \A y \in T : x <= y
<1> DEFINE Below == {r \in Nat \X Nat : r[1] < r[2]}
<1>1. IsWellFoundedOn(Below, Nat)
  BY NatLessThanWellFounded DEF OpToRel
<1>2. PICK x \in T : \A y \in T : ~(<<y, x>> \in Below)
  BY <1>1, WFMin
<1>3. \A y \in T : ~(y < x)
  BY <1>2
<1> QED  BY <1>3

LEMMA InductiveSet ==
  ASSUME NEW S \in SUBSET Nat, 0 \in S, \A n \in S : n + 1 \in S
  PROVE  S = Nat
<1> SUFFICES ASSUME Nat \ S # {} PROVE FALSE
  OBVIOUS
<1>1. PICK x \in Nat \ S : \A y \in Nat \ S : x <= y
  BY LeastElement
<1>2. x # 0 /\ x - 1 \in Nat /\ x - 1 < x
  BY <1>1
<1>3. x - 1 \in S
  BY <1>1, <1>2
<1> QED  BY <1>1, <1>2, <1>3

(* The divisors the calendar uses.                                         *)
Divisors == {4, 5, 7, 12, 100, 153, 365, 400, 1460, 36524, 146096, 146097}

(* floor_div and floor_mod, built from truncating operators, round down.   *)
LEMMA FloorDivRoundsDown ==
  ASSUME NEW a \in Int, NEW b \in Divisors
  PROVE  /\ FloorDiv(a, b) = a \div b
         /\ FloorMod(a, b) = a % b
BY SMT DEF Divisors, FloorDiv, FloorMod, TruncDiv, TruncRem, Magnitude

(* On a non-negative dividend the truncating quotient is the floor.        *)
LEMMA TruncDivOfNat ==
  ASSUME NEW a \in Int, a >= 0, NEW b \in Divisors
  PROVE  TruncDiv(a, b) = a \div b
BY SMT DEF Divisors, TruncDiv, Magnitude

(* "Remainder zero" means the same under both roundings.                   *)
LEMMA TruncRemZero ==
  ASSUME NEW a \in Int, NEW b \in Divisors
  PROVE  TruncRem(a, b) = 0 <=> a % b = 0
BY SMT DEF Divisors, TruncRem, TruncDiv, Magnitude

-----------------------------------------------------------------------------
(* Division by any positive number.                                        *)
LEMMA DivBounds ==
  ASSUME NEW a \in Nat, NEW b \in Nat \ {0}
  PROVE  /\ a \div b \in Nat
         /\ (a \div b) * b <= a
         /\ a < (a \div b) * b + b
OBVIOUS

LEMMA SameQuotient ==
  ASSUME NEW a \in Int, NEW b \in Nat \ {0}, NEW q \in Int, NEW e \in Int,
         q * b <= a, a < q * b + b, e * b <= a, a < e * b + b
  PROVE  e = q
<1>1. CASE e < q
  <2>1. (e + 1) * b <= q * b /\ (e + 1) * b = e * b + b /\ e * b \in Int /\ q * b \in Int
    BY <1>1
  <2> QED  BY <2>1
<1>2. CASE q < e
  <2>1. (q + 1) * b <= e * b /\ (q + 1) * b = q * b + b /\ e * b \in Int /\ q * b \in Int
    BY <1>2
  <2> QED  BY <2>1
<1> QED  BY <1>1, <1>2

(* The truncated quotient on each side of zero.                            *)
LEMMA TruncOfNat ==
  ASSUME NEW a \in Nat, NEW b \in Nat \ {0}
  PROVE  TruncDiv(a, b) = a \div b /\ TruncRem(a, b) = a - b * (a \div b)
BY SMT DEF TruncDiv, TruncRem, Magnitude

LEMMA TruncOfNegative ==
  ASSUME NEW n \in Nat \ {0}, NEW b \in Nat \ {0}
  PROVE  TruncDiv(-n, b) = -(n \div b) /\ TruncRem(-n, b) = -n + b * (n \div b)
<1>1. Magnitude(-n) = n /\ Magnitude(b) = b /\ -n < 0 /\ ~(b < 0)
  BY DEF Magnitude
<1>2. n \div b \in Nat
  BY DivBounds
<1>3. TruncDiv(-n, b) = -(n \div b)
  BY <1>1 DEF TruncDiv
<1> HIDE DEF TruncDiv
<1>4. b * (-(n \div b)) = -(b * (n \div b)) /\ b * (n \div b) \in Int
  BY <1>2
<1> QED  BY <1>3, <1>4 DEF TruncRem

(* div_euclid and rem_euclid split a number into whole days and a time.    *)
LEMMA EuclidSplits ==
  ASSUME NEW a \in Int, NEW b \in Nat \ {0}
  PROVE  /\ EuclidDiv(a, b) \in Int
         /\ EuclidRem(a, b) \in 0..b-1
         /\ a = EuclidDiv(a, b) * b + EuclidRem(a, b)
<1>1. CASE a \in Nat
  <2> DEFINE q == a \div b
  <2>1. q \in Nat /\ q * b <= a /\ a < q * b + b /\ b * q = q * b /\ q * b \in Int
    BY <1>1, DivBounds
  <2>2. TruncDiv(a, b) = q /\ TruncRem(a, b) = a - b * q
    BY <1>1, TruncOfNat
  <2> HIDE DEF q
  <2>3. ~(a - b * q < 0)
    BY <1>1, <2>1
  <2>4. EuclidDiv(a, b) = q /\ EuclidRem(a, b) = a - b * q
    BY <2>2, <2>3 DEF EuclidDiv, EuclidRem
  <2> QED  BY <1>1, <2>1, <2>4
<1>2. CASE a \notin Nat
  <2> DEFINE n == -a
             q == n \div b
  <2>0. n \in Nat \ {0} /\ a = -n
    BY <1>2
  <2> HIDE DEF n
  <2>1. q \in Nat /\ q * b <= n /\ n < q * b + b /\ b * q = q * b /\ q * b \in Int
    BY <2>0, DivBounds
  <2>2. TruncDiv(a, b) = -q /\ TruncRem(a, b) = -n + b * q
    BY <2>0, TruncOfNegative
  <2> HIDE DEF q
  <2>3. CASE q * b = n
    <3>1. EuclidDiv(a, b) = -q /\ EuclidRem(a, b) = 0
      BY <2>0, <2>1, <2>2, <2>3 DEF EuclidDiv, EuclidRem
    <3>2. (-q) * b = -(q * b)
      BY <2>1
    <3> QED  BY <2>0, <2>1, <2>3, <3>1, <3>2
  <2>4. CASE q * b # n
    <3>1. -n + b * q < 0 /\ b > 0 /\ Magnitude(b) = b
      BY <2>0, <2>1, <2>4 DEF Magnitude
    <3>2. EuclidDiv(a, b) = -q - 1 /\ EuclidRem(a, b) = -n + b * q + b
      BY <2>2, <3>1 DEF EuclidDiv, EuclidRem
    <3>3. (-q - 1) * b = -(q * b) - b
      BY <2>1
    <3> QED  BY <2>0, <2>1, <2>4, <3>2, <3>3
  <2> QED  BY <2>3, <2>4
<1> QED  BY <1>1, <1>2

(* The truncating pair on the non-negative side.                           *)
LEMMA TruncIsNat ==
  ASSUME NEW a \in Nat, NEW b \in Nat \ {0}
  PROVE  TruncDiv(a, b) \in Nat /\ TruncRem(a, b) \in 0..b-1
<1> DEFINE q == a \div b
<1>1. q \in Nat /\ q * b <= a /\ a < q * b + b /\ b * q = q * b /\ q * b \in Int
  BY DivBounds
<1>2. TruncDiv(a, b) = q /\ TruncRem(a, b) = a - b * q
  BY TruncOfNat
<1> HIDE DEF q
<1> QED  BY <1>1, <1>2

(* The timeline pair is floor division, before the epoch and after it.     *)
LEMMA FloorNsRoundsDown ==
  ASSUME NEW a \in Int, NEW b \in Nat \ {0}
  PROVE  /\ a \div b \in Int
         /\ (a \div b) * b <= a /\ a < (a \div b) * b + b
         /\ FloorDivNs(a, b) = a \div b
         /\ FloorRemNs(a, b) = a - (a \div b) * b
<1> DEFINE q == a \div b
<1>1. q \in Int /\ q * b <= a /\ a < q * b + b /\ b * q = q * b /\ q * b \in Int
  OBVIOUS
<1>2. CASE a \in Nat
  <2>1. TruncDiv(a, b) = q /\ TruncRem(a, b) = a - b * q
    BY <1>2, TruncOfNat
  <2> QED  BY <1>1, <1>2, <2>1 DEF FloorDivNs, FloorRemNs
<1>3. CASE a \notin Nat
  <2> DEFINE e == EuclidDiv(a, b)
             r == EuclidRem(a, b)
  <2>1. e \in Int /\ r \in 0..b-1 /\ a = e * b + r
    BY EuclidSplits
  <2>2. FloorDivNs(a, b) = e /\ FloorRemNs(a, b) = r
    BY <1>3 DEF FloorDivNs, FloorRemNs
  <2> HIDE DEF e, r, q
  <2>3. e * b <= a /\ a < e * b + b /\ e * b \in Int
    BY <2>1
  <2>4. e = q
    BY <1>1, <2>1, <2>3, SameQuotient
  <2> QED  BY <1>1, <2>1, <2>2, <2>3, <2>4 DEF q
<1> QED  BY <1>2, <1>3

-----------------------------------------------------------------------------
(* The leap rule with floor remainders, which is how the rest of the proof *)
(* reads it.                                                               *)
LEMMA LeapByFloor ==
  ASSUME NEW year \in Int
  PROVE  IsLeapYear(year) <=>
           year % 4 = 0 /\ (year % 100 # 0 \/ year % 400 = 0)
BY TruncRemZero DEF IsLeapYear, Divisors

(* The shared expressions with floor division.                             *)
YearStart(yoe) == 365 * yoe + (yoe \div 4) - (yoe \div 100)

YearHolding(doe) ==
  (doe - (doe \div 1460) + (doe \div 36524) - (doe \div 146096)) \div 365

MonthStart(mp) == (153 * mp + 2) \div 5

LEMMA DaysBeforeYearByFloor ==
  ASSUME NEW yoe \in Int, yoe >= 0
  PROVE  DaysBeforeYear(yoe) = YearStart(yoe)
BY SMT DEF DaysBeforeYear, YearStart, TruncDiv, Magnitude

LEMMA DaysBeforeMonthByFloor ==
  ASSUME NEW mp \in Int, mp >= 0
  PROVE  DaysBeforeMonth(mp) = MonthStart(mp)
BY SMT DEF DaysBeforeMonth, MonthStart, TruncDiv, Magnitude

LEMMA YearOfEraByFloor ==
  ASSUME NEW doe \in Int, 0 <= doe, doe <= 146096
  PROVE  YearOfEra(doe) = YearHolding(doe)
BY SMT DEF YearOfEra, YearHolding, TruncDiv, Magnitude

(* The correction terms find the year: the day of the era lies in it, and  *)
(* only a leap year has a 366th day.                                       *)
LEMMA YearHoldsDay ==
  ASSUME NEW doe \in Int, 0 <= doe, doe <= 146096
  PROVE  /\ YearHolding(doe) \in Int
         /\ 0 <= YearHolding(doe) /\ YearHolding(doe) <= 399
         /\ 0 <= doe - YearStart(YearHolding(doe))
         /\ doe - YearStart(YearHolding(doe)) <= 365
BY SMTT(60) DEF YearStart, YearHolding

LEMMA LastDayOfYearIsLeap ==
  ASSUME NEW doe \in Int, 0 <= doe, doe <= 146096,
         doe - YearStart(YearHolding(doe)) = 365
  PROVE  /\ (YearHolding(doe) + 1) % 4 = 0
         /\ \/ (YearHolding(doe) + 1) % 100 # 0
            \/ (YearHolding(doe) + 1) % 400 = 0
BY SMTT(60) DEF YearStart, YearHolding

(* And they find the only such year.                                       *)
LEMMA YearOfShortDay ==
  ASSUME NEW yoe \in Int, 0 <= yoe, yoe <= 399,
         NEW doy \in Int, 0 <= doy, doy <= 364
  PROVE  /\ YearHolding(YearStart(yoe) + doy) = yoe
         /\ 0 <= YearStart(yoe) + doy /\ YearStart(yoe) + doy <= 146096
BY SMTT(60) DEF YearStart, YearHolding

LEMMA YearOfLeapDay ==
  ASSUME NEW yoe \in Int, 0 <= yoe, yoe <= 399,
         (yoe + 1) % 4 = 0, (yoe + 1) % 100 # 0 \/ (yoe + 1) % 400 = 0
  PROVE  /\ YearHolding(YearStart(yoe) + 365) = yoe
         /\ 0 <= YearStart(yoe) + 365 /\ YearStart(yoe) + 365 <= 146096
BY SMTT(60) DEF YearStart, YearHolding

(* Months from March: the table 153 m + 2 over 5 and its inverse.          *)
LEMMA MonthHoldsDay ==
  ASSUME NEW doy \in Int, 0 <= doy, doy <= 365,
         NEW mp \in Int, mp = (5 * doy + 2) \div 153
  PROVE  /\ 0 <= mp /\ mp <= 11
         /\ MonthStart(mp) <= doy
         /\ doy < MonthStart(mp + 1)
BY SMT DEF MonthStart

LEMMA MonthOfDay ==
  ASSUME NEW mp \in Int, 0 <= mp, mp <= 11,
         NEW doy \in Int, MonthStart(mp) <= doy, doy < MonthStart(mp + 1)
  PROVE  (5 * doy + 2) \div 153 = mp
BY SMT DEF MonthStart

-----------------------------------------------------------------------------
(* A date counted from March: the era, the year of the era, the month from *)
(* March and the day of the month.  Both conversions pass through it.      *)
LeapFebruary(yoe) ==
  /\ (yoe + 1) % 4 = 0
  /\ \/ (yoe + 1) % 100 # 0
     \/ (yoe + 1) % 400 = 0

IsMarch(era, yoe, mp, day) ==
  /\ era \in Int /\ yoe \in Int /\ mp \in Int /\ day \in Int
  /\ 0 <= yoe /\ yoe <= 399
  /\ 0 <= mp /\ mp <= 11
  /\ 1 <= day /\ MonthStart(mp) + day <= MonthStart(mp + 1)
  /\ MonthStart(mp) + day - 1 <= 365
  /\ MonthStart(mp) + day - 1 = 365 => LeapFebruary(yoe)

DaysOfMarch(era, yoe, mp, day) ==
  era * 146097 + (YearStart(yoe) + (MonthStart(mp) + day - 1)) - 719468

CivilOfMarch(era, yoe, mp, day) ==
  [year  |-> IF mp < 10 THEN yoe + era * 400 ELSE yoe + era * 400 + 1,
   month |-> IF mp < 10 THEN mp + 3 ELSE mp - 9,
   day   |-> day]

LEMMA MarchDayOfEra ==
  ASSUME NEW era, NEW yoe, NEW mp, NEW day, IsMarch(era, yoe, mp, day),
         NEW doe, doe = YearStart(yoe) + (MonthStart(mp) + day - 1)
  PROVE  /\ YearStart(yoe) \in Int /\ MonthStart(mp) \in Int /\ doe \in Int
         /\ 0 <= MonthStart(mp) + day - 1
         /\ 0 <= doe /\ doe <= 146096
         /\ YearHolding(doe) = yoe
<1> DEFINE doy == MonthStart(mp) + day - 1
<1>1. YearStart(yoe) \in Int /\ MonthStart(mp) \in Int
  BY SMT DEF IsMarch, YearStart, MonthStart
<1>2. doy \in Int /\ 0 <= doy /\ doy <= 365
  BY <1>1, SMT DEF IsMarch, MonthStart
<1>3. CASE doy <= 364
  BY <1>1, <1>2, <1>3, YearOfShortDay, SMT DEF IsMarch
<1>4. CASE doy = 365
  <2>1. doe = YearStart(yoe) + 365
    BY <1>4
  <2> QED  BY <1>1, <1>2, <1>4, <2>1, YearOfLeapDay, SMT DEF IsMarch, LeapFebruary
<1>5. doy <= 364 \/ doy = 365
  BY <1>2, SMT
<1> QED  BY <1>3, <1>4, <1>5

(* From the civil side: days_from_civil undoes the shift of the year.      *)
LEMMA EraOfYear ==
  ASSUME NEW era \in Int, NEW yoe \in Int, 0 <= yoe, yoe <= 399
  PROVE  FloorDiv(yoe + era * 400, 400) = era
BY SMT DEF FloorDiv, TruncDiv, TruncRem, Magnitude

LEMMA DaysFromCivilOfMarch ==
  ASSUME NEW era, NEW yoe, NEW mp, NEW day, IsMarch(era, yoe, mp, day),
         NEW c, c = CivilOfMarch(era, yoe, mp, day)
  PROVE  DaysFromCivil(c.year, c.month, c.day) = DaysOfMarch(era, yoe, mp, day)
<1>1. /\ (IF c.month <= 2 THEN c.year - 1 ELSE c.year) = yoe + era * 400
      /\ (IF c.month > 2 THEN c.month - 3 ELSE c.month + 9) = mp
      /\ c.day = day
  BY SMT DEF IsMarch, CivilOfMarch
<1>2. FloorDiv(yoe + era * 400, 400) = era
  BY EraOfYear, SMT DEF IsMarch
<1>3. (yoe + era * 400) - era * 400 = yoe
  BY SMT DEF IsMarch
<1>4. /\ DaysBeforeYear(yoe) = YearStart(yoe)
      /\ DaysBeforeMonth(mp) = MonthStart(mp)
  BY DaysBeforeYearByFloor, DaysBeforeMonthByFloor, SMT DEF IsMarch
<1>5. DaysFromCivil(c.year, c.month, c.day)
        = era * 146097 + (YearStart(yoe) + MonthStart(mp) + day - 1) - 719468
  BY <1>1, <1>2, <1>3, <1>4, SMT DEF DaysFromCivil, DaysPerEra, DaysEpoch
<1>6. YearStart(yoe) \in Int /\ MonthStart(mp) \in Int
  BY SMT DEF IsMarch, YearStart, MonthStart
<1> QED  BY <1>5, <1>6, SMT DEF DaysOfMarch, IsMarch

(* From the day count: civil_from_days finds the era, the year and the     *)
(* month that hold the day.                                                *)
LEMMA MonthOfYearDay ==
  ASSUME NEW doy \in Int, 0 <= doy, doy <= 365
  PROVE  TruncDiv(5 * doy + 2, 153) = (5 * doy + 2) \div 153
BY SMT DEF TruncDiv, Magnitude

LEMMA CivilFromDaysOfMarch ==
  ASSUME NEW era, NEW yoe, NEW mp, NEW day, IsMarch(era, yoe, mp, day)
  PROVE  CivilFromDays(DaysOfMarch(era, yoe, mp, day)) = CivilOfMarch(era, yoe, mp, day)
<1> DEFINE doy == MonthStart(mp) + day - 1
           doe == YearStart(yoe) + doy
           days == DaysOfMarch(era, yoe, mp, day)
<1>1. /\ YearStart(yoe) \in Int /\ MonthStart(mp) \in Int /\ doe \in Int
      /\ 0 <= doe /\ doe <= 146096
      /\ YearHolding(doe) = yoe
  BY MarchDayOfEra
<1>2. /\ doy \in Int /\ 0 <= doy /\ doy <= 365
      /\ MonthStart(mp) <= doy /\ doy < MonthStart(mp + 1)
  BY <1>1, SMT DEF IsMarch, MonthStart
<1> HIDE DEF doe, doy
<1>3. days + 719468 = era * 146097 + doe
  BY <1>1, <1>2, SMT DEF DaysOfMarch, IsMarch, doe, doy
<1>4. FloorDiv(era * 146097 + doe, 146097) = era
  <2>1. (era * 146097 + doe) \div 146097 = era
    BY <1>1, SMT DEF IsMarch
  <2>2. era * 146097 + doe \in Int
    BY <1>1, SMT DEF IsMarch
  <2> QED  BY <2>1, <2>2, FloorDivRoundsDown, SMT DEF Divisors
<1>5. (era * 146097 + doe) - era * 146097 = doe
  BY <1>1, SMT DEF IsMarch
<1>6. YearOfEra(doe) = yoe
  BY <1>1, YearOfEraByFloor, SMT
<1>7. doe - DaysBeforeYear(yoe) = doy
  <2>1. DaysBeforeYear(yoe) = YearStart(yoe)
    BY DaysBeforeYearByFloor, SMT DEF IsMarch
  <2>2. doe - YearStart(yoe) = doy
    BY <1>1, <1>2, SMT DEF doe
  <2> QED  BY <2>1, <2>2, SMT
<1>8. TruncDiv(5 * doy + 2, 153) = mp
  <2>1. (5 * doy + 2) \div 153 = mp
    BY <1>2, MonthOfDay, SMT DEF IsMarch
  <2> QED  BY <1>2, <2>1, MonthOfYearDay, SMT
<1>9. doy - DaysBeforeMonth(mp) + 1 = day
  BY <1>1, DaysBeforeMonthByFloor, SMT DEF doy, IsMarch
<1>10. CivilFromDays(days)
         = [year  |-> IF (IF mp < 10 THEN mp + 3 ELSE mp - 9) <= 2
                      THEN yoe + era * 400 + 1 ELSE yoe + era * 400,
            month |-> IF mp < 10 THEN mp + 3 ELSE mp - 9,
            day   |-> day]
  <2> HIDE DEF days
  <2> QED
    BY <1>3, <1>4, <1>5, <1>6, <1>7, <1>8, <1>9, SMT
       DEF CivilFromDays, DaysEpoch, DaysPerEra
<1> QED  BY <1>10, SMT DEF CivilOfMarch, IsMarch

(* Every day count has a March date.                                       *)
LEMMA MarchOfDays ==
  ASSUME NEW days \in Int
  PROVE  \E era, yoe, mp, day : /\ IsMarch(era, yoe, mp, day)
                                /\ days = DaysOfMarch(era, yoe, mp, day)
<1> DEFINE era == (days + 719468) \div 146097
           doe == (days + 719468) - era * 146097
           yoe == YearHolding(doe)
           doy == doe - YearStart(yoe)
           mp  == (5 * doy + 2) \div 153
           day == doy - MonthStart(mp) + 1
<1>1. era \in Int /\ doe \in Int /\ 0 <= doe /\ doe <= 146096
  BY SMT
<1> HIDE DEF era, doe
<1>2. /\ yoe \in Int /\ 0 <= yoe /\ yoe <= 399
      /\ 0 <= doy /\ doy <= 365
  BY <1>1, YearHoldsDay
<1>3. doy = 365 => LeapFebruary(yoe)
  BY <1>1, LastDayOfYearIsLeap DEF LeapFebruary
<1> HIDE DEF yoe
<1>4. YearStart(yoe) \in Int /\ doy \in Int
  BY <1>1, <1>2, SMT DEF YearStart
<1>5. doe = YearStart(yoe) + doy
  BY <1>1, <1>4, SMT
<1> HIDE DEF doy
<1>6. /\ mp \in Int /\ 0 <= mp /\ mp <= 11
      /\ MonthStart(mp) <= doy /\ doy < MonthStart(mp + 1)
  <2>1. mp \in Int
    BY <1>4, SMT
  <2> QED  BY <1>2, <1>4, <2>1, MonthHoldsDay
<1> HIDE DEF mp
<1>7. MonthStart(mp) \in Int /\ MonthStart(mp + 1) \in Int
  BY <1>6, SMT DEF MonthStart
<1>8. /\ day \in Int /\ 1 <= day
      /\ MonthStart(mp) + day <= MonthStart(mp + 1)
      /\ MonthStart(mp) + day - 1 = doy
  BY <1>4, <1>6, <1>7, SMT
<1> HIDE DEF day
<1>9. IsMarch(era, yoe, mp, day)
  BY <1>1, <1>2, <1>3, <1>6, <1>8, SMT DEF IsMarch
<1>10. days = DaysOfMarch(era, yoe, mp, day)
  <2>1. days = era * 146097 + doe - 719468
    BY <1>1, SMT DEF doe
  <2> QED  BY <2>1, <1>1, <1>5, <1>8, SMT DEF DaysOfMarch
<1> QED  BY <1>9, <1>10

-----------------------------------------------------------------------------
(* A March date is a civil date, and every civil date is one.              *)
LEMMA MonthStarts ==
  /\ MonthStart(0) = 0 /\ MonthStart(1) = 31 /\ MonthStart(2) = 61
  /\ MonthStart(3) = 92 /\ MonthStart(4) = 122 /\ MonthStart(5) = 153
  /\ MonthStart(6) = 184 /\ MonthStart(7) = 214 /\ MonthStart(8) = 245
  /\ MonthStart(9) = 275 /\ MonthStart(10) = 306 /\ MonthStart(11) = 337
  /\ MonthStart(12) = 367
BY SMT DEF MonthStart

LEMMA LeapOfMarch ==
  ASSUME NEW era \in Int, NEW yoe \in Int, 0 <= yoe, yoe <= 399
  PROVE  IsLeapYear(yoe + era * 400 + 1) <=> LeapFebruary(yoe)
<1>1. /\ (yoe + era * 400 + 1) % 4 = (yoe + 1) % 4
      /\ (yoe + era * 400 + 1) % 100 = (yoe + 1) % 100
      /\ (yoe + era * 400 + 1) % 400 = (yoe + 1) % 400
      /\ yoe + era * 400 + 1 \in Int
  BY SMT
<1> QED  BY <1>1, LeapByFloor, SMT DEF LeapFebruary

LEMMA CivilOfMarchIsCivil ==
  ASSUME NEW era, NEW yoe, NEW mp, NEW day, IsMarch(era, yoe, mp, day),
         NEW c, c = CivilOfMarch(era, yoe, mp, day)
  PROVE  c.year \in Int /\ c.month \in Int /\ c.day \in Int
         /\ IsCivil(c.year, c.month, c.day)
<1>1. /\ c.year \in Int /\ c.month \in Int /\ c.day \in Int
      /\ 1 <= c.month /\ c.month <= 12 /\ 1 <= c.day
  BY SMT DEF IsMarch, CivilOfMarch
<1>2. c.day <= DaysInMonth(c.year, c.month)
  <2>1. CASE mp <= 10
    BY <2>1, MonthStarts, SMT DEF IsMarch, CivilOfMarch, DaysInMonth
  <2>2. CASE mp = 11
    <3>1. c.month = 2 /\ c.year = yoe + era * 400 + 1 /\ c.day = day
      BY <2>2, SMT DEF IsMarch, CivilOfMarch
    <3>2. day <= 29 /\ (day = 29 => LeapFebruary(yoe))
      BY <2>2, MonthStarts, SMT DEF IsMarch
    <3>3. day = 29 => IsLeapYear(c.year)
      BY <3>1, <3>2, LeapOfMarch, SMT DEF IsMarch
    <3> QED  BY <3>1, <3>2, <3>3, SMT DEF DaysInMonth, IsMarch
  <2> QED  BY <2>1, <2>2, SMT DEF IsMarch
<1> QED  BY <1>1, <1>2, SMT DEF IsCivil

LEMMA MarchOfCivil ==
  ASSUME NEW year \in Int, NEW month \in Int, NEW day \in Int,
         IsCivil(year, month, day)
  PROVE  \E era, yoe, mp :
           /\ IsMarch(era, yoe, mp, day)
           /\ [year |-> year, month |-> month, day |-> day]
                = CivilOfMarch(era, yoe, mp, day)
<1> DEFINE y   == IF month <= 2 THEN year - 1 ELSE year
           era == y \div 400
           yoe == y - era * 400
           mp  == IF month > 2 THEN month - 3 ELSE month + 9
<1>1. y \in Int /\ (month <= 2 => y = year - 1) /\ (month > 2 => y = year)
  BY SMT
<1> HIDE DEF y
<1>2. era \in Int /\ yoe \in Int /\ 0 <= yoe /\ yoe <= 399 /\ y = yoe + era * 400
  BY <1>1, SMT
<1> HIDE DEF era, yoe
<1>3. month \in 1..12 /\ 1 <= day /\ day <= DaysInMonth(year, month)
  BY SMT DEF IsCivil
<1>4. /\ mp \in Int /\ 0 <= mp /\ mp <= 11
      /\ month = (IF mp < 10 THEN mp + 3 ELSE mp - 9)
      /\ mp < 10 <=> month > 2
  BY <1>3, SMT
<1>5. /\ MonthStart(mp) + day <= MonthStart(mp + 1)
      /\ MonthStart(mp) + day - 1 <= 365
      /\ MonthStart(mp) + day - 1 = 365 => month = 2 /\ IsLeapYear(year)
  <2>1. CASE mp <= 10
    BY <1>3, <1>4, <2>1, MonthStarts, SMT DEF DaysInMonth
  <2>2. CASE mp = 11
    BY <1>3, <1>4, <2>2, MonthStarts, SMT DEF DaysInMonth
  <2> QED  BY <1>4, <2>1, <2>2, SMT
<1>6. MonthStart(mp) + day - 1 = 365 => LeapFebruary(yoe)
  <2> SUFFICES ASSUME MonthStart(mp) + day - 1 = 365
               PROVE  LeapFebruary(yoe)
    OBVIOUS
  <2>1. year = yoe + era * 400 + 1 /\ IsLeapYear(year)
    BY <1>1, <1>2, <1>5, SMT
  <2> QED  BY <1>2, <2>1, LeapOfMarch, SMT
<1>7. IsMarch(era, yoe, mp, day)
  BY <1>2, <1>3, <1>4, <1>5, <1>6, SMT DEF IsMarch
<1>8. year = (IF mp < 10 THEN yoe + era * 400 ELSE yoe + era * 400 + 1)
  BY <1>1, <1>2, <1>3, <1>4, SMT
<1>9. [year |-> year, month |-> month, day |-> day] = CivilOfMarch(era, yoe, mp, day)
  BY <1>4, <1>8, SMT DEF CivilOfMarch
<1> QED  BY <1>7, <1>9

-----------------------------------------------------------------------------
(* civil_from_days yields a valid civil date for every day count, and      *)
(* days_from_civil takes it back to the same day (calendar.rs).            *)
THEOREM DaysRoundTrip ==
  ASSUME NEW days \in Int, NEW c, c = CivilFromDays(days)
  PROVE  /\ c.year \in Int /\ c.month \in Int /\ c.day \in Int
         /\ IsCivil(c.year, c.month, c.day)
         /\ DaysFromCivil(c.year, c.month, c.day) = days
<1>1. PICK era, yoe, mp, day : IsMarch(era, yoe, mp, day)
                               /\ days = DaysOfMarch(era, yoe, mp, day)
  BY MarchOfDays
<1>2. c = CivilOfMarch(era, yoe, mp, day)
  BY <1>1, CivilFromDaysOfMarch
<1> QED  BY <1>1, <1>2, CivilOfMarchIsCivil, DaysFromCivilOfMarch

(* days_from_civil loses nothing: every valid civil date of every year is  *)
(* what civil_from_days shows for its day count (calendar.rs).             *)
THEOREM CivilRoundTrips ==
  ASSUME NEW year \in Int, NEW month \in Int, NEW day \in Int,
         IsCivil(year, month, day)
  PROVE  /\ DaysFromCivil(year, month, day) \in Int
         /\ CivilFromDays(DaysFromCivil(year, month, day))
              = [year |-> year, month |-> month, day |-> day]
<1>1. PICK era, yoe, mp :
        /\ IsMarch(era, yoe, mp, day)
        /\ [year |-> year, month |-> month, day |-> day]
             = CivilOfMarch(era, yoe, mp, day)
  BY MarchOfCivil
<1>2. DaysFromCivil(year, month, day) = DaysOfMarch(era, yoe, mp, day)
  BY <1>1, DaysFromCivilOfMarch
<1>3. DaysOfMarch(era, yoe, mp, day) \in Int
  BY <1>1, SMT DEF DaysOfMarch, IsMarch, YearStart, MonthStart
<1> QED  BY <1>1, <1>2, <1>3, CivilFromDaysOfMarch

-----------------------------------------------------------------------------
(* The order of day counts.  Counted from March, a year ends before the    *)
(* next one starts and a month before the next month.                      *)
LEMMA MonthStartsInOrder ==
  ASSUME NEW m \in Int, NEW n \in Int, 0 <= m, m < n
  PROVE  /\ MonthStart(m) \in Int /\ MonthStart(n) \in Int
         /\ MonthStart(m + 1) <= MonthStart(n)
BY SMT DEF MonthStart

LEMMA YearEnds ==
  ASSUME NEW yoe \in Int, 0 <= yoe, yoe <= 399,
         NEW doy \in Int, doy <= 365, doy = 365 => LeapFebruary(yoe)
  PROVE  /\ YearStart(yoe) \in Int /\ YearStart(yoe + 1) \in Int
         /\ YearStart(yoe) + doy < YearStart(yoe + 1) + (IF yoe = 399 THEN 1 ELSE 0)
BY SMT DEF YearStart, LeapFebruary

LEMMA YearStartsInOrder ==
  ASSUME NEW y \in Int, NEW z \in Int, 0 <= y, y <= z
  PROVE  YearStart(y) \in Int /\ YearStart(z) \in Int /\ YearStart(y) <= YearStart(z)
BY SMT DEF YearStart

LEMMA MarchOrder ==
  ASSUME NEW e1, NEW y1, NEW m1, NEW d1, IsMarch(e1, y1, m1, d1),
         NEW e2, NEW y2, NEW m2, NEW d2, IsMarch(e2, y2, m2, d2),
         \/ y1 + e1 * 400 < y2 + e2 * 400
         \/ y1 + e1 * 400 = y2 + e2 * 400 /\ m1 < m2
  PROVE  DaysOfMarch(e1, y1, m1, d1) < DaysOfMarch(e2, y2, m2, d2)
<1> DEFINE doy1 == MonthStart(m1) + d1 - 1
           doy2 == MonthStart(m2) + d2 - 1
           s1   == YearStart(y1)
           s2   == YearStart(y2)
<1>1. /\ s1 \in Int /\ doy1 \in Int /\ s1 + doy1 <= 146096
      /\ s2 \in Int /\ doy2 \in Int /\ s2 + doy2 >= 0 /\ doy2 >= 0
  <2>1. /\ s1 \in Int /\ MonthStart(m1) \in Int /\ s1 + doy1 <= 146096
        /\ s2 \in Int /\ MonthStart(m2) \in Int /\ s2 + doy2 >= 0 /\ doy2 >= 0
    BY MarchDayOfEra
  <2> QED  BY <2>1, SMT DEF IsMarch
<1>2. /\ e1 \in Int /\ y1 \in Int /\ m1 \in Int /\ d1 \in Int
      /\ e2 \in Int /\ y2 \in Int /\ m2 \in Int /\ d2 \in Int
      /\ 0 <= y1 /\ y1 <= 399 /\ 0 <= y2 /\ y2 <= 399
      /\ 0 <= m1 /\ 1 <= d2 /\ MonthStart(m1) + d1 <= MonthStart(m1 + 1)
      /\ doy1 <= 365 /\ (doy1 = 365 => LeapFebruary(y1))
  BY DEF IsMarch
<1>3. CASE e1 < e2
  <2> HIDE DEF s1, s2, doy1, doy2
  <2>1. e1 * 146097 + (s1 + doy1) - 719468 < e2 * 146097 + (s2 + doy2) - 719468
    BY <1>1, <1>2, <1>3, SMT
  <2> QED  BY <2>1 DEF DaysOfMarch, s1, s2, doy1, doy2
<1>4. CASE e1 = e2 /\ y1 < y2
  <2>1. YearStart(y1 + 1) \in Int /\ s1 + doy1 < YearStart(y1 + 1)
    <3>1. y1 # 399
      BY <1>2, <1>4, SMT
    <3> HIDE DEF doy1
    <3> QED  BY <1>1, <1>2, <3>1, YearEnds
  <2>2. YearStart(y1 + 1) <= s2
    BY <1>2, <1>4, YearStartsInOrder, SMT
  <2> HIDE DEF s1, s2, doy1, doy2
  <2>3. e1 * 146097 + (s1 + doy1) - 719468 < e2 * 146097 + (s2 + doy2) - 719468
    BY <1>1, <1>2, <1>4, <2>1, <2>2, SMT
  <2> QED  BY <2>3 DEF DaysOfMarch, s1, s2, doy1, doy2
<1>5. CASE e1 = e2 /\ y1 = y2 /\ m1 < m2
  <2>1. doy1 < doy2
    BY <1>2, <1>5, MonthStartsInOrder, SMT
  <2> HIDE DEF s1, s2, doy1, doy2
  <2>2. e1 * 146097 + (s1 + doy1) - 719468 < e2 * 146097 + (s2 + doy2) - 719468
    BY <1>1, <1>2, <1>5, <2>1, SMT DEF s1, s2
  <2> QED  BY <2>2 DEF DaysOfMarch, s1, s2, doy1, doy2
<1> QED  BY <1>2, <1>3, <1>4, <1>5, SMT

(* The order of months is the order of their days.                         *)
LEMMA MonthsInOrder ==
  ASSUME NEW y1 \in Int, NEW m1 \in Int, NEW d1 \in Int, IsCivil(y1, m1, d1),
         NEW y2 \in Int, NEW m2 \in Int, NEW d2 \in Int, IsCivil(y2, m2, d2),
         y1 * 12 + m1 < y2 * 12 + m2
  PROVE  DaysFromCivil(y1, m1, d1) < DaysFromCivil(y2, m2, d2)
<1>1. PICK e1, z1, n1 : /\ IsMarch(e1, z1, n1, d1)
                        /\ [year |-> y1, month |-> m1, day |-> d1]
                             = CivilOfMarch(e1, z1, n1, d1)
  BY MarchOfCivil
<1>2. PICK e2, z2, n2 : /\ IsMarch(e2, z2, n2, d2)
                        /\ [year |-> y2, month |-> m2, day |-> d2]
                             = CivilOfMarch(e2, z2, n2, d2)
  BY MarchOfCivil
<1>3. /\ DaysFromCivil(y1, m1, d1) = DaysOfMarch(e1, z1, n1, d1)
      /\ DaysFromCivil(y2, m2, d2) = DaysOfMarch(e2, z2, n2, d2)
  BY <1>1, <1>2, DaysFromCivilOfMarch
<1>4. /\ y1 = (IF n1 < 10 THEN z1 + e1 * 400 ELSE z1 + e1 * 400 + 1)
      /\ m1 = (IF n1 < 10 THEN n1 + 3 ELSE n1 - 9)
  BY <1>1, SMT DEF CivilOfMarch
<1>5. /\ y2 = (IF n2 < 10 THEN z2 + e2 * 400 ELSE z2 + e2 * 400 + 1)
      /\ m2 = (IF n2 < 10 THEN n2 + 3 ELSE n2 - 9)
  BY <1>2, SMT DEF CivilOfMarch
<1>6. \/ z1 + e1 * 400 < z2 + e2 * 400
      \/ z1 + e1 * 400 = z2 + e2 * 400 /\ n1 < n2
  <2>1. /\ e1 \in Int /\ z1 \in Int /\ n1 \in Int /\ 0 <= n1 /\ n1 <= 11
        /\ e2 \in Int /\ z2 \in Int /\ n2 \in Int /\ 0 <= n2 /\ n2 <= 11
    BY <1>1, <1>2 DEF IsMarch
  <2> QED  BY <1>4, <1>5, <2>1, SMT
<1> QED  BY <1>1, <1>2, <1>3, <1>6, MarchOrder

-----------------------------------------------------------------------------
(* days_from_civil without its eras: the days before a March year, before  *)
(* a month of it, and the days of the month.                               *)
DaysBeforeMarch(y) == 365 * y + (y \div 4) - (y \div 100) + (y \div 400)

MarchYear(year, month)  == IF month <= 2 THEN year - 1 ELSE year
MarchMonth(month)       == IF month > 2 THEN month - 3 ELSE month + 9

DayCount(start, months, day) == start + months + day - 1 - 719468

LEMMA DaysFromCivilByFloor ==
  ASSUME NEW year \in Int, NEW month \in 1..12, NEW day \in Int
  PROVE  /\ DaysBeforeMarch(MarchYear(year, month)) \in Int
         /\ MonthStart(MarchMonth(month)) \in Int
         /\ DaysFromCivil(year, month, day)
              = DayCount(DaysBeforeMarch(MarchYear(year, month)),
                         MonthStart(MarchMonth(month)), day)
<1> DEFINE y   == MarchYear(year, month)
           mp  == MarchMonth(month)
           era == y \div 400
           yoe == y - era * 400
<1>1. y \in Int /\ mp \in Int /\ 0 <= mp /\ mp <= 11
  BY SMT DEF MarchYear, MarchMonth
<1> HIDE DEF y, mp
<1>2. era \in Int /\ yoe \in Int /\ 0 <= yoe /\ yoe <= 399
  BY <1>1, SMT
<1>3. FloorDiv(y, 400) = era
  BY <1>1, FloorDivRoundsDown, SMT DEF Divisors
<1>4. /\ DaysBeforeYear(yoe) = YearStart(yoe)
      /\ DaysBeforeMonth(mp) = MonthStart(mp)
  BY <1>1, <1>2, DaysBeforeYearByFloor, DaysBeforeMonthByFloor
<1>5. era * 146097 + YearStart(yoe) = DaysBeforeMarch(y)
  <2>1. y = yoe + 400 * era
    BY <1>1, <1>2, SMT
  <2> HIDE DEF era, yoe
  <2>2. /\ y \div 4 = (yoe \div 4) + 100 * era
        /\ y \div 100 = (yoe \div 100) + 4 * era
        /\ y \div 400 = era
    BY <1>2, <2>1, SMT
  <2> QED  BY <1>2, <2>1, <2>2, SMT DEF YearStart, DaysBeforeMarch
<1>6. /\ YearStart(yoe) \in Int /\ MonthStart(mp) \in Int
      /\ DaysBeforeMarch(y) \in Int
  BY <1>1, <1>2, SMT DEF YearStart, MonthStart, DaysBeforeMarch
<1>7. DaysFromCivil(year, month, day)
        = era * 146097 + (DaysBeforeYear(yoe) + DaysBeforeMonth(mp) + day - 1) - 719468
  <2>1. /\ MarchYear(year, month) = IF month <= 2 THEN year - 1 ELSE year
        /\ MarchMonth(month) = IF month > 2 THEN month - 3 ELSE month + 9
    BY DEF MarchYear, MarchMonth
  <2> QED  BY <1>3, <2>1, SMT DEF DaysFromCivil, DaysPerEra, DaysEpoch, y, mp, yoe
<1> HIDE DEF era, yoe
<1>8. era * 146097 + (YearStart(yoe) + MonthStart(mp) + day - 1) - 719468
        = DayCount(DaysBeforeMarch(y), MonthStart(mp), day)
  BY <1>2, <1>5, <1>6, SMT DEF DayCount
<1>9. DaysFromCivil(year, month, day) = DayCount(DaysBeforeMarch(y), MonthStart(mp), day)
  BY <1>4, <1>7, <1>8, SMT
<1> QED  BY <1>6, <1>9 DEF y, mp

(* The days of a month follow each other.                                  *)
LEMMA DaysOfMonth ==
  ASSUME NEW year \in Int, NEW month \in 1..12, NEW day \in Int
  PROVE  /\ DaysFromCivil(year, month, day) \in Int
         /\ DaysFromCivil(year, month, 1) \in Int
         /\ DaysFromCivil(year, month, day) = DaysFromCivil(year, month, 1) + day - 1
<1> DEFINE s == DaysBeforeMarch(MarchYear(year, month))
           m == MonthStart(MarchMonth(month))
<1>1. /\ s \in Int /\ m \in Int
      /\ \A k \in Int : DaysFromCivil(year, month, k) = DayCount(s, m, k)
  BY DaysFromCivilByFloor
<1> HIDE DEF s, m
<1>2. /\ DaysFromCivil(year, month, day) = DayCount(s, m, day)
      /\ DaysFromCivil(year, month, 1) = DayCount(s, m, 1)
  BY <1>1
<1> QED  BY <1>1, <1>2, SMT DEF DayCount

(* A month ends where the next one starts.                                 *)
LEMMA MonthTurns ==
  ASSUME NEW year \in Int, NEW month \in 1..11
  PROVE  DaysFromCivil(year, month + 1, 1)
           = DaysFromCivil(year, month, 1) + DaysInMonth(year, month)
<1> DEFINE s == DaysBeforeMarch(MarchYear(year, month))
           m == MonthStart(MarchMonth(month))
           t == DaysBeforeMarch(MarchYear(year, month + 1))
           n == MonthStart(MarchMonth(month + 1))
<1>1. /\ s \in Int /\ m \in Int
      /\ DaysFromCivil(year, month, 1) = DayCount(s, m, 1)
  <2>1. month \in 1..12 /\ 1 \in Int
    BY SMT
  <2> QED  BY <2>1, DaysFromCivilByFloor
<1>2. /\ t \in Int /\ n \in Int
      /\ DaysFromCivil(year, month + 1, 1) = DayCount(t, n, 1)
  <2>1. month + 1 \in 1..12 /\ 1 \in Int
    BY SMT
  <2> QED  BY <2>1, DaysFromCivilByFloor
<1>3. CASE month # 2
  <2>1. MarchYear(year, month + 1) = MarchYear(year, month)
    BY <1>3, SMT DEF MarchYear
  <2>2. n - m = DaysInMonth(year, month)
    BY <1>3, MonthStarts, SMT DEF MarchMonth, DaysInMonth
  <2> HIDE DEF s, m, t, n
  <2>3. s = t
    BY <2>1 DEF s, t
  <2> QED  BY <1>1, <1>2, <2>2, <2>3, SMT DEF DayCount
<1>4. CASE month = 2
  <2>1. m = 337 /\ n = 0
    BY <1>4, MonthStarts, SMT DEF MarchMonth
  <2>2. t - s = DaysInMonth(year, month) + 337
    <3>1. s = DaysBeforeMarch(year - 1) /\ t = DaysBeforeMarch(year)
      BY <1>4, SMT DEF MarchYear
    <3>2. DaysBeforeMarch(year) - DaysBeforeMarch(year - 1)
            = IF year % 4 = 0 /\ (year % 100 # 0 \/ year % 400 = 0) THEN 366 ELSE 365
      BY SMT DEF DaysBeforeMarch
    <3>3. DaysInMonth(year, month) = IF IsLeapYear(year) THEN 29 ELSE 28
      BY <1>4 DEF DaysInMonth
    <3> HIDE DEF s, t
    <3> QED  BY <3>1, <3>2, <3>3, LeapByFloor, SMT
  <2> HIDE DEF s, m, t, n
  <2>3. DaysInMonth(year, month) \in Int
    BY <1>4, SMT DEF DaysInMonth
  <2> QED  BY <1>1, <1>2, <2>1, <2>2, <2>3, SMT DEF DayCount
<1> QED  BY <1>3, <1>4

LEMMA YearTurns ==
  ASSUME NEW year \in Int
  PROVE  DaysFromCivil(year + 1, 1, 1) = DaysFromCivil(year, 12, 1) + 31
<1>1. /\ MarchYear(year, 12) = year /\ MarchMonth(12) = 9
      /\ MarchYear(year + 1, 1) = year /\ MarchMonth(1) = 10
  BY SMT DEF MarchYear, MarchMonth
<1>2. 12 \in 1..12 /\ 1 \in 1..12 /\ 1 \in Int /\ year + 1 \in Int
  BY SMT
<1>3. /\ DaysBeforeMarch(year) \in Int
      /\ DaysFromCivil(year, 12, 1) = DayCount(DaysBeforeMarch(year), MonthStart(9), 1)
  BY <1>1, <1>2, DaysFromCivilByFloor
<1>4. DaysFromCivil(year + 1, 1, 1) = DayCount(DaysBeforeMarch(year), MonthStart(10), 1)
  BY <1>1, <1>2, DaysFromCivilByFloor
<1> QED  BY <1>3, <1>4, MonthStarts, SMT DEF DayCount

(* A year has the days of its months.                                      *)
LEMMA YearLength ==
  ASSUME NEW year \in Int
  PROVE  DaysFromCivil(year + 1, 1, 1) = DaysFromCivil(year, 1, 1) + DaysInYear(year)
<1> DEFINE start(m) == DaysFromCivil(year, m, 1)
           len(m)   == DaysInMonth(year, m)
           feb      == IF IsLeapYear(year) THEN 29 ELSE 28
<1>1. /\ len(1) = 31 /\ len(2) = feb /\ len(3) = 31 /\ len(4) = 30 /\ len(5) = 31
      /\ len(6) = 30 /\ len(7) = 31 /\ len(8) = 31 /\ len(9) = 30 /\ len(10) = 31
      /\ len(11) = 30
  BY SMT DEF DaysInMonth
<1>2. \A m \in 1..11 : start(m + 1) = start(m) + len(m)
  BY MonthTurns
<1>3. \A m \in 1..12 : start(m) \in Int
  <2>1. 1 \in Int
    BY SMT
  <2> QED  BY <2>1, DaysOfMonth
<1>4. DaysFromCivil(year + 1, 1, 1) = start(12) + 31
  BY YearTurns
<1>5. DaysInYear(year) = 337 + feb /\ feb \in Int
  BY SMT DEF DaysInYear
<1> HIDE DEF start, len, feb
<1>6. /\ start(2) = start(1) + 31 /\ start(3) = start(2) + feb
      /\ start(4) = start(3) + 31 /\ start(5) = start(4) + 30
      /\ start(6) = start(5) + 31 /\ start(7) = start(6) + 30
      /\ start(8) = start(7) + 31 /\ start(9) = start(8) + 31
      /\ start(10) = start(9) + 30 /\ start(11) = start(10) + 31
      /\ start(12) = start(11) + 30
  BY <1>1, <1>2, SMT
<1>7. start(1) \in Int
  BY <1>3, SMT
<1>8. start(12) = start(1) + 306 + feb
  BY <1>5, <1>6, <1>7, SMT
<1> QED  BY <1>4, <1>5, <1>7, <1>8, SMT DEF start

(* A month starts before any day of it and of the months that follow.      *)
LEMMA MonthStartsFirst ==
  ASSUME NEW y1 \in Int, NEW m1 \in 1..12,
         NEW y2 \in Int, NEW m2 \in Int, NEW d2 \in Int, IsCivil(y2, m2, d2),
         y1 * 12 + m1 <= y2 * 12 + m2
  PROVE  DaysFromCivil(y1, m1, 1) <= DaysFromCivil(y2, m2, d2)
<1>1. m2 \in 1..12 /\ 1 <= d2
  BY SMT DEF IsCivil
<1>2. IsCivil(y1, m1, 1) /\ m1 \in Int /\ 1 \in Int
  BY SMT DEF IsCivil, DaysInMonth
<1>3. /\ DaysFromCivil(y1, m1, 1) \in Int /\ DaysFromCivil(y2, m2, d2) \in Int
      /\ DaysFromCivil(y2, m2, 1) \in Int
      /\ DaysFromCivil(y2, m2, d2) = DaysFromCivil(y2, m2, 1) + d2 - 1
  BY <1>1, <1>2, DaysOfMonth
<1>4. CASE y1 * 12 + m1 < y2 * 12 + m2
  BY <1>2, <1>3, <1>4, MonthsInOrder, SMT
<1>5. CASE y1 * 12 + m1 = y2 * 12 + m2
  <2>1. y1 = y2 /\ m1 = m2
    BY <1>1, <1>5, SMT
  <2> QED  BY <1>1, <1>3, <2>1, SMT
<1> QED  BY <1>1, <1>4, <1>5, SMT

(* Civil dates in order are so as day counts, and the other way round.      *)
LEMMA CivilsInOrder ==
  ASSUME NEW y1 \in Int, NEW m1 \in Int, NEW e1 \in Int, IsCivil(y1, m1, e1),
         NEW y2 \in Int, NEW m2 \in Int, NEW e2 \in Int, IsCivil(y2, m2, e2),
         \/ y1 * 12 + m1 < y2 * 12 + m2
         \/ y1 * 12 + m1 = y2 * 12 + m2 /\ e1 <= e2
  PROVE  DaysFromCivil(y1, m1, e1) <= DaysFromCivil(y2, m2, e2)
<1>1. m1 \in 1..12 /\ m2 \in 1..12 /\ 1 \in Int
  BY SMT DEF IsCivil
<1>2. /\ DaysFromCivil(y1, m1, e1) \in Int /\ DaysFromCivil(y1, m1, 1) \in Int
      /\ DaysFromCivil(y1, m1, e1) = DaysFromCivil(y1, m1, 1) + e1 - 1
      /\ DaysFromCivil(y2, m2, e2) \in Int
      /\ DaysFromCivil(y2, m2, e2) = DaysFromCivil(y2, m2, 1) + e2 - 1
  BY <1>1, DaysOfMonth, ZenonT(60)
<1>3. CASE y1 * 12 + m1 < y2 * 12 + m2
  BY <1>2, <1>3, MonthsInOrder, SMT
<1>4. CASE y1 * 12 + m1 = y2 * 12 + m2 /\ e1 <= e2
  <2>1. y1 = y2 /\ m1 = m2
    BY <1>1, <1>4, SMT
  <2> QED  BY <1>2, <1>4, <2>1, SMT
<1> QED  BY <1>3, <1>4

(* Dates in order are in months in order, and within one month their days  *)
(* are.                                                                    *)
LEMMA CivilOrder ==
  ASSUME NEW y1 \in Int, NEW m1 \in Int, NEW e1 \in Int, IsCivil(y1, m1, e1),
         NEW y2 \in Int, NEW m2 \in Int, NEW e2 \in Int, IsCivil(y2, m2, e2),
         DaysFromCivil(y1, m1, e1) <= DaysFromCivil(y2, m2, e2)
  PROVE  /\ y1 * 12 + m1 <= y2 * 12 + m2
         /\ y1 * 12 + m1 = y2 * 12 + m2 => e1 <= e2
<1>1. m1 \in 1..12 /\ m2 \in 1..12 /\ 1 \in Int
  BY SMT DEF IsCivil
<1>2. /\ DaysFromCivil(y1, m1, e1) \in Int /\ DaysFromCivil(y1, m1, 1) \in Int
      /\ DaysFromCivil(y1, m1, e1) = DaysFromCivil(y1, m1, 1) + e1 - 1
      /\ DaysFromCivil(y2, m2, e2) \in Int
      /\ DaysFromCivil(y2, m2, e2) = DaysFromCivil(y2, m2, 1) + e2 - 1
  BY <1>1, DaysOfMonth
<1>3. ~(y2 * 12 + m2 < y1 * 12 + m1)
  <2> SUFFICES ASSUME y2 * 12 + m2 < y1 * 12 + m1 PROVE FALSE
    OBVIOUS
  <2>1. DaysFromCivil(y2, m2, e2) < DaysFromCivil(y1, m1, e1)
    BY MonthsInOrder
  <2> QED  BY <1>2, <2>1, SMT
<1>4. ASSUME y1 * 12 + m1 = y2 * 12 + m2
      PROVE  e1 <= e2
  <2>1. y1 = y2 /\ m1 = m2
    BY <1>1, <1>4, SMT
  <2> QED  BY <1>2, <2>1, SMT
<1> QED  BY <1>3, <1>4, SMT

LEMMA CivilInOrder ==
  ASSUME NEW d1 \in Int, NEW d2 \in Int, d1 <= d2,
         NEW c1, c1 = CivilFromDays(d1), NEW c2, c2 = CivilFromDays(d2)
  PROVE  /\ c1.year * 12 + c1.month <= c2.year * 12 + c2.month
         /\ c1.year * 12 + c1.month = c2.year * 12 + c2.month => c1.day <= c2.day
<1>1. /\ c1.year \in Int /\ c1.month \in Int /\ c1.day \in Int
      /\ IsCivil(c1.year, c1.month, c1.day)
      /\ DaysFromCivil(c1.year, c1.month, c1.day) = d1
  BY DaysRoundTrip
<1>2. /\ c2.year \in Int /\ c2.month \in Int /\ c2.day \in Int
      /\ IsCivil(c2.year, c2.month, c2.day)
      /\ DaysFromCivil(c2.year, c2.month, c2.day) = d2
  BY DaysRoundTrip
<1> QED  BY <1>1, <1>2, CivilOrder, SMTT(30)

(* A day is of the year whose first day is the last one not after it.      *)
LEMMA YearOfDay ==
  ASSUME NEW days \in Int, NEW year \in Int
  PROVE  CivilFromDays(days).year = year
           <=> /\ DaysFromCivil(year, 1, 1) <= days
               /\ days < DaysFromCivil(year + 1, 1, 1)
<1> DEFINE c == CivilFromDays(days)
<1>1. /\ c.year \in Int /\ c.month \in Int /\ c.day \in Int
      /\ IsCivil(c.year, c.month, c.day)
      /\ DaysFromCivil(c.year, c.month, c.day) = days
  BY DaysRoundTrip
<1>2. c.month \in 1..12
  BY <1>1 DEF IsCivil
<1> HIDE DEF c
<1>3. ASSUME NEW y \in Int
      PROVE  /\ DaysFromCivil(y, 1, 1) \in Int
             /\ y <= c.year => DaysFromCivil(y, 1, 1) <= days
             /\ c.year < y => days < DaysFromCivil(y, 1, 1)
  <2>1. 1 \in 1..12 /\ 1 \in Int /\ IsCivil(y, 1, 1)
    BY SMT DEF IsCivil, DaysInMonth
  <2>2. DaysFromCivil(y, 1, 1) \in Int
    BY <2>1, DaysOfMonth
  <2>3. ASSUME y <= c.year PROVE DaysFromCivil(y, 1, 1) <= days
    <3>1. y * 12 + 1 <= c.year * 12 + c.month
      BY <1>1, <1>2, <2>3, SMT
    <3> QED  BY <1>1, <2>1, <3>1, MonthStartsFirst
  <2>4. ASSUME c.year < y PROVE days < DaysFromCivil(y, 1, 1)
    <3>1. c.year * 12 + c.month < y * 12 + 1
      BY <1>1, <1>2, <2>4, SMT
    <3> QED  BY <1>1, <2>1, <3>1, MonthsInOrder
  <2> QED  BY <2>2, <2>3, <2>4
<1>4. year + 1 \in Int
  BY SMT
<1>5. /\ DaysFromCivil(year, 1, 1) \in Int
      /\ year <= c.year => DaysFromCivil(year, 1, 1) <= days
      /\ c.year < year => days < DaysFromCivil(year, 1, 1)
  BY <1>3
<1>6. /\ DaysFromCivil(year + 1, 1, 1) \in Int
      /\ year + 1 <= c.year => DaysFromCivil(year + 1, 1, 1) <= days
      /\ c.year < year + 1 => days < DaysFromCivil(year + 1, 1, 1)
  BY <1>3, <1>4
<1> QED  BY <1>1, <1>5, <1>6, SMT DEF c

(* The day after a day: the next of the month, the first of the next       *)
(* month, or New Year.                                                     *)
LEMMA NextDay ==
  ASSUME NEW days \in Int
  PROVE  LET c == CivilFromDays(days)
         IN  CivilFromDays(days + 1) =
               IF c.day # DaysInMonth(c.year, c.month)
               THEN [year |-> c.year, month |-> c.month, day |-> c.day + 1]
               ELSE IF c.month = 12
               THEN [year |-> c.year + 1, month |-> 1, day |-> 1]
               ELSE [year |-> c.year, month |-> c.month + 1, day |-> 1]
<1> DEFINE c     == CivilFromDays(days)
           y     == c.year
           m     == c.month
           d     == c.day
           start == DaysFromCivil(y, m, 1)
           len   == DaysInMonth(y, m)
<1>1. /\ y \in Int /\ m \in Int /\ d \in Int /\ IsCivil(y, m, d)
      /\ DaysFromCivil(y, m, d) = days
  BY DaysRoundTrip
<1> HIDE DEF c, y, m, d
<1>2. m \in 1..12 /\ d \in 1..len /\ 1 \in Int /\ d + 1 \in Int
  BY <1>1, SMT DEF IsCivil
<1>3. /\ start \in Int /\ days = start + d - 1
      /\ DaysFromCivil(y, m, d + 1) = start + (d + 1) - 1
  BY <1>1, <1>2, DaysOfMonth
<1>4. len \in Int /\ 28 <= len
  <2>1. DaysInMonth(y, m) \in Int /\ 28 <= DaysInMonth(y, m)
    BY <1>1, <1>2, SMT DEF DaysInMonth
  <2> QED  BY <2>1
<1>5. CASE d # len
  <2>1. IsCivil(y, m, d + 1) /\ DaysFromCivil(y, m, d + 1) = days + 1 /\ d + 1 \in Int
    BY <1>1, <1>2, <1>3, <1>4, <1>5, SMT DEF IsCivil
  <2>2. CivilFromDays(days + 1) = [year |-> y, month |-> m, day |-> d + 1]
    BY <1>1, <2>1, CivilRoundTrips
  <2> QED  BY <1>5, <2>2 DEF c, y, m, d
<1>6. CASE d = len /\ m # 12
  <2>1. m \in 1..11 /\ m + 1 \in Int /\ IsCivil(y, m + 1, 1)
    BY <1>2, <1>6, SMT DEF IsCivil, DaysInMonth
  <2>2. DaysFromCivil(y, m + 1, 1) = start + len
    BY <1>1, <2>1, MonthTurns
  <2>3. DaysFromCivil(y, m + 1, 1) = days + 1
    BY <1>1, <1>3, <1>4, <1>6, <2>2, SMT
  <2>4. CivilFromDays(days + 1) = [year |-> y, month |-> m + 1, day |-> 1]
    BY <1>1, <1>2, <2>1, <2>3, CivilRoundTrips
  <2> QED  BY <1>6, <2>4 DEF c, y, m, d
<1>7. CASE d = len /\ m = 12
  <2>1. len = 31
    BY <1>7, SMT DEF DaysInMonth
  <2>2. DaysFromCivil(y + 1, 1, 1) = start + 31
    BY <1>1, <1>7, YearTurns
  <2>3. y + 1 \in Int /\ IsCivil(y + 1, 1, 1) /\ DaysFromCivil(y + 1, 1, 1) = days + 1
    <3>1. y + 1 \in Int /\ IsCivil(y + 1, 1, 1)
      BY <1>1, SMT DEF IsCivil, DaysInMonth
    <3> HIDE DEF start, len
    <3> QED  BY <1>1, <1>3, <1>7, <2>1, <2>2, <3>1, SMT
  <2>4. CivilFromDays(days + 1) = [year |-> y + 1, month |-> 1, day |-> 1]
    BY <1>2, <2>3, CivilRoundTrips
  <2> QED  BY <1>7, <2>4 DEF c, y, m, d
<1> QED  BY <1>5, <1>6, <1>7

=============================================================================
