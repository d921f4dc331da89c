----------------------------- MODULE TextProofs -----------------------------
(***************************************************************************)
(* Theorems about the texts of the crate (ScanText, IsoText, Rfc2822,      *)
(* TextRead) and the sink they are written to (Sink).  Of every date, time *)
(* of day, civil date-time, instant, offset and zone, and for every        *)
(* fraction, the reader of a text gives what its writer was given, cut to  *)
(* what the text shows.                                                    *)
(*                                                                         *)
(* A text is taken apart from the front: for each writer a lemma says that *)
(* what it writes, glued before any rest that does not go on with it, is   *)
(* scanned to its values and that rest; the texts of several parts follow  *)
(* one after the other.  What a scanner counts is a recursive function; as *)
(* nothing is longer than nine digits, its values come from unfolding it.  *)
(***************************************************************************)
EXTENDS TextRead, Sink, DateOpsProofs, SequenceTheorems, TLAPS

LEMMA Powers ==
  /\ 10^0 = 1 /\ 10^1 = 10 /\ 10^2 = 100 /\ 10^3 = 1000 /\ 10^4 = 10000
  /\ 10^5 = 100000 /\ 10^6 = 1000000 /\ 10^7 = 10000000 /\ 10^8 = 100000000
  /\ 10^9 = 1000000000 /\ 10^10 = 10000000000
BY SMT

-----------------------------------------------------------------------------
(* Texts from the front.                                                   *)
Bytes == Letters \cup {"9", " ", ",", "-", "+", ":", ".", "s", "?"}

Tokens ==
  {t \in [byte : Bytes, value : Int, digits : 0..9] :
     /\ IsDigits(t) => t.digits > 0 /\ t.value \in 0..10^t.digits - 1
     /\ t.byte = "weekday" => t.value \in 0..6
     /\ t.byte = "month"   => t.value \in 1..12}

Text == Seq(Tokens)

LEMMA TextFrom ==
  ASSUME NEW t \in Tokens, NEW r \in Text
  PROVE  LET w == Cons(t, r)
         IN  /\ w \in Text /\ w # <<>> /\ Len(w) = Len(r) + 1 /\ Len(r) \in Nat
             /\ w[1] = t /\ \A i \in 1..Len(r) : w[i + 1] = r[i]
             /\ Tail(w) = r /\ SubSeq(w, 2, Len(w)) = r
<1> DEFINE w == Cons(t, r)
<1>1. /\ w \in Text /\ w # <<>> /\ Len(w) = Len(r) + 1 /\ Len(r) \in Nat
      /\ w[1] = t /\ \A i \in 1..Len(r) : w[i + 1] = r[i]
  BY DEF Cons, Text
<1>2. Tail(w) = r
  BY DEF Cons, Text
<1> HIDE DEF w
<1>3. Tail(w) = SubSeq(w, 2, Len(w))
  BY <1>1, TailIsSubSeq DEF Text
<1> QED  BY <1>1, <1>2, <1>3 DEF w

LEMMA NextFrom ==
  ASSUME NEW t \in Tokens, NEW r \in Text, NEW bytes
  PROVE  NextIs(Cons(t, r), bytes) <=> t.byte \in bytes
BY TextFrom DEF NextIs

LEMMA NoTextAhead ==
  ASSUME NEW bytes
  PROVE  <<>> \in Text /\ ~NextIs(<<>>, bytes)
BY DEF Text, NextIs

(* The first n tokens, and no more, have one of the bytes.                 *)
IsLead(w, bytes, n) ==
  /\ n \in 0..Len(w)
  /\ \A i \in 1..n : w[i].byte \in bytes
  /\ n < Len(w) => w[n + 1].byte \notin bytes

LEMMA LeadIs ==
  ASSUME NEW w \in Text, NEW bytes, NEW n, IsLead(w, bytes, n)
  PROVE  LeadOf(w, bytes) = n
<1>1. Len(w) \in Nat
  BY DEF Text
<1>2. ASSUME NEW m, IsLead(w, bytes, m)
      PROVE  m = n
  <2>1. m \in Nat /\ n \in Nat /\ m <= Len(w) /\ n <= Len(w)
    BY <1>1, <1>2 DEF IsLead
  <2>2. ~(m < n)
    BY <1>2, <2>1 DEF IsLead
  <2>3. ~(n < m)
    BY <1>2, <2>1 DEF IsLead
  <2> QED  BY <2>1, <2>2, <2>3
<1>3. LeadOf(w, bytes) = CHOOSE m \in 0..Len(w) : IsLead(w, bytes, m)
  BY DEF LeadOf, IsLead
<1>4. n \in 0..Len(w)
  BY DEF IsLead
<1> QED  BY <1>2, <1>3, <1>4

LEMMA NoLead ==
  ASSUME NEW w \in Text, NEW bytes, ~NextIs(w, bytes)
  PROVE  IsLead(w, bytes, 0)
BY DEF IsLead, NextIs, Text

LEMMA LongerLead ==
  ASSUME NEW t \in Tokens, NEW r \in Text, NEW bytes, t.byte \in bytes,
         NEW n, IsLead(r, bytes, n)
  PROVE  IsLead(Cons(t, r), bytes, n + 1)
<1> DEFINE w == Cons(t, r)
<1>1. /\ Len(w) = Len(r) + 1 /\ Len(r) \in Nat /\ w[1] = t
      /\ \A i \in 1..Len(r) : w[i + 1] = r[i]
  BY TextFrom
<1>2. n \in Nat /\ n <= Len(r)
  BY <1>1 DEF IsLead
<1> HIDE DEF w
<1>3. ASSUME NEW i \in 1..n + 1 PROVE w[i].byte \in bytes
  <2>1. CASE i = 1
    BY <1>1, <2>1
  <2>2. CASE i # 1
    <3>1. i - 1 \in 1..n /\ i - 1 \in 1..Len(r) /\ (i - 1) + 1 = i
      BY <1>1, <1>2, <2>2
    <3> QED  BY <1>1, <3>1 DEF IsLead
  <2> QED  BY <2>1, <2>2
<1>4. ASSUME n + 1 < Len(w) PROVE w[(n + 1) + 1].byte \notin bytes
  <2>1. n < Len(r) /\ n + 1 \in 1..Len(r)
    BY <1>1, <1>2, <1>4
  <2> QED  BY <1>1, <2>1 DEF IsLead
<1>5. n + 1 \in 0..Len(w)
  BY <1>1, <1>2
<1> QED  BY <1>3, <1>4, <1>5 DEF IsLead, w

Spaces == {" "}

LEMMA SpacesSkipped ==
  ASSUME NEW w \in Text, ~NextIs(w, Spaces)
  PROVE  SkipSpaces(w) = w
<1>1. LeadOf(w, Spaces) + 1 = 1
  <2>1. LeadOf(w, Spaces) = 0
    BY NoLead, LeadIs
  <2> QED  BY <2>1
<1>2. SubSeq(w, 1, Len(w)) = w
  BY SubSeqFull DEF Text
<1>3. SkipSpaces(w) = SubSeq(w, LeadOf(w, Spaces) + 1, Len(w))
  BY Zenon DEF SkipSpaces, Spaces
<1> QED  BY <1>1, <1>2, <1>3, Zenon

LEMMA SpaceSkipped ==
  ASSUME NEW t \in Tokens, t.byte \in Spaces, NEW r \in Text, ~NextIs(r, Spaces)
  PROVE  SkipSpaces(Cons(t, r)) = r
<1> DEFINE w == Cons(t, r)
<1>1. w \in Text /\ SubSeq(w, 2, Len(w)) = r
  BY TextFrom, Zenon
<1>2. LeadOf(w, Spaces) + 1 = 2
  <2>1. IsLead(r, Spaces, 0)
    BY NoLead
  <2>2. IsLead(w, Spaces, 0 + 1)
    BY <2>1, LongerLead
  <2>3. LeadOf(w, Spaces) = 0 + 1
    BY <1>1, <2>2, LeadIs, Zenon
  <2> HIDE DEF w
  <2> QED  BY <2>3
<1>3. SkipSpaces(w) = SubSeq(w, LeadOf(w, Spaces) + 1, Len(w))
  BY Zenon DEF SkipSpaces, Spaces
<1> QED  BY <1>1, <1>2, <1>3, Zenon

Nine == {"9"}

-----------------------------------------------------------------------------
(* Digits ahead, token by token.                                           *)
CountsUpto(f, w, n) ==
  /\ DOMAIN f = 0..n /\ f[0] = 0
  /\ \A i \in 1..n : f[i] = f[i - 1] + w[i].digits

TakesUpto(f, w, max, n) ==
  /\ DOMAIN f = 0..n /\ f[0] = NoDigits
  /\ \A i \in 1..n : f[i] = TakeToken(f[i - 1], w[i], max)

ScansUpto(f, s, pattern, n) ==
  /\ DOMAIN f = 0..n /\ f[0] = Ok(s)
  /\ \A i \in 1..n : f[i] = ScanAll(f[i - 1], pattern[i])

Counting(f, w, n) ==
  f = [i \in 0..n |-> IF i = 0 THEN 0 ELSE f[i - 1] + w[i].digits]

LEMMA CountExists ==
  ASSUME NEW w, NEW n \in Nat
  PROVE  \E f : Counting(f, w, n)
<1> DEFINE S == {k \in Nat : \E f : Counting(f, w, k)}
<1>1. 0 \in S
  <2>1. Counting([i \in 0..0 |-> 0], w, 0)
    BY DEF Counting
  <2> QED  BY <2>1
<1>2. ASSUME NEW k \in S PROVE k + 1 \in S
  <2>1. PICK f : Counting(f, w, k)
    OBVIOUS
  <2> DEFINE g == [i \in 0..k+1 |-> IF i = k + 1 THEN f[k] + w[i].digits ELSE f[i]]
  <2>2. \A i \in 0..k : f[i] = IF i = 0 THEN 0 ELSE f[i - 1] + w[i].digits
    BY <2>1 DEF Counting
  <2>3. \A i \in 0..k+1 : g[i] = IF i = 0 THEN 0 ELSE g[i - 1] + w[i].digits
    <3> TAKE i \in 0..k+1
    <3>1. CASE i = 0
      BY <2>2, <3>1
    <3>2. CASE i \in 1..k
      BY <2>2, <3>2
    <3>3. CASE i = k + 1
      BY <3>3
    <3> QED  BY <3>1, <3>2, <3>3
  <2>4. Counting(g, w, k + 1)
    BY <2>3 DEF Counting
  <2> QED  BY <2>4
<1>3. S = Nat
  <2> HIDE DEF S
  <2>1. S \in SUBSET Nat
    BY DEF S
  <2> QED  BY <1>1, <1>2, <2>1, InductiveSet
<1> QED  BY <1>3

LEMMA CountIs ==
  ASSUME NEW w \in Text, NEW n, IsLead(w, Nine, n)
  PROVE  \E f : CountsUpto(f, w, n) /\ DigitsAhead(w) = f[n]
<1>1. LeadOf(w, {"9"}) = n /\ n \in Nat
  <2>1. LeadOf(w, Nine) = n
    BY LeadIs
  <2>2. Len(w) \in Nat
    BY DEF Text
  <2> QED  BY <2>1, <2>2 DEF IsLead, Nine
<1> DEFINE count == CHOOSE f : f = [i \in 0..n |-> IF i = 0 THEN 0 ELSE f[i - 1] + w[i].digits]
<1>2. count = [i \in 0..n |-> IF i = 0 THEN 0 ELSE count[i - 1] + w[i].digits]
  BY <1>1, CountExists, Zenon DEF Counting
<1>3. DigitsAhead(w) = count[n]
  BY <1>1, Zenon DEF DigitsAhead
<1> HIDE DEF count
<1>4. CountsUpto(count, w, n)
  <2>1. \A i \in 0..n : count[i] = IF i = 0 THEN 0 ELSE count[i - 1] + w[i].digits
    BY <1>2
  <2>2. DOMAIN count = 0..n
    BY <1>2, Zenon
  <2> QED  BY <1>1, <2>1, <2>2 DEF CountsUpto
<1> QED  BY <1>3, <1>4

Taking(f, w, max, n) ==
  f = [i \in 0..n |-> IF i = 0 THEN NoDigits ELSE TakeToken(f[i - 1], w[i], max)]

LEMMA TakingExists ==
  ASSUME NEW w, NEW max, NEW n \in Nat
  PROVE  \E f : Taking(f, w, max, n)
<1> DEFINE S == {k \in Nat : \E f : Taking(f, w, max, k)}
<1>1. 0 \in S
  <2>1. Taking([i \in 0..0 |-> NoDigits], w, max, 0)
    BY DEF Taking
  <2> QED  BY <2>1
<1>2. ASSUME NEW k \in S PROVE k + 1 \in S
  <2>1. PICK f : Taking(f, w, max, k)
    OBVIOUS
  <2> DEFINE g == [i \in 0..k+1 |-> IF i = k + 1 THEN TakeToken(f[k], w[i], max) ELSE f[i]]
  <2>2. \A i \in 0..k : f[i] = IF i = 0 THEN NoDigits ELSE TakeToken(f[i - 1], w[i], max)
    BY <2>1 DEF Taking
  <2>3. \A i \in 0..k+1 : g[i] = IF i = 0 THEN NoDigits ELSE TakeToken(g[i - 1], w[i], max)
    <3> TAKE i \in 0..k+1
    <3>1. CASE i = 0
      BY <2>2, <3>1
    <3>2. CASE i \in 1..k
      BY <2>2, <3>2
    <3>3. CASE i = k + 1
      BY <3>3
    <3> QED  BY <3>1, <3>2, <3>3
  <2>4. Taking(g, w, max, k + 1)
    BY <2>3 DEF Taking
  <2> QED  BY <2>4
<1>3. S = Nat
  <2> HIDE DEF S
  <2>1. S \in SUBSET Nat
    BY DEF S
  <2> QED  BY <1>1, <1>2, <2>1, InductiveSet
<1> QED  BY <1>3

LEMMA TakenIs ==
  ASSUME NEW w \in Text, NEW n, IsLead(w, Nine, n), NEW max
  PROVE  \E f : /\ TakesUpto(f, w, max, n)
                /\ TakeDigits(w, max)
                     = [f[n] EXCEPT !.rest = @ \o SubSeq(w, n + 1, Len(w))]
<1>1. LeadOf(w, {"9"}) = n /\ n \in Nat
  <2>1. LeadOf(w, Nine) = n
    BY LeadIs
  <2>2. Len(w) \in Nat
    BY DEF Text
  <2> QED  BY <2>1, <2>2 DEF IsLead, Nine
<1> DEFINE take == CHOOSE f : Taking(f, w, max, n)
<1>2. Taking(take, w, max, n)
  BY <1>1, TakingExists
<1>3. TakeDigits(w, max) = [take[n] EXCEPT !.rest = @ \o SubSeq(w, n + 1, Len(w))]
  BY <1>1, Zenon DEF TakeDigits, Taking
<1> HIDE DEF take
<1>4. TakesUpto(take, w, max, n)
  <2>1. \A i \in 0..n : take[i] = IF i = 0 THEN NoDigits ELSE TakeToken(take[i - 1], w[i], max)
    BY <1>2 DEF Taking
  <2>2. DOMAIN take = 0..n
    BY <1>2, Zenon DEF Taking
  <2> QED  BY <1>1, <2>1, <2>2 DEF TakesUpto
<1> QED  BY <1>3, <1>4, Zenon

Scanning(f, s, pattern, n) ==
  f = [i \in 0..n |-> IF i = 0 THEN Ok(s) ELSE ScanAll(f[i - 1], pattern[i])]

LEMMA ScanningExists ==
  ASSUME NEW s, NEW pattern, NEW n \in Nat
  PROVE  \E f : Scanning(f, s, pattern, n)
<1> DEFINE S == {k \in Nat : \E f : Scanning(f, s, pattern, k)}
<1>1. 0 \in S
  <2>1. Scanning([i \in 0..0 |-> Ok(s)], s, pattern, 0)
    BY DEF Scanning
  <2> QED  BY <2>1
<1>2. ASSUME NEW k \in S PROVE k + 1 \in S
  <2>1. PICK f : Scanning(f, s, pattern, k)
    OBVIOUS
  <2> DEFINE g == [i \in 0..k+1 |-> IF i = k + 1 THEN ScanAll(f[k], pattern[i]) ELSE f[i]]
  <2>2. \A i \in 0..k : f[i] = IF i = 0 THEN Ok(s) ELSE ScanAll(f[i - 1], pattern[i])
    BY <2>1 DEF Scanning
  <2>3. \A i \in 0..k+1 : g[i] = IF i = 0 THEN Ok(s) ELSE ScanAll(g[i - 1], pattern[i])
    <3> TAKE i \in 0..k+1
    <3>1. CASE i = 0
      BY <2>2, <3>1
    <3>2. CASE i \in 1..k
      BY <2>2, <3>2
    <3>3. CASE i = k + 1
      BY <3>3
    <3> QED  BY <3>1, <3>2, <3>3
  <2>4. Scanning(g, s, pattern, k + 1)
    BY <2>3 DEF Scanning
  <2> QED  BY <2>4
<1>3. S = Nat
  <2> HIDE DEF S
  <2>1. S \in SUBSET Nat
    BY DEF S
  <2> QED  BY <1>1, <1>2, <2>1, InductiveSet
<1> QED  BY <1>3

LEMMA ScanIs ==
  ASSUME NEW s, NEW pattern, Len(pattern) \in Nat
  PROVE  \E f : ScansUpto(f, s, pattern, Len(pattern)) /\ Scan(s, pattern) = f[Len(pattern)]
<1> DEFINE n == Len(pattern)
           scan == CHOOSE f : Scanning(f, s, pattern, n)
<1>1. n \in Nat
  OBVIOUS
<1>2. Scanning(scan, s, pattern, n)
  BY <1>1, ScanningExists
<1>3. Scan(s, pattern) = scan[n]
  BY Zenon DEF Scan, Scanning
<1> HIDE DEF scan, n
<1>4. ScansUpto(scan, s, pattern, n)
  <2>1. \A i \in 0..n : scan[i] = IF i = 0 THEN Ok(s) ELSE ScanAll(scan[i - 1], pattern[i])
    BY <1>2 DEF Scanning
  <2>2. DOMAIN scan = 0..n
    BY <1>2, Zenon DEF Scanning
  <2> QED  BY <1>1, <2>1, <2>2 DEF ScansUpto
<1> QED  BY <1>3, <1>4, Zenon DEF n

Pow(k) == 10^k

LEMMA PowValues ==
  /\ Pow(0) = 1 /\ Pow(1) = 10 /\ Pow(2) = 100 /\ Pow(3) = 1000 /\ Pow(4) = 10000
  /\ Pow(5) = 100000 /\ Pow(6) = 1000000 /\ Pow(7) = 10000000 /\ Pow(8) = 100000000
  /\ Pow(9) = 1000000000
BY SMT DEF Pow

LEMMA PowersKnown ==
  ASSUME NEW k \in 0..9
  PROVE  Pow(k) \in Nat /\ Pow(k) > 0 /\ Pow(k) = 10^k
<1>1. k \in {0, 1, 2, 3, 4, 5, 6, 7, 8, 9}
  OBVIOUS
<1>2. Pow(k) \in Nat /\ Pow(k) > 0
  BY <1>1, PowValues, SMT
<1> QED  BY <1>2, Zenon DEF Pow

LEMMA PowersMultiply ==
  ASSUME NEW a \in 0..9, NEW k \in 0..9, a + k <= 9
  PROVE  Pow(a) * Pow(k) = Pow(a + k)
<1>0. k \in {0, 1, 2, 3, 4, 5, 6, 7, 8, 9}
  OBVIOUS
<1>1. CASE a = 0
  BY <1>0, <1>1, PowValues, SMT
<1>2. CASE a = 1
  BY <1>0, <1>2, PowValues, SMT
<1>3. CASE a = 2
  BY <1>0, <1>3, PowValues, SMT
<1>4. CASE a = 3
  BY <1>0, <1>4, PowValues, SMT
<1>5. CASE a = 4
  BY <1>0, <1>5, PowValues, SMT
<1>6. CASE a = 5
  BY <1>0, <1>6, PowValues, SMT
<1>7. CASE a = 6
  BY <1>0, <1>7, PowValues, SMT
<1>8. CASE a = 7
  BY <1>0, <1>8, PowValues, SMT
<1>9. CASE a = 8
  BY <1>0, <1>9, PowValues, SMT
<1>10. CASE a = 9
  BY <1>0, <1>10, PowValues, SMT
<1> QED  BY <1>1, <1>2, <1>3, <1>4, <1>5, <1>6, <1>7, <1>8, <1>9, <1>10, SMT

LEMMA TokenFields ==
  ASSUME NEW t \in Tokens
  PROVE  /\ t = [byte |-> t.byte, value |-> t.value, digits |-> t.digits]
         /\ t.byte \in Bytes /\ t.value \in Int /\ t.digits \in 0..9
         /\ t.byte \in Nine =>
              /\ t.digits \in 1..9 /\ t.value \in 0..Pow(t.digits) - 1
              /\ t = Digits(t.value, t.digits)
BY DEF Tokens, IsDigits, Nine, Digits, Pow

LEMMA NumeralIsToken ==
  ASSUME NEW n \in 1..9, NEW v \in 0..Pow(n) - 1
  PROVE  /\ Digits(v, n) \in Tokens
         /\ Digits(v, n).byte = "9" /\ Digits(v, n).value = v /\ Digits(v, n).digits = n
<1>1. v \in Int /\ n \in 0..9 /\ n > 0
  BY PowersKnown
<1>3. v \in 0..10^n - 1
  BY Zenon DEF Pow
<1>2. "9" \in Bytes /\ "9" # "weekday" /\ "9" # "month"
  BY Zenon DEF Bytes
<1> QED  BY <1>1, <1>2, <1>3, Zenon DEF Tokens, IsDigits, Digits

LEMMA CharIsToken ==
  ASSUME NEW b \in Bytes, b \notin {"9", "weekday", "month"}
  PROVE  Char(b) \in Tokens /\ Char(b).byte = b
BY DEF Tokens, IsDigits, Char

LEMMA NameIsToken ==
  ASSUME NEW v
  PROVE  /\ v \in 0..6 => Name("weekday", v) \in Tokens
         /\ v \in 1..12 => Name("month", v) \in Tokens
         /\ Name("UTC", 0) \in Tokens
<1>1. /\ "UTC" \in Bytes /\ "weekday" \in Bytes /\ "month" \in Bytes
      /\ "UTC" \notin {"9", "weekday", "month"} /\ "weekday" \notin {"9", "month"}
      /\ "month" \notin {"9", "weekday"}
  BY Zenon DEF Bytes, Letters
<1>2. 0 \in 0..9 /\ 0 \in Int /\ (v \in 0..6 \/ v \in 1..12 => v \in Int)
  OBVIOUS
<1> QED  BY <1>1, <1>2, Zenon DEF Tokens, IsDigits, Name

-----------------------------------------------------------------------------
(* Digits that are taken.                                                  *)
LEMMA RestReplaced ==
  ASSUME NEW n, NEW a, NEW b, NEW c, n = [value |-> a, digits |-> b, rest |-> c], NEW r
  PROVE  /\ [n EXCEPT !.rest = r] = [value |-> a, digits |-> b, rest |-> r]
         /\ n.value = a /\ n.digits = b /\ n.rest = c
OBVIOUS

LEMMA NothingToTake ==
  ASSUME NEW t \in Tokens, t.byte \in Nine, NEW a \in Int, NEW b \in Nat, NEW c
  PROVE  TakeToken([value |-> a, digits |-> b, rest |-> c], t, b)
           = [value |-> a, digits |-> b, rest |-> Append(c, t)]
<1> DEFINE n == [value |-> a, digits |-> b, rest |-> c]
           d == t.digits  p == Pow(t.digits)  v == t.value
<1>1. d \in 1..9 /\ v \in 0..p - 1 /\ t = Digits(v, d)
  BY TokenFields
<1>2. n.value = a /\ n.digits = b /\ n.rest = c
  OBVIOUS
<1>3. d - 0 = d /\ d # 0 /\ d \in 0..9 /\ b - b = 0 /\ b + 0 = b
  BY <1>1
<1>4. Lesser(b - b, d) = 0
  BY <1>1, <1>3 DEF Lesser
<1>5. p = 10^d /\ p \in Nat /\ p > 0 /\ 10^0 = 1
  <2>1. 10^0 = 1
    BY SMT
  <2> QED  BY <1>3, <2>1, PowersKnown, Zenon
<1>6. v \div p = 0 /\ v % p = v
  <2> HIDE DEF p, v
  <2> QED  BY <1>1, <1>5
<1> HIDE DEF n
<1>7. TakeToken(n, t, b)
        = [value |-> a * 10^0 + v \div 10^(d - 0), digits |-> b + 0,
           rest |-> IF d - 0 = 0 THEN c ELSE Append(c, Digits(v % 10^(d - 0), d - 0))]
  BY <1>2, <1>4, Zenon DEF TakeToken
<1>8. a * 10^0 + v \div 10^(d - 0) = a
  <2> DEFINE q == v \div 10^(d - 0)  o == 10^0
  <2>1. q = 0 /\ o = 1
    BY <1>3, <1>5, <1>6, Zenon
  <2> HIDE DEF q, o
  <2>2. a * o + q = a
    BY <2>1
  <2> QED  BY <2>2 DEF q, o
<1>9. Digits(v % 10^(d - 0), d - 0) = t
  BY <1>1, <1>3, <1>5, <1>6, Zenon
<1>10. TakeToken(n, t, b) = [value |-> a, digits |-> b, rest |-> Append(c, t)]
  BY <1>3, <1>7, <1>8, <1>9, Zenon
<1> QED  BY <1>10, Zenon DEF n

LEMMA WholeTokenTaken ==
  ASSUME NEW t \in Tokens, t.byte \in Nine, NEW max \in Nat, t.digits <= max
  PROVE  TakeToken(NoDigits, t, max) = [value |-> t.value, digits |-> t.digits, rest |-> <<>>]
<1>1. t.digits \in 1..9 /\ t.value \in Int
  BY TokenFields
<1>2. NoDigits = [value |-> 0, digits |-> 0, rest |-> <<>>]
  BY Zenon DEF NoDigits
<1> DEFINE d == t.digits
<1>3. Lesser(max - 0, d) = d
  BY <1>1 DEF Lesser
<1>4. TakeToken(NoDigits, t, max)
        = [value |-> 0 * 10^d + t.value \div 10^(d - d), digits |-> 0 + d,
           rest |-> IF d - d = 0 THEN <<>> ELSE Append(<<>>, Digits(t.value % 10^(d - d), d - d))]
  <2>1. NoDigits.value = 0 /\ NoDigits.digits = 0 /\ NoDigits.rest = <<>>
    BY <1>2
  <2> QED  BY <1>3, <2>1, Zenon DEF TakeToken
<1>5. 0 + d = d /\ d - d = 0
  BY <1>1
<1>6. 0 * 10^d = 0
  <2> DEFINE p == 10^d
  <2>1. p \in Nat
    <3>1. d \in 0..9
      BY <1>1
    <3> QED  BY <3>1, PowersKnown, Zenon
  <2> HIDE DEF p
  <2>2. 0 * p = 0
    BY <2>1
  <2> QED  BY <2>2 DEF p
<1>7. 0 * 10^d + t.value \div 10^(d - d) = t.value
  <2> DEFINE z == 10^(d - d)  y == 0 * 10^d
  <2>1. z = 1 /\ y = 0
    <3>1. 10^0 = 1
      BY SMT
    <3> QED  BY <1>5, <1>6, <3>1, Zenon
  <2> HIDE DEF z, y
  <2>2. y + t.value \div z = t.value
    BY <1>1, <2>1
  <2> QED  BY <2>2 DEF z, y
<1> QED  BY <1>4, <1>5, <1>7, Zenon

LEMMA LeadExists ==
  ASSUME NEW w \in Text, NEW bytes
  PROVE  \E n : IsLead(w, bytes, n)
<1> DEFINE S == {n \in Nat : n = Len(w) \/ (n < Len(w) /\ w[n + 1].byte \notin bytes)}
<1>1. Len(w) \in Nat
  BY DEF Text
<1>2. Len(w) \in S
  BY <1>1
<1>3. PICK n \in S : \A m \in S : n <= m
  <2>1. S \subseteq Nat /\ S # {}
    BY <1>2
  <2> HIDE DEF S
  <2> QED  BY <2>1, LeastElement
<1>4. \A i \in 1..n : w[i].byte \in bytes
  <2> SUFFICES ASSUME NEW i \in 1..n, w[i].byte \notin bytes PROVE FALSE
    OBVIOUS
  <2>1. n <= Len(w) /\ n \in Nat
    BY <1>1, <1>3
  <2>2. i - 1 \in Nat /\ (i - 1) + 1 = i /\ i - 1 < Len(w) /\ ~(n <= i - 1)
    BY <1>1, <2>1
  <2>3. i - 1 \in S
    BY <2>2
  <2> QED  BY <1>3, <2>2, <2>3
<1>5. n \in 0..Len(w) /\ (n < Len(w) => w[n + 1].byte \notin bytes)
  BY <1>1, <1>3
<1> QED  BY <1>4, <1>5 DEF IsLead

LEMMA TakenToken ==
  ASSUME NEW n, NEW t, NEW max, NEW k, k = Lesser(max - n.digits, t.digits),
         NEW left, left = t.digits - k
  PROVE  TakeToken(n, t, max)
           = [value  |-> n.value * Pow(k) + t.value \div Pow(left),
              digits |-> n.digits + k,
              rest   |-> IF left = 0 THEN n.rest
                         ELSE Append(n.rest, Digits(t.value % Pow(left), left))]
BY Zenon DEF TakeToken, Pow

(* A whole token of digits, and no digit of the w behind it.               *)
LEMMA RunTaken ==
  ASSUME NEW t \in Tokens, t.byte \in Nine, NEW r \in Text, NEW max \in Nat,
         t.digits <= max, t.digits = max \/ ~NextIs(r, Nine)
  PROVE  TakeDigits(Cons(t, r), max)
           = [value |-> t.value, digits |-> t.digits, rest |-> r]
<1> DEFINE w == Cons(t, r)
<1>1. /\ w \in Text /\ Len(w) = Len(r) + 1 /\ Len(r) \in Nat /\ w[1] = t
      /\ \A i \in 1..Len(r) : w[i + 1] = r[i]
      /\ SubSeq(w, 2, Len(w)) = r
  BY TextFrom
<1>2. PICK m : IsLead(r, Nine, m)
  BY LeadExists
<1>3. IsLead(w, Nine, m + 1)
  BY <1>2, LongerLead
<1>4. PICK f : /\ TakesUpto(f, w, max, m + 1)
               /\ TakeDigits(w, max)
                    = [f[m + 1] EXCEPT !.rest = @ \o SubSeq(w, m + 1 + 1, Len(w))]
  BY <1>1, <1>3, TakenIs
<1>5. m \in Nat /\ m <= Len(r) /\ t.value \in Int /\ t.digits \in Nat
  BY <1>1, <1>2, TokenFields, SMTT(60) DEF IsLead
<1> HIDE DEF w
<1> DEFINE Holds(i) == i + 1 <= m + 1 =>
             f[i + 1] = [value |-> t.value, digits |-> t.digits, rest |-> SubSeq(w, 2, i + 1)]
<1>6. Holds(0)
  <2>1. f[1] = TakeToken(f[1 - 1], w[1], max) /\ f[0] = NoDigits /\ 1 - 1 = 0
    BY <1>4, <1>5 DEF TakesUpto
  <2>2. f[1] = [value |-> t.value, digits |-> t.digits, rest |-> <<>>]
    BY <1>1, <2>1, WholeTokenTaken, Zenon
  <2>3. SubSeq(w, 2, 1) = <<>> /\ 0 + 1 = 1
    BY SubSeqEmpty
  <2> QED  BY <2>2, <2>3, Zenon
<1>7. ASSUME NEW i \in Nat, Holds(i) PROVE Holds(i + 1)
  <2> HAVE i + 1 + 1 <= m + 1
  <2> DEFINE j == i + 1
             sub == SubSeq(w, 2, j)
  <2>1. j \in 1..m /\ j + 1 \in 1..m + 1 /\ (j + 1) - 1 = j /\ j \in 1..Len(r) /\ j <= m + 1
    BY <1>1, <1>5
  <2>2. f[j] = [value |-> t.value, digits |-> t.digits, rest |-> sub]
    BY <1>7, <2>1
  <2>3. f[j + 1] = TakeToken(f[j], w[j + 1], max)
    BY <1>4, <2>1 DEF TakesUpto
  <2>4. w[j + 1] \in Tokens /\ w[j + 1].byte \in Nine
    <3>1. w[j + 1] = r[j] /\ r[j] \in Tokens /\ r[j].byte \in Nine
      BY <1>1, <1>2, <2>1 DEF IsLead, Text
    <3> QED  BY <3>1
  <2>5. t.digits = max
    <3>1. r[1].byte \in Nine /\ r # <<>>
      BY <1>1, <1>2, <2>1 DEF IsLead
    <3> QED  BY <3>1 DEF NextIs
  <2> HIDE DEF sub, j
  <2>6. f[j + 1] = [value |-> t.value, digits |-> t.digits, rest |-> Append(sub, w[j + 1])]
    <3>1. f[j + 1] = TakeToken([value |-> t.value, digits |-> t.digits, rest |-> sub],
                               w[j + 1], t.digits)
      BY <2>2, <2>3, <2>5, Zenon
    <3> QED  BY <1>5, <2>4, <3>1, NothingToTake
  <2>7. Append(sub, w[j + 1]) = SubSeq(w, 2, j + 1)
    <3>1. sub \in Seq(Tokens)
      <4>1. \A a \in 2..j : w[a] \in Tokens
        BY <1>1, <2>1 DEF Text
      <4>2. 2 \in Int /\ j \in Int
        BY <2>1
      <4> QED  BY <4>1, <4>2, SubSeqProperties DEF sub
    <3>2. SubSeq(w, 2, j + 1) = SubSeq(w, 2, (j + 1) - 1) \o <<w[j + 1]>>
      <4>1. w \in Seq(Tokens) /\ 2 \in 1..Len(w) /\ j + 1 \in 2..Len(w)
        BY <1>1, <2>1 DEF Text
      <4> QED  BY <4>1, SubSeqRecursiveSecond
    <3>3. Append(sub, w[j + 1]) = sub \o <<w[j + 1]>>
      BY <2>4, <3>1, AppendIsConcat
    <3> QED  BY <2>1, <3>2, <3>3, Zenon DEF sub
  <2> QED  BY <2>6, <2>7 DEF j
<1>8. f[m + 1] = [value |-> t.value, digits |-> t.digits, rest |-> SubSeq(w, 2, m + 1)]
  <2> DEFINE S == {i \in Nat : Holds(i)}
  <2>1. 0 \in S /\ \A i \in S : i + 1 \in S
    <3> HIDE DEF Holds
    <3> QED  BY <1>6, <1>7
  <2>2. S = Nat
    <3>1. S \in SUBSET Nat
      OBVIOUS
    <3> HIDE DEF S
    <3> QED  BY <2>1, <3>1, InductiveSet
  <2>3. Holds(m)
    <3> HIDE DEF Holds
    <3> QED  BY <1>5, <2>2
  <2> QED  BY <1>5, <2>3
<1>9. SubSeq(w, 2, m + 1) \o SubSeq(w, m + 1 + 1, Len(w)) = r
  <2>1. /\ w \in Seq(Tokens) /\ 2 \in 1..Len(w) + 1 /\ m + 1 \in 2 - 1..Len(w)
        /\ Len(w) \in m + 1..Len(w)
    BY <1>1, <1>5 DEF Text
  <2> QED  BY <1>1, <2>1, ConcatAdjacentSubSeq
<1>10. TakeDigits(w, max) = [value |-> t.value, digits |-> t.digits, rest |-> r]
  <2> DEFINE n == f[m + 1]
             rest == SubSeq(w, m + 1 + 1, Len(w))
             sub == SubSeq(w, 2, m + 1)
  <2>1. n = [value |-> t.value, digits |-> t.digits, rest |-> sub] /\ sub \o rest = r
        /\ TakeDigits(w, max) = [n EXCEPT !.rest = @ \o rest]
    BY <1>4, <1>8, <1>9, Zenon
  <2> HIDE DEF n, rest, sub
  <2>2. n.rest = sub /\ [n EXCEPT !.rest = n.rest \o rest]
          = [value |-> t.value, digits |-> t.digits, rest |-> n.rest \o rest]
    BY <2>1, RestReplaced
  <2> QED  BY <2>1, <2>2, Zenon
<1> QED  BY <1>10, Zenon DEF w

(* No digits.                                                              *)
LEMMA NoRun ==
  ASSUME NEW w \in Text, ~NextIs(w, Nine), NEW max
  PROVE  TakeDigits(w, max) = [value |-> 0, digits |-> 0, rest |-> w] /\ DigitsAhead(w) = 0
<1>1. IsLead(w, Nine, 0) /\ Len(w) \in Nat /\ w \in Seq(Tokens)
  BY NoLead DEF Text
<1>2. PICK f : /\ TakesUpto(f, w, max, 0)
               /\ TakeDigits(w, max) = [f[0] EXCEPT !.rest = @ \o SubSeq(w, 0 + 1, Len(w))]
  BY <1>1, TakenIs
<1>3. f[0] = [value |-> 0, digits |-> 0, rest |-> <<>>]
  BY <1>2 DEF TakesUpto, NoDigits
<1>4. <<>> \o SubSeq(w, 0 + 1, Len(w)) = w
  <2>1. SubSeq(w, 0 + 1, Len(w)) = w
    BY <1>1, SubSeqFull
  <2> QED  BY <1>1, <2>1, ConcatEmptySeq
<1>5. TakeDigits(w, max) = [value |-> 0, digits |-> 0, rest |-> w]
  <2> DEFINE n == f[0]  sub == SubSeq(w, 0 + 1, Len(w))
  <2>1. n = [value |-> 0, digits |-> 0, rest |-> <<>>] /\ <<>> \o sub = w
        /\ TakeDigits(w, max) = [n EXCEPT !.rest = @ \o sub]
    BY <1>2, <1>3, <1>4, Zenon
  <2> HIDE DEF n, sub
  <2>2. n.rest = <<>> /\ [n EXCEPT !.rest = n.rest \o sub]
          = [value |-> 0, digits |-> 0, rest |-> n.rest \o sub]
    BY <2>1, RestReplaced
  <2> QED  BY <2>1, <2>2, Zenon
<1>6. DigitsAhead(w) = 0
  <2>1. PICK g : CountsUpto(g, w, 0) /\ DigitsAhead(w) = g[0]
    BY <1>1, CountIs
  <2> QED  BY <2>1 DEF CountsUpto
<1> QED  BY <1>5, <1>6

LEMMA OneRun ==
  ASSUME NEW t \in Tokens, t.byte \in Nine, NEW r \in Text, ~NextIs(r, Nine)
  PROVE  DigitsAhead(Cons(t, r)) = t.digits
<1> DEFINE w == Cons(t, r)
<1>1. w \in Text /\ w[1] = t /\ t.digits \in Nat
  BY TextFrom, TokenFields
<1>2. IsLead(w, Nine, 1)
  <2>1. IsLead(w, Nine, 0 + 1)
    BY NoLead, LongerLead
  <2> HIDE DEF w
  <2> QED  BY <2>1
<1> HIDE DEF w
<1>3. PICK g : CountsUpto(g, w, 1) /\ DigitsAhead(w) = g[1]
  BY <1>1, <1>2, CountIs
<1>4. g[1] = g[0] + w[1].digits /\ g[0] = 0
  <2>1. \A i \in 1..1 : g[i] = g[i - 1] + w[i].digits
    BY <1>3 DEF CountsUpto
  <2>2. g[1] = g[1 - 1] + w[1].digits
    BY <2>1
  <2> QED  BY <1>3, <2>2 DEF CountsUpto
<1>5. DigitsAhead(w) = t.digits
  BY <1>1, <1>3, <1>4
<1> QED  BY <1>5 DEF w

(* The nanoseconds of an instant that has no date.                         *)
LEMMA RunTooLong ==
  ASSUME NEW r \in Text, ~NextIs(r, Nine)
  PROVE  LET w == Cons(Digits(1, 2), Cons(Digits(0, 9), r))
         IN  w \in Text /\ NextIs(TakeDigits(w, 9).rest, Nine)
<1> DEFINE a == Digits(1, 2)  b == Digits(0, 9)  u == Cons(b, r)  w == Cons(a, u)
<1>1. /\ a \in Tokens /\ a.byte = "9" /\ a.value = 1 /\ a.digits = 2
      /\ b \in Tokens /\ b.byte = "9" /\ b.value = 0 /\ b.digits = 9
  <2>1. 1 \in 0..Pow(2) - 1 /\ 0 \in 0..Pow(9) - 1
    BY PowValues
  <2> QED  BY <2>1, NumeralIsToken
<1>2. a.byte \in Nine /\ b.byte \in Nine
  BY <1>1, Zenon DEF Nine
<1> HIDE DEF a, b
<1>3. u \in Text /\ Len(u) = Len(r) + 1 /\ Len(r) \in Nat /\ u[1] = b /\ SubSeq(u, 2, Len(u)) = r
  BY <1>1, TextFrom
<1>4. w \in Text /\ Len(w) = Len(u) + 1 /\ w[1] = a /\ w[2] = b
  <2>1. w \in Text /\ Len(w) = Len(u) + 1 /\ w[1] = a /\ \A i \in 1..Len(u) : w[i + 1] = u[i]
    BY <1>1, <1>3, TextFrom
  <2>2. w[1 + 1] = u[1]
    BY <1>3, <2>1
  <2> HIDE DEF w, u
  <2>3. w[2] = u[1]
    BY <2>2
  <2> QED  BY <1>3, <2>1, <2>3
<1>5. IsLead(w, Nine, 2)
  <2>1. IsLead(u, Nine, 0 + 1)
    BY <1>1, <1>2, NoLead, LongerLead
  <2>2. IsLead(w, Nine, 0 + 1 + 1)
    BY <1>1, <1>2, <1>3, <2>1, LongerLead
  <2> HIDE DEF w
  <2> QED  BY <2>2
<1> HIDE DEF w, u
<1>6. PICK f : /\ TakesUpto(f, w, 9, 2)
               /\ TakeDigits(w, 9) = [f[2] EXCEPT !.rest = @ \o SubSeq(w, 2 + 1, Len(w))]
  BY <1>4, <1>5, TakenIs
<1>7. f[0] = NoDigits /\ f[1] = TakeToken(f[0], w[1], 9) /\ f[2] = TakeToken(f[1], w[2], 9)
  <2>1. f[0] = NoDigits /\ \A i \in 1..2 : f[i] = TakeToken(f[i - 1], w[i], 9)
    BY <1>6 DEF TakesUpto
  <2>2. 1 \in 1..2 /\ 2 \in 1..2 /\ 1 - 1 = 0 /\ 2 - 1 = 1
    OBVIOUS
  <2> QED  BY <2>1, <2>2, Zenon
<1>8. f[1] = [value |-> 1, digits |-> 2, rest |-> <<>>]
  <2>1. TakeToken(NoDigits, a, 9) = [value |-> a.value, digits |-> a.digits, rest |-> <<>>]
    BY <1>1, <1>2, WholeTokenTaken
  <2> QED  BY <1>1, <1>4, <1>7, <2>1, Zenon
<1>9. \E v, d, y : f[2] = [value |-> v, digits |-> d, rest |-> <<Digits(y, 2)>>]
  <2>1. f[1].digits = 2 /\ f[1].rest = <<>>
    BY <1>8
  <2>2. Lesser(9 - f[1].digits, b.digits) = 7 /\ b.digits - 7 = 2 /\ 2 # 0
    BY <1>1, <2>1 DEF Lesser
  <2>3. f[2] = [value |-> f[1].value * Pow(7) + b.value \div Pow(2), digits |-> f[1].digits + 7,
                rest |-> IF 2 = 0 THEN f[1].rest ELSE Append(f[1].rest, Digits(b.value % Pow(2), 2))]
    <3>1. f[2] = TakeToken(f[1], b, 9)
      BY <1>4, <1>7, Zenon
    <3> HIDE DEF w, u
    <3> DEFINE p == f[1]  k == 7  left == 2
    <3>2. k = Lesser(9 - p.digits, b.digits) /\ left = b.digits - k
      BY <2>2
    <3> HIDE DEF k, left, p
    <3>3. TakeToken(p, b, 9) = [value |-> p.value * Pow(k) + b.value \div Pow(left),
             digits |-> p.digits + k,
             rest |-> IF left = 0 THEN p.rest ELSE Append(p.rest, Digits(b.value % Pow(left), left))]
      BY <3>2, TakenToken
    <3> QED  BY <3>1, <3>3, Zenon DEF k, left, p
  <2>4. Append(<<>>, Digits(b.value % Pow(2), 2)) = <<Digits(b.value % Pow(2), 2)>>
    OBVIOUS
  <2> QED  BY <2>1, <2>2, <2>3, <2>4, Zenon
<1>10. PICK v, d, y : f[2] = [value |-> v, digits |-> d, rest |-> <<Digits(y, 2)>>]
  BY <1>9
<1> DEFINE sub == SubSeq(w, 2 + 1, Len(w))
           n == f[2]
           c == Digits(y, 2)
<1>11. TakeDigits(w, 9).rest = <<c>> \o sub
  <2>1. n = [value |-> v, digits |-> d, rest |-> <<c>>] /\ TakeDigits(w, 9) = [n EXCEPT !.rest = @ \o sub]
    BY <1>6, <1>10, Zenon
  <2> HIDE DEF n, sub, c
  <2>2. n.rest = <<c>> /\ [n EXCEPT !.rest = n.rest \o sub]
          = [value |-> v, digits |-> d, rest |-> n.rest \o sub]
    BY <2>1, RestReplaced
  <2>3. TakeDigits(w, 9) = [value |-> v, digits |-> d, rest |-> <<c>> \o sub]
    BY <2>1, <2>2, Zenon
  <2> QED  BY <2>3
<1>12. NextIs(<<c>> \o sub, Nine)
  <2>1. c.byte \in Nine
    BY Zenon DEF Digits, Nine
  <2>2. sub \in Seq(Tokens)
    <3>1. \A i \in 2 + 1..Len(w) : w[i] \in Tokens
      BY <1>4 DEF Text
    <3>2. Len(w) \in Int /\ 2 + 1 \in Int
      BY <1>3, <1>4
    <3> QED  BY <3>1, <3>2, SubSeqProperties
  <2> HIDE DEF sub, c
  <2>3. <<c>> \o sub # <<>> /\ (<<c>> \o sub)[1] = c
    BY <2>2
  <2> QED  BY <2>1, <2>3 DEF NextIs
<1>13. w \in Text /\ NextIs(TakeDigits(w, 9).rest, Nine)
  BY <1>4, <1>11, <1>12, Zenon
<1> QED  BY <1>13, Zenon DEF w, u, a, b

(* What a run of digits spells.                                            *)
IsRun(n, max) ==
  /\ n = [value |-> n.value, digits |-> n.digits, rest |-> n.rest]
  /\ n.digits \in 0..max /\ n.value \in 0..Pow(n.digits) - 1 /\ n.rest \in Text

LEMMA PieceOfNumber ==
  ASSUME NEW p \in Nat \ {0}, NEW q \in Nat \ {0}, NEW v \in 0..p * q - 1
  PROVE  v \div q \in 0..p - 1 /\ v % q \in 0..q - 1
<1> DEFINE d == v \div q  r == v % q
<1>1. /\ p * q \in Nat /\ v \in Nat /\ v < p * q
      /\ d \in Nat /\ r \in 0..q - 1 /\ v = q * d + r
  OBVIOUS
<1> HIDE DEF d, r
<1>2. d < p
  <2> SUFFICES ASSUME p <= d PROVE FALSE
    BY <1>1
  <2>1. q * p <= q * d
    BY <1>1
  <2>2. q * p = p * q
    OBVIOUS
  <2> QED  BY <1>1, <2>1, <2>2
<1> QED  BY <1>1, <1>2 DEF d, r

LEMMA TwoPieces ==
  ASSUME NEW p \in Nat \ {0}, NEW q \in Nat \ {0}, NEW a \in 0..p - 1, NEW b \in 0..q - 1
  PROVE  a * q + b \in 0..p * q - 1
<1>1. a * q \in Nat /\ a * q <= (p - 1) * q /\ (p - 1) * q = p * q - q /\ p * q \in Nat
  OBVIOUS
<1> DEFINE x == a * q  y == p * q
<1>2. x \in Nat /\ x <= y - q /\ y \in Nat
  BY <1>1
<1> HIDE DEF x, y
<1>3. x + b \in 0..y - 1
  BY <1>2
<1> QED  BY <1>3 DEF x, y

LEMMA FieldsOfNumber ==
  ASSUME NEW m, NEW x, NEW y, NEW z, m = [value |-> x, digits |-> y, rest |-> z]
  PROVE  /\ m.value = x /\ m.digits = y /\ m.rest = z
         /\ m = [value |-> m.value, digits |-> m.digits, rest |-> m.rest]
OBVIOUS

LEMMA LesserSplits ==
  ASSUME NEW max \in 0..9, NEW a \in 0..max, NEW d \in 1..9, NEW k, k = Lesser(max - a, d)
  PROVE  k \in 0..9 /\ a + k \in 0..max /\ d - k \in 0..9 /\ k + (d - k) = d /\ a \in 0..9
BY DEF Lesser

LEMMA RunGrows ==
  ASSUME NEW max \in 0..9, NEW n, IsRun(n, max), NEW t \in Tokens, t.byte \in Nine
  PROVE  IsRun(TakeToken(n, t, max), max)
<1> DEFINE a == n.digits  d == t.digits
           k == Lesser(max - a, d)  left == d - k
           m == TakeToken(n, t, max)
<1>1. a \in 0..max /\ n.value \in 0..Pow(a) - 1 /\ n.rest \in Text
  BY DEF IsRun
<1>2. d \in 1..9 /\ t.value \in 0..Pow(d) - 1
  BY TokenFields
<1>3. k \in 0..9 /\ a + k \in 0..max /\ left \in 0..9 /\ k + left = d /\ a \in 0..9
  BY <1>1, <1>2, LesserSplits
<1>4. m = [value |-> n.value * Pow(k) + t.value \div Pow(left), digits |-> a + k,
           rest |-> IF left = 0 THEN n.rest ELSE Append(n.rest, Digits(t.value % Pow(left), left))]
  BY TakenToken
<1> HIDE DEF a, d, k, left, m
<1>5. /\ Pow(a) * Pow(k) = Pow(a + k) /\ Pow(k) * Pow(left) = Pow(d)
      /\ Pow(a) \in Nat \ {0} /\ Pow(k) \in Nat \ {0} /\ Pow(left) \in Nat \ {0}
  <2>1. Pow(a) * Pow(k) = Pow(a + k)
    BY <1>3, PowersMultiply
  <2>2. Pow(k) * Pow(left) = Pow(k + left)
    BY <1>2, <1>3, PowersMultiply
  <2>3. Pow(a) \in Nat /\ Pow(a) > 0 /\ Pow(k) \in Nat /\ Pow(k) > 0
        /\ Pow(left) \in Nat /\ Pow(left) > 0
    BY <1>3, PowersKnown
  <2> QED  BY <1>3, <2>1, <2>2, <2>3
<1>6. t.value \div Pow(left) \in 0..Pow(k) - 1 /\ t.value % Pow(left) \in 0..Pow(left) - 1
  <2>1. t.value \in 0..Pow(k) * Pow(left) - 1
    BY <1>2, <1>5
  <2> QED  BY <1>5, <2>1, PieceOfNumber
<1>7. n.value * Pow(k) + t.value \div Pow(left) \in 0..Pow(a + k) - 1
  BY <1>1, <1>5, <1>6, TwoPieces
<1>8. left # 0 => Append(n.rest, Digits(t.value % Pow(left), left)) \in Text
  <2> HAVE left # 0
  <2>1. Digits(t.value % Pow(left), left) \in Tokens
    <3>1. left \in 1..9
      BY <1>3
    <3> QED  BY <1>6, <3>1, NumeralIsToken
  <2> QED  BY <1>1, <2>1, AppendProperties DEF Text
<1>9. /\ m.digits = a + k /\ m.value = n.value * Pow(k) + t.value \div Pow(left)
      /\ m.rest = IF left = 0 THEN n.rest ELSE Append(n.rest, Digits(t.value % Pow(left), left))
      /\ m = [value |-> m.value, digits |-> m.digits, rest |-> m.rest]
  BY <1>4, FieldsOfNumber, Zenon
<1>10. m.rest \in Text
  BY <1>1, <1>8, <1>9, Zenon
<1>11. IsRun(m, max)
  BY <1>3, <1>7, <1>9, <1>10, Zenon DEF IsRun
<1> QED  BY <1>11 DEF m

LEMMA TakenIsRun ==
  ASSUME NEW w \in Text, NEW max \in 0..9
  PROVE  IsRun(TakeDigits(w, max), max)
<1>1. PICK m : IsLead(w, Nine, m)
  BY LeadExists
<1>2. PICK f : /\ TakesUpto(f, w, max, m)
               /\ TakeDigits(w, max) = [f[m] EXCEPT !.rest = @ \o SubSeq(w, m + 1, Len(w))]
  BY <1>1, TakenIs
<1>3. m \in Nat /\ m <= Len(w) /\ Len(w) \in Nat /\ \A i \in 1..Len(w) : w[i] \in Tokens
  BY <1>1 DEF IsLead, Text
<1> DEFINE S == {i \in Nat : i <= m => IsRun(f[i], max)}
<1>4. 0 \in S
  <2>1. IsRun(NoDigits, max)
    <3>1. NoDigits = [value |-> 0, digits |-> 0, rest |-> <<>>] /\ Pow(0) = 1 /\ <<>> \in Text
      BY PowValues DEF NoDigits, Text
    <3>2. NoDigits.value = 0 /\ NoDigits.digits = 0 /\ NoDigits.rest = <<>>
      BY <3>1
    <3> QED  BY <3>1, <3>2 DEF IsRun
  <2> QED  BY <1>2, <2>1 DEF TakesUpto
<1>5. ASSUME NEW i \in S PROVE i + 1 \in S
  <2> SUFFICES ASSUME i + 1 <= m PROVE IsRun(f[i + 1], max)
    OBVIOUS
  <2>1. IsRun(f[i], max) /\ i + 1 \in 1..m /\ (i + 1) - 1 = i
    BY <1>3
  <2>2. f[i + 1] = TakeToken(f[i], w[i + 1], max)
    BY <1>2, <2>1 DEF TakesUpto
  <2>3. w[i + 1] \in Tokens /\ w[i + 1].byte \in Nine
    BY <1>1, <1>3, <2>1 DEF IsLead
  <2> QED  BY <2>1, <2>2, <2>3, RunGrows
<1>6. S = Nat
  <2>1. S \in SUBSET Nat
    OBVIOUS
  <2> HIDE DEF S
  <2> QED  BY <1>4, <1>5, <2>1, InductiveSet
<1> DEFINE n == f[m]  sub == SubSeq(w, m + 1, Len(w))
<1>7. IsRun(n, max)
  BY <1>3, <1>6
<1>8. sub \in Text
  <2>1. \A i \in m + 1..Len(w) : w[i] \in Tokens
    BY <1>3
  <2>2. Len(w) \in Int /\ m + 1 \in Int
    BY <1>3
  <2> QED  BY <2>1, <2>2, SubSeqProperties DEF Text
<1>9. TakeDigits(w, max) = [n EXCEPT !.rest = n.rest \o sub]
  BY <1>2, Zenon
<1> HIDE DEF n, sub
<1> DEFINE u == n.rest \o sub
<1>10. u \in Text
  BY <1>7, <1>8, ConcatProperties DEF IsRun, Text
<1>11. TakeDigits(w, max) = [value |-> n.value, digits |-> n.digits, rest |-> u]
  <2>1. n = [value |-> n.value, digits |-> n.digits, rest |-> n.rest]
    BY <1>7 DEF IsRun
  <2> HIDE DEF u
  <2>2. [n EXCEPT !.rest = u] = [value |-> n.value, digits |-> n.digits, rest |-> u]
    BY <2>1, RestReplaced, Zenon
  <2> QED  BY <1>9, <2>2, Zenon DEF u
<1> HIDE DEF u
<1>12. IsRun([value |-> n.value, digits |-> n.digits, rest |-> u], max)
  BY <1>7, <1>10 DEF IsRun
<1> QED  BY <1>11, <1>12, Zenon

(* A scan with the values g got and the text w left.                       *)
Here(g, w) == [got |-> g, rest |-> w]

LEMMA HereFields ==
  ASSUME NEW g, NEW w
  PROVE  Here(g, w).got = g /\ Here(g, w).rest = w
BY DEF Here

LEMMA RestLeft ==
  ASSUME NEW q, NEW g, NEW w, q = Here(g, w), NEW r
  PROVE  q.got = g /\ q.rest = w /\ [q EXCEPT !.rest = r] = Here(g, r)
BY DEF Here

LEMMA ScanOne ==
  ASSUME NEW s, NEW a
  PROVE  Scan(s, <<a>>) = ScanAll({s}, a)
<1> DEFINE p == <<a>>
<1>1. Len(p) = 1 /\ p[1] = a
  OBVIOUS
<1> HIDE DEF p
<1>2. PICK f : ScansUpto(f, s, p, Len(p)) /\ Scan(s, p) = f[Len(p)]
  <2>1. Len(p) \in Nat
    BY <1>1
  <2> QED  BY <2>1, ScanIs, Zenon
<1>3. f[0] = {s} /\ \A i \in 1..1 : f[i] = ScanAll(f[i - 1], p[i])
  BY <1>1, <1>2 DEF ScansUpto, Ok
<1>4. 1 \in 1..1 /\ 1 - 1 = 0
  OBVIOUS
<1>5. Scan(s, p) = ScanAll({s}, a)
  BY <1>1, <1>2, <1>3, <1>4, Zenon
<1> QED  BY <1>5 DEF p

LEMMA ScanTwo ==
  ASSUME NEW s, NEW a, NEW b
  PROVE  Scan(s, <<a, b>>) = ScanAll(ScanAll({s}, a), b)
<1> DEFINE p == <<a, b>>
<1>1. Len(p) = 2 /\ p[1] = a /\ p[2] = b
  OBVIOUS
<1> HIDE DEF p
<1>2. PICK f : ScansUpto(f, s, p, Len(p)) /\ Scan(s, p) = f[Len(p)]
  <2>1. Len(p) \in Nat
    BY <1>1
  <2> QED  BY <2>1, ScanIs, Zenon
<1>3. f[0] = {s} /\ \A i \in 1..2 : f[i] = ScanAll(f[i - 1], p[i])
  BY <1>1, <1>2 DEF ScansUpto, Ok
<1>4. 1 \in 1..2 /\ 1 - 1 = 0 /\ 2 \in 1..2 /\ 2 - 1 = 1
  OBVIOUS
<1>5. Scan(s, p) = ScanAll(ScanAll({s}, a), b)
  BY <1>1, <1>2, <1>3, <1>4, Zenon
<1> QED  BY <1>5 DEF p

LEMMA ScanThree ==
  ASSUME NEW s, NEW a, NEW b, NEW c
  PROVE  Scan(s, <<a, b, c>>) = ScanAll(ScanAll(ScanAll({s}, a), b), c)
<1> DEFINE p == <<a, b, c>>
<1>1. Len(p) = 3 /\ p[1] = a /\ p[2] = b /\ p[3] = c
  OBVIOUS
<1> HIDE DEF p
<1>2. PICK f : ScansUpto(f, s, p, Len(p)) /\ Scan(s, p) = f[Len(p)]
  <2>1. Len(p) \in Nat
    BY <1>1
  <2> QED  BY <2>1, ScanIs, Zenon
<1>3. f[0] = {s} /\ \A i \in 1..3 : f[i] = ScanAll(f[i - 1], p[i])
  BY <1>1, <1>2 DEF ScansUpto, Ok
<1>4. /\ 1 \in 1..3 /\ 1 - 1 = 0 /\ 2 \in 1..3 /\ 2 - 1 = 1
      /\ 3 \in 1..3 /\ 3 - 1 = 2
  OBVIOUS
<1>5. Scan(s, p) = ScanAll(ScanAll(ScanAll({s}, a), b), c)
  <2>1. f[1] = ScanAll({s}, a)
    BY <1>1, <1>3, <1>4, Zenon
  <2>2. f[2] = ScanAll(f[1], b)
    BY <1>1, <1>3, <1>4, Zenon
  <2>3. f[3] = ScanAll(f[2], c)
    BY <1>1, <1>3, <1>4, Zenon
  <2> QED  BY <1>1, <1>2, <2>1, <2>2, <2>3, Zenon
<1> QED  BY <1>5 DEF p

LEMMA ScanFive ==
  ASSUME NEW s, NEW a, NEW b, NEW c, NEW d, NEW e
  PROVE  Scan(s, <<a, b, c, d, e>>)
           = ScanAll(ScanAll(ScanAll(ScanAll(ScanAll({s}, a), b), c), d), e)
<1> DEFINE p == <<a, b, c, d, e>>
<1>1. Len(p) = 5 /\ p[1] = a /\ p[2] = b /\ p[3] = c /\ p[4] = d /\ p[5] = e
  OBVIOUS
<1> HIDE DEF p
<1>2. PICK f : ScansUpto(f, s, p, Len(p)) /\ Scan(s, p) = f[Len(p)]
  <2>1. Len(p) \in Nat
    BY <1>1
  <2> QED  BY <2>1, ScanIs, Zenon
<1>3. f[0] = {s} /\ \A i \in 1..5 : f[i] = ScanAll(f[i - 1], p[i])
  BY <1>1, <1>2 DEF ScansUpto, Ok
<1>4. /\ 1 \in 1..5 /\ 1 - 1 = 0 /\ 2 \in 1..5 /\ 2 - 1 = 1
      /\ 3 \in 1..5 /\ 3 - 1 = 2 /\ 4 \in 1..5 /\ 4 - 1 = 3 /\ 5 \in 1..5 /\ 5 - 1 = 4
  OBVIOUS
<1>5. Scan(s, p) = ScanAll(ScanAll(ScanAll(ScanAll(ScanAll({s}, a), b), c), d), e)
  <2>1. f[1] = ScanAll({s}, a)
    BY <1>1, <1>3, <1>4, Zenon
  <2>2. f[2] = ScanAll(f[1], b)
    BY <1>1, <1>3, <1>4, Zenon
  <2>3. f[3] = ScanAll(f[2], c)
    BY <1>1, <1>3, <1>4, Zenon
  <2>4. f[4] = ScanAll(f[3], d)
    BY <1>1, <1>3, <1>4, Zenon
  <2>5. f[5] = ScanAll(f[4], e)
    BY <1>1, <1>3, <1>4, Zenon
  <2> QED  BY <1>1, <1>2, <2>1, <2>2, <2>3, <2>4, <2>5, Zenon
<1> QED  BY <1>5 DEF p

LEMMA ScanAllOne ==
  ASSUME NEW q, NEW item
  PROVE  ScanAll({q}, item) = ScanItem(q, item) /\ ScanAll({}, item) = {}
BY DEF ScanAll

LEMMA ByteRead ==
  ASSUME NEW t \in Tokens, NEW r \in Text, NEW bytes, t.byte \in bytes, NEW g
  PROVE  ScanAll({Here(g, Cons(t, r))}, Expect(bytes)) = {Here(g, r)}
<1> DEFINE w == Cons(t, r)  q == Here(g, w)  item == Expect(bytes)
<1>1. NextIs(w, bytes) /\ Tail(w) = r
  BY NextFrom, TextFrom
<1> HIDE DEF w
<1>2. item.max = 0 /\ item.bytes = bytes /\ ~(item.max > 0)
  BY DEF Expect
<1>3. q.rest = w /\ [q EXCEPT !.rest = Tail(w)] = Here(g, Tail(w))
  <2>1. q = Here(g, w)
    OBVIOUS
  <2> HIDE DEF q
  <2>2. q.rest = w
    BY <2>1, RestLeft
  <2> DEFINE u == Tail(w)
  <2> HIDE DEF u
  <2>3. [q EXCEPT !.rest = u] = Here(g, u)
    BY <2>1 DEF Here
  <2> QED  BY <2>2, <2>3 DEF u
<1> HIDE DEF q, item
<1>4. ScanItem(q, item) = {[q EXCEPT !.rest = Tail(w)]}
  BY <1>1, <1>2, <1>3, Zenon DEF ScanItem, Ok
<1>5. ScanAll({q}, item) = {Here(g, r)}
  BY <1>1, <1>3, <1>4, ScanAllOne, Zenon
<1> QED  BY <1>5, Zenon DEF w, q, item

LEMMA ByteMissed ==
  ASSUME NEW w, NEW bytes, ~NextIs(w, bytes), NEW g
  PROVE  ScanAll({Here(g, w)}, Expect(bytes)) = {}
<1> DEFINE q == Here(g, w)  item == Expect(bytes)
<1>2. item.max = 0 /\ item.bytes = bytes /\ ~(item.max > 0)
  BY DEF Expect
<1>3. q.rest = w
  BY DEF Here
<1> HIDE DEF q, item
<1>4. ScanItem(q, item) = {}
  BY <1>2, <1>3, Zenon DEF ScanItem, Err
<1>5. ScanAll({q}, item) = {}
  BY <1>4, ScanAllOne, Zenon
<1> QED  BY <1>5, Zenon DEF q, item

LEMMA NumberTaken ==
  ASSUME NEW t \in Tokens, t.byte \in Nine, NEW r \in Text, NEW max \in Nat, NEW min \in Nat,
         min <= t.digits, t.digits <= max, t.digits = max \/ ~NextIs(r, Nine)
  PROVE  ReadNumber(Cons(t, r), min, max)
           = {[value |-> t.value, digits |-> t.digits, rest |-> r]}
<1> DEFINE w == Cons(t, r)  n == [value |-> t.value, digits |-> t.digits, rest |-> r]
<1>1. TakeDigits(w, max) = n
  BY RunTaken
<1>2. n.digits >= min
  BY TokenFields
<1> HIDE DEF w, n
<1>3. ReadNumber(w, min, max) = {n}
  BY <1>1, <1>2, Zenon DEF ReadNumber
<1> QED  BY <1>3, Zenon DEF w, n

LEMMA NumberScanned ==
  ASSUME NEW w, NEW min, NEW max, max > 0, NEW g
  PROVE  ScanAll({Here(g, w)}, Number(min, max))
           = {Here(Append(g, n.value), n.rest) : n \in ReadNumber(w, min, max)}
<1> DEFINE q == Here(g, w)  item == Number(min, max)
<1>1. item.max = max /\ item.min = min
  BY DEF Number
<1>2. q.rest = w /\ q.got = g
  BY DEF Here
<1> HIDE DEF q, item
<1>3. ScanItem(q, item)
        = {[got |-> Append(q.got, n.value), rest |-> n.rest] : n \in ReadNumber(q.rest, item.min, item.max)}
  BY <1>1, Zenon DEF ScanItem
<1>4. ScanItem(q, item) = {Here(Append(g, n.value), n.rest) : n \in ReadNumber(w, min, max)}
  BY <1>1, <1>2, <1>3, Zenon DEF Here
<1> QED  BY <1>4, ScanAllOne, Zenon DEF q, item

LEMMA NumberRead ==
  ASSUME NEW v, NEW n, Digits(v, n) \in Tokens, NEW r \in Text, NEW max \in Nat, NEW min \in Nat,
         min <= n, n <= max, n = max \/ ~NextIs(r, Nine), NEW g
  PROVE  ScanAll({Here(g, Cons(Digits(v, n), r))}, Number(min, max)) = {Here(Append(g, v), r)}
<1> DEFINE t == Digits(v, n)  w == Cons(t, r)  m == [value |-> v, digits |-> n, rest |-> r]
<1>1. t.byte \in Nine /\ t.value = v /\ t.digits = n
  BY DEF Digits, Nine
<1>2. max > 0
  BY <1>1, TokenFields
<1> HIDE DEF t
<1>3. ReadNumber(w, min, max) = {m}
  BY <1>1, NumberTaken DEF t
<1>4. m.value = v /\ m.rest = r
  OBVIOUS
<1> HIDE DEF m, w
<1>5. ScanAll({Here(g, w)}, Number(min, max))
        = {Here(Append(g, k.value), k.rest) : k \in ReadNumber(w, min, max)}
  BY <1>2, NumberScanned
<1>6. ScanAll({Here(g, w)}, Number(min, max)) = {Here(Append(g, v), r)}
  BY <1>3, <1>4, <1>5, Zenon
<1> QED  BY <1>6, Zenon DEF w, t

LEMMA NumberMissed ==
  ASSUME NEW w \in Text, ~NextIs(w, Nine), NEW max \in Nat, NEW min \in Nat, min > 0, max > 0, NEW g
  PROVE  ReadNumber(w, min, max) = {} /\ ScanAll({Here(g, w)}, Number(min, max)) = {}
<1>1. TakeDigits(w, max).digits = 0
  <2>1. TakeDigits(w, max) = [value |-> 0, digits |-> 0, rest |-> w]
    BY NoRun
  <2> QED  BY <2>1
<1>2. ReadNumber(w, min, max) = {}
  <2>1. ~(TakeDigits(w, max).digits >= min)
    BY <1>1
  <2> QED  BY <2>1, Zenon DEF ReadNumber
<1>3. ScanAll({Here(g, w)}, Number(min, max))
        = {Here(Append(g, k.value), k.rest) : k \in ReadNumber(w, min, max)}
  BY NumberScanned
<1> QED  BY <1>2, <1>3, Zenon

-----------------------------------------------------------------------------
(* Digits that are written.                                                *)
CountsDigits(k, n) == Pow(k - 1) <= n /\ n \div Pow(k - 1) < 10

LEMMA PowersStep ==
  ASSUME NEW k \in 1..9
  PROVE  Pow(k) = 10 * Pow(k - 1) /\ Pow(k - 1) \in Nat \ {0} /\ k - 1 \in 0..8
<1>1. k - 1 \in 0..8 /\ k - 1 \in 0..9 /\ (k - 1) + 1 = k
  OBVIOUS
<1>2. Pow(k - 1) * Pow(1) = Pow(k) /\ Pow(1) = 10
  <2>1. Pow(k - 1) * Pow(1) = Pow((k - 1) + 1)
    BY <1>1, PowersMultiply
  <2> QED  BY <1>1, <2>1, PowValues
<1>3. Pow(k - 1) \in Nat /\ Pow(k - 1) > 0
  BY <1>1, PowersKnown
<1> QED  BY <1>1, <1>2, <1>3

LEMMA PowersRise ==
  ASSUME NEW a \in 0..9, NEW b \in 0..9, a <= b
  PROVE  Pow(a) <= Pow(b)
<1>1. b - a \in 0..9 /\ a + (b - a) = b
  OBVIOUS
<1>2. Pow(a) * Pow(b - a) = Pow(b)
  BY <1>1, PowersMultiply
<1>3. Pow(a) \in Nat /\ Pow(b - a) \in Nat /\ Pow(b - a) > 0 /\ Pow(b) \in Nat
  BY <1>1, PowersKnown
<1> DEFINE x == Pow(a)  y == Pow(b - a)
<1> HIDE DEF x, y
<1>4. x * y >= x
  BY <1>3 DEF x, y
<1> QED  BY <1>2, <1>4 DEF x, y

LEMMA DigitsCounted ==
  ASSUME NEW n \in 0..Pow(9) - 1
  PROVE  /\ DigitCount(n) \in 1..9 /\ n < Pow(DigitCount(n))
         /\ n < 100 => DigitCount(n) <= 2
         /\ \A m \in 1..9 : n < Pow(m) => DigitCount(n) <= m
<1>1. CASE n = 0
  <2>1. DigitCount(n) = 1
    BY <1>1, Zenon DEF DigitCount
  <2> QED  BY <1>1, <2>1, PowValues
<1>2. CASE n # 0
  <2>0. n \in Nat /\ n > 0 /\ n < Pow(9) /\ Pow(9) \in Nat
    BY <1>2, PowersKnown
  <2> DEFINE c == CHOOSE k \in 1..10 : CountsDigits(k, n)
  <2>1. DigitCount(n) = c
    BY <1>2, Zenon DEF DigitCount, CountsDigits, Pow
  <2>2. \E k \in 1..10 : CountsDigits(k, n)
    <3> DEFINE S == {k \in Nat : k \in 1..9 /\ n < Pow(k)}
    <3>1. 9 \in S
      BY <2>0
    <3>2. PICK k \in S : \A j \in S : k <= j
      <4>1. S \subseteq Nat /\ S # {}
        BY <3>1
      <4> HIDE DEF S
      <4> QED  BY <4>1, LeastElement
    <3>3. k \in 1..9 /\ n < Pow(k) /\ Pow(k) = 10 * Pow(k - 1) /\ Pow(k - 1) \in Nat \ {0}
          /\ k - 1 \in 0..8
      BY <3>2, PowersStep
    <3>4. Pow(k - 1) <= n
      <4>1. CASE k = 1
        BY <2>0, <4>1, PowValues
      <4>2. CASE k # 1
        <5>1. k - 1 \notin S /\ k - 1 \in 1..9 /\ k - 1 \in Nat
          BY <3>2, <3>3, <4>2
        <5> QED  BY <2>0, <3>3, <5>1
      <4> QED  BY <4>1, <4>2
    <3> DEFINE p == Pow(k - 1)
    <3>5. n \div p < 10
      <4>1. p \in Nat \ {0} /\ n < 10 * p
        BY <3>3
      <4> HIDE DEF p
      <4>2. n \in 0..10 * p - 1 /\ 10 \in Nat \ {0}
        BY <2>0, <4>1
      <4>3. n \div p \in 0..10 - 1
        BY <4>1, <4>2, PieceOfNumber
      <4> QED  BY <4>3
    <3>6. k \in 1..10
      BY <3>3
    <3> QED  BY <3>4, <3>5, <3>6, Zenon DEF CountsDigits
  <2>3. c \in 1..10 /\ CountsDigits(c, n)
    BY <2>2, Zenon
  <2> HIDE DEF c
  <2>4. c # 10
    <3> SUFFICES ASSUME c = 10 PROVE FALSE
      OBVIOUS
    <3>1. Pow(10 - 1) <= n /\ 10 - 1 = 9
      BY <2>3 DEF CountsDigits
    <3> QED  BY <2>0, <3>1
  <2>5. c \in 1..9
    BY <2>3, <2>4
  <2>6. Pow(c) = 10 * Pow(c - 1) /\ Pow(c - 1) \in Nat \ {0} /\ c - 1 \in 0..9
    BY <2>5, PowersStep
  <2>7. n < Pow(c)
    <3> DEFINE p == Pow(c - 1)
    <3>1. p \in Nat \ {0} /\ n \div p < 10
      BY <2>3, <2>6 DEF CountsDigits
    <3> HIDE DEF p
    <3>2. n < 10 * p
      <4> DEFINE d == n \div p  r == n % p
      <4>1. d \in Nat /\ r \in 0..p - 1 /\ n = p * d + r /\ d <= 9
        BY <2>0, <3>1
      <4> HIDE DEF d, r
      <4>2. p * d <= p * 9
        BY <3>1, <4>1
      <4>3. p * d \in Nat
        BY <3>1, <4>1
      <4> DEFINE y == p * d
      <4> HIDE DEF y
      <4> QED  BY <3>1, <4>1, <4>2, <4>3 DEF y
    <3> QED  BY <2>6, <3>2 DEF p
  <2>8. ASSUME NEW m \in 1..9, n < Pow(m) PROVE c <= m
    <3> SUFFICES ASSUME ~(c <= m) PROVE FALSE
      OBVIOUS
    <3>1. m \in 0..9 /\ m <= c - 1
      BY <2>5
    <3>2. Pow(m) <= Pow(c - 1) /\ Pow(m) \in Nat
      BY <2>6, <3>1, PowersRise, PowersKnown
    <3>3. Pow(c - 1) <= n
      BY <2>3 DEF CountsDigits
    <3> QED  BY <2>0, <2>6, <2>8, <3>2, <3>3
  <2>9. n < 100 => c <= 2
    <3>1. 2 \in 1..9 /\ Pow(2) = 100
      BY PowValues
    <3> QED  BY <2>8, <3>1
  <2> QED  BY <2>1, <2>5, <2>7, <2>8, <2>9
<1> QED  BY <1>1, <1>2

LEMMA LargerOfTwo ==
  ASSUME NEW a \in Int, NEW b \in Int
  PROVE  Max({a, b}) = IF a >= b THEN a ELSE b
<1> DEFINE m == IF a >= b THEN a ELSE b
<1>1. m \in {a, b} /\ \A y \in {a, b} : m >= y
  OBVIOUS
<1>2. \A x \in {a, b} : (\A y \in {a, b} : x >= y) => x = m
  OBVIOUS
<1> HIDE DEF m
<1>3. Max({a, b}) = m
  BY <1>1, <1>2 DEF Max
<1> QED  BY <1>3 DEF m

LEMMA PaddedIsNumeral ==
  ASSUME NEW n \in 0..Pow(9) - 1, NEW width \in 1..4
  PROVE  \E k \in width..9 : /\ WritePadded(n, width) = <<Digits(n, k)>>
                             /\ Digits(n, k) \in Tokens
                             /\ (width = 2 /\ n < 100 => k = 2)
                             /\ (width = 1 /\ n < 100 => k \in 1..2 /\ k = DigitCount(n))
                             /\ (n < Pow(width) <=> k = width)
<1> DEFINE c == DigitCount(n)  k == IF width >= c THEN width ELSE c
<1>1. c \in 1..9 /\ n < Pow(c) /\ (n < 100 => c <= 2) /\ \A m \in 1..9 : n < Pow(m) => c <= m
  BY DigitsCounted
<1> HIDE DEF c
<1>2. k \in width..9 /\ k \in 1..9 /\ c <= k /\ c \in 0..9 /\ k \in 0..9
  BY <1>1
<1>3. Max({width, c}) = k
  BY <1>1, LargerOfTwo
<1>4. n \in 0..Pow(k) - 1
  <2>1. Pow(c) <= Pow(k) /\ Pow(c) \in Nat /\ Pow(k) \in Nat
    BY <1>2, PowersRise, PowersKnown
  <2>2. n \in Nat
    BY PowersKnown
  <2> QED  BY <1>1, <2>1, <2>2
<1>5. WritePadded(n, width) = <<Digits(n, k)>>
  BY <1>3, Zenon DEF WritePadded, c
<1>6. Digits(n, k) \in Tokens
  BY <1>2, <1>4, NumeralIsToken
<1>7. (width = 2 /\ n < 100 => k = 2) /\ (width = 1 /\ n < 100 => k \in 1..2 /\ k = c)
  BY <1>1, <1>2
<1>8. n < Pow(width) <=> k = width
  <2>1. n < Pow(k)
    <3>1. Pow(k) \in Nat /\ n \in Int
      BY <1>2, PowersKnown
    <3> HIDE DEF k
    <3> QED  BY <1>4, <3>1
  <2>2. n < Pow(width) => c <= width
    BY <1>1
  <2>3. c <= width => k = width
    BY <1>1
  <2> HIDE DEF k
  <2> QED  BY <2>1, <2>2, <2>3
<1> HIDE DEF k
<1> QED  BY <1>2, <1>5, <1>6, <1>7, <1>8 DEF c

LEMMA TwoDigits ==
  ASSUME NEW n \in 0..99
  PROVE  WritePadded(n, 2) = <<Digits(n, 2)>> /\ Digits(n, 2) \in Tokens
<1>1. n \in 0..Pow(9) - 1 /\ n < 100 /\ 2 \in 1..4
  BY PowValues
<1>2. PICK k \in 2..9 : /\ WritePadded(n, 2) = <<Digits(n, k)>> /\ Digits(n, k) \in Tokens
                        /\ (2 = 2 /\ n < 100 => k = 2)
  BY <1>1, PaddedIsNumeral
<1> QED  BY <1>1, <1>2

NoZeros(k, n) == n % Pow(k) = 0 /\ (n \div Pow(k)) % 10 # 0

LEMMA ProductHasNoRemainder ==
  ASSUME NEW m \in Nat \ {0}, NEW e \in Nat
  PROVE  (m * e) % m = 0
<1> DEFINE x == m * e  d == x \div m  r == x % m
<1>1. x \in Nat
  OBVIOUS
<1>2. d \in Nat /\ r \in 0..m - 1 /\ x = m * d + r
  <2> HIDE DEF x
  <2> QED  BY <1>1
<1> HIDE DEF d, r
<1>3. m * (e - d) = r
  <2>1. m * (e - d) = m * e - m * d
    BY <1>2
  <2> DEFINE y == m * d
  <2>2. y \in Nat
    BY <1>2
  <2> HIDE DEF x, y
  <2>3. x - y = r
    BY <1>1, <1>2, <2>2 DEF y
  <2> QED  BY <2>1, <2>3 DEF x, y
<1>4. CASE e - d = 0
  BY <1>3, <1>4 DEF r, x
<1>5. CASE e - d > 0
  <2>1. e - d >= 1 /\ e - d \in Nat
    BY <1>2, <1>5
  <2>2. m * (e - d) >= m * 1
    BY <2>1
  <2> QED  BY <1>2, <1>3, <2>2
<1>6. CASE e - d < 0
  <2>1. d - e >= 1 /\ d - e \in Nat
    BY <1>2, <1>6
  <2>2. m * (d - e) >= m * 1 /\ m * (d - e) = -(m * (e - d))
    BY <1>2, <2>1
  <2> QED  BY <1>2, <1>3, <2>2
<1>7. e - d \in Int
  BY <1>2
<1> QED  BY <1>4, <1>5, <1>6, <1>7

LEMMA OneMoreZero ==
  ASSUME NEW n \in Nat, NEW p \in Nat \ {0}, n % p = 0, (n \div p) % 10 = 0
  PROVE  n % (10 * p) = 0
<1> DEFINE d == n \div p
<1>1. d \in Nat /\ n = p * d
  OBVIOUS
<1> HIDE DEF d
<1>2. PICK e \in Nat : d = 10 * e
  <2>1. d % 10 = 0
    BY DEF d
  <2>2. d \div 10 \in Nat /\ d = 10 * (d \div 10)
    BY <1>1, <2>1
  <2> QED  BY <2>2
<1>3. 10 * p \in Nat \ {0} /\ n = (10 * p) * e
  <2>1. p * (10 * e) = (10 * p) * e
    OBVIOUS
  <2> QED  BY <1>1, <1>2, <2>1
<1> DEFINE m == 10 * p
<1> HIDE DEF m
<1>4. (m * e) % m = 0
  BY <1>2, <1>3, ProductHasNoRemainder DEF m
<1> QED  BY <1>3, <1>4 DEF m

LEMMA ZerosEnd ==
  ASSUME NEW n \in 1..Pow(9) - 1
  PROVE  \E k \in 0..8 : NoZeros(k, n)
<1> SUFFICES ASSUME \A k \in 0..8 : ~NoZeros(k, n) PROVE FALSE
  OBVIOUS
<1>0. n \in Nat /\ n > 0 /\ n < Pow(9) /\ Pow(9) \in Nat
  BY PowersKnown
<1> DEFINE S == {k \in Nat : k <= 9 => n % Pow(k) = 0}
<1>1. 0 \in S
  BY <1>0, PowValues
<1>2. ASSUME NEW k \in S PROVE k + 1 \in S
  <2> SUFFICES ASSUME k + 1 <= 9 PROVE n % Pow(k + 1) = 0
    OBVIOUS
  <2>1. k \in 0..8 /\ n % Pow(k) = 0 /\ k + 1 \in 1..9 /\ (k + 1) - 1 = k
    BY <1>2
  <2>2. Pow(k + 1) = 10 * Pow(k) /\ Pow(k) \in Nat \ {0}
    BY <2>1, PowersStep
  <2>3. (n \div Pow(k)) % 10 = 0
    BY <2>1 DEF NoZeros
  <2> QED  BY <1>0, <2>1, <2>2, <2>3, OneMoreZero
<1>3. S = Nat
  <2>1. S \in SUBSET Nat
    OBVIOUS
  <2> HIDE DEF S
  <2> QED  BY <1>1, <1>2, <2>1, InductiveSet
<1>4. n % Pow(9) = 0
  BY <1>3
<1> QED  BY <1>0, <1>4

Fractions == DOMAIN FractionDigits

LEMMA FractionIsWritten ==
  ASSUME NEW nanos \in 0..Pow(9) - 1, NEW fraction \in Fractions,
         NEW cut, cut = Truncated(nanos, FractionDigits[fraction])
  PROVE  \/ WriteFraction(nanos, fraction) = <<>> /\ cut = 0
         \/ \E n \in 1..9, v \in Nat :
              /\ WriteFraction(nanos, fraction) = <<Char("."), Digits(v, n)>>
              /\ Digits(v, n) \in Tokens
              /\ v * Pow(9 - n) = cut
<1> DEFINE n == FractionDigits[fraction]
           zeros == CHOOSE k \in 0..8 : NoZeros(k, nanos)
           out == WriteFraction(nanos, fraction)
<1>1. n \in {0, 3, 6, 9} /\ (fraction = "Auto" => n = 9)
  BY DEF FractionDigits, Fractions
<1>2. nanos \in Nat /\ nanos < Pow(9) /\ Pow(9) \in Nat
  BY PowersKnown
<1>3. out = IF n = 0 \/ (fraction = "Auto" /\ nanos = 0)
            THEN <<>>
            ELSE IF fraction = "Auto"
            THEN <<Char("."), Digits(nanos \div Pow(zeros), 9 - zeros)>>
            ELSE <<Char("."), Digits(nanos \div Pow(9 - n), n)>>
  BY Zenon DEF WriteFraction, NoZeros, Pow
<1>4. cut = nanos - (nanos % Pow(9 - n))
  BY Zenon DEF Truncated, Pow
<1> HIDE DEF n, out, zeros
<1>5. CASE n = 0
  <2>1. out = <<>>
    BY <1>3, <1>5, Zenon
  <2>2. 9 - n = 9
    BY <1>5
  <2>3. cut = 0
    BY <1>2, <1>4, <2>2
  <2> QED  BY <2>1, <2>3 DEF out
<1>6. CASE n # 0 /\ fraction = "Auto" /\ nanos = 0
  <2>1. out = <<>>
    BY <1>3, <1>6, Zenon
  <2>2. 9 - n = 0
    BY <1>1, <1>6
  <2>3. cut = 0
    BY <1>4, <1>6, <2>2, PowValues
  <2> QED  BY <2>1, <2>3 DEF out
<1>7. ASSUME NEW k \in 1..9 PROVE
        LET v == nanos \div Pow(9 - k)
        IN  v \in Nat /\ Digits(v, k) \in Tokens /\ v * Pow(9 - k) = nanos - (nanos % Pow(9 - k))
  <2> DEFINE p == Pow(k)  q == Pow(9 - k)  v == nanos \div q
  <2>1. p * q = Pow(9) /\ p \in Nat \ {0} /\ q \in Nat \ {0}
    <3>1. k \in 0..9 /\ 9 - k \in 0..9 /\ k + (9 - k) = 9
      OBVIOUS
    <3>2. p * q = Pow(k + (9 - k))
      BY <3>1, PowersMultiply
    <3> QED  BY <3>1, <3>2, PowersKnown
  <2> HIDE DEF p, q
  <2>2. v \in 0..p - 1
    <3>1. nanos \in 0..p * q - 1
      BY <2>1
    <3> QED  BY <2>1, <3>1, PieceOfNumber
  <2>3. Digits(v, k) \in Tokens
    BY <2>2, NumeralIsToken DEF p
  <2>4. v * q = nanos - (nanos % q) /\ v \in Nat
    <3> DEFINE r == nanos % q
    <3>1. v \in Nat /\ r \in Nat /\ nanos = q * v + r
      BY <1>2, <2>1
    <3> HIDE DEF v, r
    <3>2. q * v = v * q
      BY <2>1, <3>1
    <3> DEFINE y == v * q
    <3>3. y \in Nat
      BY <2>1, <3>1
    <3> HIDE DEF y
    <3>4. y = nanos - r
      BY <1>2, <3>1, <3>2, <3>3 DEF y
    <3> QED  BY <3>1, <3>4 DEF y, r
  <2> QED  BY <2>3, <2>4 DEF q
<1>8. CASE n # 0 /\ fraction = "Auto" /\ nanos # 0
  <2>1. zeros \in 0..8 /\ NoZeros(zeros, nanos)
    <3>1. nanos \in 1..Pow(9) - 1
      BY <1>2, <1>8
    <3> QED  BY <3>1, ZerosEnd, Zenon DEF zeros
  <2> DEFINE k == 9 - zeros
  <2>2. k \in 1..9 /\ 9 - k = zeros
    BY <2>1
  <2>3. out = <<Char("."), Digits(nanos \div Pow(zeros), k)>>
    BY <1>3, <1>8, Zenon
  <2>4. cut = nanos
    <3>1. 9 - n = 0
      BY <1>1, <1>8
    <3> QED  BY <1>2, <1>4, <3>1, PowValues
  <2> HIDE DEF k
  <2> DEFINE v == nanos \div Pow(zeros)
  <2>5. v \in Nat /\ Digits(v, k) \in Tokens /\ v * Pow(9 - k) = nanos - (nanos % Pow(zeros))
    BY <1>7, <2>2
  <2>6. v * Pow(9 - k) = cut
    <3>1. nanos % Pow(zeros) = 0
      BY <2>1 DEF NoZeros
    <3> HIDE DEF v
    <3>2. v * Pow(9 - k) = nanos - 0
      BY <2>5, <3>1
    <3> QED  BY <1>2, <2>4, <3>2
  <2> HIDE DEF v
  <2>7. out = <<Char("."), Digits(v, k)>>
    BY <2>3 DEF v
  <2> QED  BY <2>2, <2>5, <2>6, <2>7 DEF out
<1>9. CASE n # 0 /\ fraction # "Auto"
  <2>1. n \in 1..9
    BY <1>1, <1>9
  <2> DEFINE v == nanos \div Pow(9 - n)
  <2>2. out = <<Char("."), Digits(v, n)>>
    BY <1>3, <1>9, Zenon
  <2>3. v \in Nat /\ Digits(v, n) \in Tokens /\ v * Pow(9 - n) = cut
    BY <1>4, <1>7, <2>1
  <2> HIDE DEF v
  <2> QED  BY <2>1, <2>2, <2>3 DEF out
<1> HIDE DEF n, zeros
<1> QED  BY <1>5, <1>6, <1>8, <1>9

LEMMA Longer ==
  ASSUME NEW S, NEW p \in Seq(S), NEW x \in S, NEW q \in Seq(S),
         Len(q) = Len(p) + 1, q[Len(q)] = x, \A i \in 1..Len(p) : q[i] = p[i]
  PROVE  Append(p, x) = q
<1> DEFINE y == Append(p, x)
<1>1. /\ y \in Seq(S) /\ Len(y) = Len(p) + 1
      /\ y[Len(p) + 1] = x /\ \A i \in 1..Len(p) : y[i] = p[i]
  BY AppendProperties
<1> HIDE DEF y
<1>2. y \in Seq(S) /\ Len(y) = Len(q) /\ Len(p) \in Nat
  BY <1>1
<1>3. \A i \in 1..Len(y) : y[i] = q[i]
  BY <1>1, <1>2
<1>4. y = q
  BY <1>2, <1>3, SeqEqual
<1> QED  BY <1>4 DEF y

LEMMA Append1 ==
  ASSUME NEW a
  PROVE  Append(<<>>, a) = <<a>>
OBVIOUS

LEMMA Append2 ==
  ASSUME NEW a, NEW b
  PROVE  Append(<<a>>, b) = <<a, b>>
<1> DEFINE S == {a, b}  p == <<a>>  q == <<a, b>>
<1>1. p \in Seq(S) /\ q \in Seq(S) /\ b \in S /\ Len(p) = 1 /\ Len(q) = 2
  OBVIOUS
<1>2. q[2] = b /\ q[1] = a /\ p[1] = a
  OBVIOUS
<1> HIDE DEF S, p, q
<1>3. Len(q) = Len(p) + 1 /\ q[Len(q)] = b /\ \A i \in 1..Len(p) : q[i] = p[i]
  BY <1>1, <1>2
<1>4. Append(p, b) = q
  BY <1>1, <1>3, Longer, Zenon
<1> QED  BY <1>4, Zenon DEF p, q

LEMMA Append3 ==
  ASSUME NEW a, NEW b, NEW c
  PROVE  Append(<<a, b>>, c) = <<a, b, c>>
<1> DEFINE S == {a, b, c}  p == <<a, b>>  q == <<a, b, c>>
<1>1. p \in Seq(S) /\ q \in Seq(S) /\ c \in S /\ Len(p) = 2 /\ Len(q) = 3
  OBVIOUS
<1>2. q[3] = c /\ q[1] = a /\ p[1] = a /\ q[2] = b /\ p[2] = b
  OBVIOUS
<1> HIDE DEF S, p, q
<1>3. Len(q) = Len(p) + 1 /\ q[Len(q)] = c /\ \A i \in 1..Len(p) : q[i] = p[i]
  BY <1>1, <1>2
<1>4. Append(p, c) = q
  BY <1>1, <1>3, Longer, Zenon
<1> QED  BY <1>4, Zenon DEF p, q

LEMMA Append4 ==
  ASSUME NEW a, NEW b, NEW c, NEW d
  PROVE  Append(<<a, b, c>>, d) = <<a, b, c, d>>
<1> DEFINE S == {a, b, c, d}  p == <<a, b, c>>  q == <<a, b, c, d>>
<1>1. p \in Seq(S) /\ q \in Seq(S) /\ d \in S /\ Len(p) = 3 /\ Len(q) = 4
  OBVIOUS
<1>2. q[4] = d /\ q[1] = a /\ p[1] = a /\ q[2] = b /\ p[2] = b /\ q[3] = c /\ p[3] = c
  OBVIOUS
<1> HIDE DEF S, p, q
<1>3. Len(q) = Len(p) + 1 /\ q[Len(q)] = d /\ \A i \in 1..Len(p) : q[i] = p[i]
  BY <1>1, <1>2
<1>4. Append(p, d) = q
  BY <1>1, <1>3, Longer, Zenon
<1> QED  BY <1>4, Zenon DEF p, q

LEMMA Append5 ==
  ASSUME NEW a, NEW b, NEW c, NEW d, NEW e
  PROVE  Append(<<a, b, c, d>>, e) = <<a, b, c, d, e>>
<1> DEFINE S == {a, b, c, d, e}  p == <<a, b, c, d>>  q == <<a, b, c, d, e>>
<1>1. p \in Seq(S) /\ q \in Seq(S) /\ e \in S /\ Len(p) = 4 /\ Len(q) = 5
  OBVIOUS
<1>2. q[5] = e /\ q[1] = a /\ p[1] = a /\ q[2] = b /\ p[2] = b /\ q[3] = c /\ p[3] = c /\ q[4] = d /\ p[4] = d
  OBVIOUS
<1> HIDE DEF S, p, q
<1>3. Len(q) = Len(p) + 1 /\ q[Len(q)] = e /\ \A i \in 1..Len(p) : q[i] = p[i]
  BY <1>1, <1>2
<1>4. Append(p, e) = q
  BY <1>1, <1>3, Longer, Zenon
<1> QED  BY <1>4, Zenon DEF p, q

LEMMA Append6 ==
  ASSUME NEW a, NEW b, NEW c, NEW d, NEW e, NEW f
  PROVE  Append(<<a, b, c, d, e>>, f) = <<a, b, c, d, e, f>>
<1> DEFINE S == {a, b, c, d, e, f}  p == <<a, b, c, d, e>>  q == <<a, b, c, d, e, f>>
<1>1. p \in Seq(S) /\ q \in Seq(S) /\ f \in S /\ Len(p) = 5 /\ Len(q) = 6
  OBVIOUS
<1>2. q[6] = f /\ q[1] = a /\ p[1] = a /\ q[2] = b /\ p[2] = b /\ q[3] = c /\ p[3] = c /\ q[4] = d /\ p[4] = d /\ q[5] = e /\ p[5] = e
  OBVIOUS
<1> HIDE DEF S, p, q
<1>3. Len(q) = Len(p) + 1 /\ q[Len(q)] = f /\ \A i \in 1..Len(p) : q[i] = p[i]
  BY <1>1, <1>2
<1>4. Append(p, f) = q
  BY <1>1, <1>3, Longer, Zenon
<1> QED  BY <1>4, Zenon DEF p, q

LEMMA Append7 ==
  ASSUME NEW a, NEW b, NEW c, NEW d, NEW e, NEW f, NEW g
  PROVE  Append(<<a, b, c, d, e, f>>, g) = <<a, b, c, d, e, f, g>>
<1> DEFINE S == {a, b, c, d, e, f, g}  p == <<a, b, c, d, e, f>>  q == <<a, b, c, d, e, f, g>>
<1>1. p \in Seq(S) /\ q \in Seq(S) /\ g \in S /\ Len(p) = 6 /\ Len(q) = 7
  OBVIOUS
<1>2. q[7] = g /\ q[1] = a /\ p[1] = a /\ q[2] = b /\ p[2] = b /\ q[3] = c /\ p[3] = c /\ q[4] = d /\ p[4] = d /\ q[5] = e /\ p[5] = e /\ q[6] = f /\ p[6] = f
  OBVIOUS
<1> HIDE DEF S, p, q
<1>3. Len(q) = Len(p) + 1 /\ q[Len(q)] = g /\ \A i \in 1..Len(p) : q[i] = p[i]
  BY <1>1, <1>2
<1>4. Append(p, g) = q
  BY <1>1, <1>3, Longer, Zenon
<1> QED  BY <1>4, Zenon DEF p, q

LEMMA Append8 ==
  ASSUME NEW a, NEW b, NEW c, NEW d, NEW e, NEW f, NEW g, NEW h
  PROVE  Append(<<a, b, c, d, e, f, g>>, h) = <<a, b, c, d, e, f, g, h>>
<1> DEFINE S == {a, b, c, d, e, f, g, h}  p == <<a, b, c, d, e, f, g>>  q == <<a, b, c, d, e, f, g, h>>
<1>1. p \in Seq(S) /\ q \in Seq(S) /\ h \in S /\ Len(p) = 7 /\ Len(q) = 8
  OBVIOUS
<1>2. q[8] = h /\ q[1] = a /\ p[1] = a /\ q[2] = b /\ p[2] = b /\ q[3] = c /\ p[3] = c /\ q[4] = d /\ p[4] = d /\ q[5] = e /\ p[5] = e /\ q[6] = f /\ p[6] = f /\ q[7] = g /\ p[7] = g
  OBVIOUS
<1> HIDE DEF S, p, q
<1>3. Len(q) = Len(p) + 1 /\ q[Len(q)] = h /\ \A i \in 1..Len(p) : q[i] = p[i]
  BY <1>1, <1>2
<1>4. Append(p, h) = q
  BY <1>1, <1>3, Longer, Zenon
<1> QED  BY <1>4, Zenon DEF p, q

LEMMA SignPut ==
  ASSUME NEW a \in Int, NEW b, NEW c, NEW r, NEW sign \in Int
  PROVE  [Here(<<a, b, c>>, r) EXCEPT !.got[1] = sign * @] = Here(<<sign * a, b, c>>, r)
<1> DEFINE g == <<a, b, c>>
<1>1. [g EXCEPT ![1] = sign * @] = <<sign * a, b, c>>
  OBVIOUS
<1>2. [Here(g, r) EXCEPT !.got[1] = sign * @] = Here([g EXCEPT ![1] = sign * @], r)
  BY DEF Here
<1> QED  BY <1>1, <1>2

-----------------------------------------------------------------------------
(* Texts put together.                                                     *)
(* A text of one token; texts put together, without the laws of sequences. *)
One(t) == <<t>>
Glue(x, y) == x \o y

LEMMA GlueOne ==
  ASSUME NEW x \in Text, NEW t \in Tokens, NEW r \in Text
  PROVE  Glue(Glue(x, One(t)), r) = Glue(x, Cons(t, r))
<1>1. One(t) \in Text /\ One(t) = <<t>>
  BY DEF Text, One
<1>2. <<t>> \o r = Cons(t, r)
  BY Zenon DEF Cons
<1>3. (x \o One(t)) \o r = x \o (One(t) \o r)
  BY <1>1, ConcatAssociative DEF Text
<1> QED  BY <1>1, <1>2, <1>3, Zenon DEF Glue

LEMMA GlueText ==
  ASSUME NEW x \in Text, NEW t \in Tokens
  PROVE  Glue(x, One(t)) \in Text /\ Cons(t, x) \in Text
<1>1. One(t) \in Text
  BY DEF Text, One
<1>2. x \o One(t) \in Text
  BY <1>1 DEF Text
<1> QED  BY <1>2, TextFrom, Zenon DEF Glue

LEMMA GlueTexts ==
  ASSUME NEW x \in Text, NEW y \in Text
  PROVE  Glue(x, y) \in Text
BY DEF Text, Glue

LEMMA OneText ==
  ASSUME NEW t \in Tokens, NEW r \in Text
  PROVE  One(t) \in Text /\ Glue(One(t), r) = Cons(t, r)
BY DEF Text, One, Glue, Cons

LEMMA NoneText ==
  ASSUME NEW x \in Text
  PROVE  <<>> \in Text /\ Glue(<<>>, x) = x /\ Glue(x, <<>>) = x
BY ConcatEmptySeq DEF Text, Glue

LEMMA GlueGlue ==
  ASSUME NEW x \in Text, NEW y \in Text, NEW r \in Text
  PROVE  Glue(Glue(x, y), r) = Glue(x, Glue(y, r))
BY ConcatAssociative DEF Text, Glue

LEMMA GlueTwo ==
  ASSUME NEW x \in Text, NEW a \in Tokens, NEW b \in Tokens, NEW r \in Text
  PROVE  Glue(Glue(Glue(x, One(a)), One(b)), r) = Glue(x, Cons(a, Cons(b, r)))
BY GlueOne, GlueText

LEMMA GlueFour ==
  ASSUME NEW x \in Text, NEW a \in Tokens, NEW b \in Tokens,
         NEW c \in Tokens, NEW d \in Tokens, NEW r \in Text
  PROVE  Glue(Glue(Glue(Glue(Glue(x, One(a)), One(b)), One(c)), One(d)), r)
           = Glue(x, Cons(a, Cons(b, Cons(c, Cons(d, r)))))
<1> DEFINE y == Glue(Glue(x, One(a)), One(b))  u == Cons(c, Cons(d, r))
<1>1. y \in Text /\ u \in Text
  BY GlueText
<1>2. Glue(y, u) = Glue(x, Cons(a, Cons(b, u)))
  <2> HIDE DEF u
  <2> QED  BY <1>1, GlueTwo
<1>3. Glue(Glue(Glue(y, One(c)), One(d)), r) = Glue(y, u)
  <2> HIDE DEF y
  <2> QED  BY <1>1, GlueTwo
<1> QED  BY <1>2, <1>3, Zenon DEF y, u

(* A text put together of pieces.                                          *)
LEMMA GluedFive ==
  ASSUME NEW a, NEW b, NEW c, NEW d, NEW e
  PROVE  a \o b \o c \o d \o e = Glue(Glue(Glue(Glue(a, b), c), d), e)
BY Zenon DEF Glue

-----------------------------------------------------------------------------
(* The year of a date, written with as many digits as it has and read as   *)
(* many as there are.                                                      *)

(* The years of all dates have at most as many digits as a reader takes.   *)

LEMMA YearIsShort ==
  ASSUME NEW d \in Date
  PROVE  Magnitude(CivilFromDays(d).year) \in 0..Pow(9) - 1
<1> DEFINE N == Pow(9)
           lo == CivilFromDays(DateMin)  hi == CivilFromDays(DateMax)  c == CivilFromDays(d)
<1>1. DateMin \in Int /\ DateMax \in Int /\ d \in Int /\ DateMin <= d /\ d <= DateMax
  BY DateAssumption DEF Date
<1>2. /\ lo.year \in Int /\ lo.month \in Int /\ hi.year \in Int /\ hi.month \in Int
      /\ c.year \in Int /\ c.month \in Int
      /\ lo.month \in 1..12 /\ hi.month \in 1..12 /\ c.month \in 1..12
  <2>1. DateMin \in Date /\ DateMax \in Date
    BY LimitsAreDates
  <2> QED  BY <2>1, CivilFields
<1>3. lo.year * 12 + lo.month <= c.year * 12 + c.month
      /\ c.year * 12 + c.month <= hi.year * 12 + hi.month
  BY <1>1, CivilInOrder
<1>4. Magnitude(lo.year) < N /\ Magnitude(hi.year) < N
  BY YearDigitsAssumption, Zenon DEF Pow
<1>7. N \in Nat
  BY PowersKnown
<1> HIDE DEF lo, hi, c, N
<1>5. lo.year <= c.year /\ c.year <= hi.year
  BY <1>2, <1>3
<1>6. Magnitude(c.year) \in 0..N - 1
  BY <1>2, <1>4, <1>5, <1>7 DEF Magnitude
<1> QED  BY <1>6, Zenon DEF c, N

DateTail(c, k, r) ==
  Cons(Digits(Magnitude(c.year), k), Cons(Char("-"),
    Cons(Digits(c.month, 2), Cons(Char("-"), Cons(Digits(c.day, 2), r)))))

LEMMA DateTailIsText ==
  ASSUME NEW d \in Date, NEW c, c = CivilFromDays(d), NEW k, Digits(Magnitude(c.year), k) \in Tokens,
         NEW r \in Text
  PROVE  /\ DateTail(c, k, r) \in Text
         /\ Digits(c.month, 2) \in Tokens /\ Digits(c.day, 2) \in Tokens /\ Char("-") \in Tokens
         /\ Cons(Digits(c.day, 2), r) \in Text
         /\ Cons(Char("-"), Cons(Digits(c.day, 2), r)) \in Text
         /\ Cons(Digits(c.month, 2), Cons(Char("-"), Cons(Digits(c.day, 2), r))) \in Text
         /\ Cons(Char("-"), Cons(Digits(c.month, 2), Cons(Char("-"), Cons(Digits(c.day, 2), r)))) \in Text
         /\ WritePadded(c.month, 2) = <<Digits(c.month, 2)>>
         /\ WritePadded(c.day, 2) = <<Digits(c.day, 2)>>
<1>1. c.month \in 0..99 /\ c.day \in 0..99
  <2>1. c.year \in Int /\ c.month \in 1..12 /\ c.day \in Int /\ 1 <= c.day
        /\ c.day <= DaysInMonth(c.year, c.month)
    BY CivilFields
  <2>2. DaysInMonth(c.year, c.month) \in Int /\ DaysInMonth(c.year, c.month) <= 31
    BY <2>1, MonthLength
  <2> QED  BY <2>1, <2>2
<1>2. Digits(c.month, 2) \in Tokens /\ Digits(c.day, 2) \in Tokens
      /\ WritePadded(c.month, 2) = <<Digits(c.month, 2)>>
      /\ WritePadded(c.day, 2) = <<Digits(c.day, 2)>>
  BY <1>1, TwoDigits
<1>3. Char("-") \in Tokens
  <2>1. "-" \in Bytes
    BY Zenon DEF Bytes
  <2> QED  BY <2>1, CharIsToken
<1>4. Cons(Digits(c.day, 2), r) \in Text
  BY <1>2, TextFrom
<1>5. Cons(Char("-"), Cons(Digits(c.day, 2), r)) \in Text
  BY <1>3, <1>4, TextFrom
<1>6. Cons(Digits(c.month, 2), Cons(Char("-"), Cons(Digits(c.day, 2), r))) \in Text
  BY <1>2, <1>5, TextFrom
<1>7. Cons(Char("-"), Cons(Digits(c.month, 2), Cons(Char("-"), Cons(Digits(c.day, 2), r)))) \in Text
  BY <1>3, <1>6, TextFrom
<1>8. DateTail(c, k, r) \in Text
  BY <1>7, TextFrom DEF DateTail
<1> QED  BY <1>2, <1>3, <1>4, <1>5, <1>6, <1>7, <1>8, Zenon

LEMMA DateWritten ==
  ASSUME NEW d \in Date, NEW c, c = CivilFromDays(d), NEW r \in Text
  PROVE  \E k \in 4..9 :
           /\ Digits(Magnitude(c.year), k) \in Tokens
           /\ Glue(WriteDate(d), r) = IF c.year < 0 THEN Cons(Char("-"), DateTail(c, k, r))
                                     ELSE DateTail(c, k, r)
           /\ WriteDate(d) \in Text
<1>1. PICK k \in 4..9 : WritePadded(Magnitude(c.year), 4) = One(Digits(Magnitude(c.year), k))
                        /\ Digits(Magnitude(c.year), k) \in Tokens
  <2>1. Magnitude(c.year) \in 0..Pow(9) - 1
    BY YearIsShort
  <2>2. 4 \in 1..4
    OBVIOUS
  <2> QED  BY <2>1, <2>2, PaddedIsNumeral DEF One
<1> DEFINE b == Char("-")
           sg == IF c.year < 0 THEN One(b) ELSE <<>>
           y == Digits(Magnitude(c.year), k)  m == Digits(c.month, 2)  e == Digits(c.day, 2)
           u == Cons(b, Cons(m, Cons(b, Cons(e, r))))
           x == Glue(sg, One(y))
<1>2. /\ y \in Tokens /\ m \in Tokens /\ e \in Tokens /\ b \in Tokens /\ u \in Text
      /\ DateTail(c, k, r) = Cons(y, u) /\ DateTail(c, k, r) \in Text
      /\ WritePadded(c.month, 2) = One(m) /\ WritePadded(c.day, 2) = One(e)
  BY <1>1, DateTailIsText, Zenon DEF DateTail, One
<1>3. WriteDate(d) = Glue(Glue(Glue(Glue(x, One(b)), One(m)), One(b)), One(e))
  BY <1>1, <1>2, Zenon DEF WriteDate, WriteYmd, One, Glue
<1> HIDE DEF u
<1>4. sg \in Text /\ Glue(sg, Cons(y, u)) = IF c.year < 0 THEN Cons(b, Cons(y, u)) ELSE Cons(y, u)
  <2>1. Cons(y, u) \in Text
    BY <1>2
  <2>2. CASE c.year < 0
    <3>1. sg = One(b)
      BY <2>2
    <3> QED  BY <1>2, <2>1, <2>2, <3>1, OneText
  <2>3. CASE ~(c.year < 0)
    <3>1. sg = <<>>
      BY <2>3
    <3> QED  BY <2>1, <2>3, <3>1, NoneText
  <2> QED  BY <2>2, <2>3
<1> HIDE DEF sg, y, m, e, b
<1>5. x \in Text /\ Glue(x, u) = Glue(sg, Cons(y, u))
  BY <1>2, <1>4, GlueOne, GlueText
<1> HIDE DEF x
<1>6. Glue(WriteDate(d), r) = Glue(x, u)
  BY <1>2, <1>3, <1>5, GlueFour DEF u
<1>7. WriteDate(d) \in Text
  BY <1>2, <1>3, <1>5, GlueText
<1>8. Glue(WriteDate(d), r) = IF c.year < 0 THEN Cons(b, DateTail(c, k, r)) ELSE DateTail(c, k, r)
  BY <1>2, <1>4, <1>5, <1>6, Zenon
<1> QED  BY <1>1, <1>7, <1>8, Zenon DEF b, y

LEMMA DashAhead ==
  /\ Char("-") \in Tokens /\ Char("-").byte = "-"
  /\ Char(":") \in Tokens /\ Char(":").byte = ":"
  /\ Char("+") \in Tokens /\ Char("+").byte = "+"
  /\ Char("T") \in Tokens /\ Char("T").byte = "T"
  /\ Char("Z") \in Tokens /\ Char("Z").byte = "Z"
  /\ Char(".") \in Tokens /\ Char(".").byte = "."
  /\ Char(" ") \in Tokens /\ Char(" ").byte = " "
  /\ Char(",") \in Tokens /\ Char(",").byte = ","
  /\ Char("s") \in Tokens /\ Char("s").byte = "s"
<1>1. {"-", ":", "+", "T", "Z", ".", " ", ",", "s"} \subseteq Bytes
  BY Zenon DEF Bytes, Letters
<1> DEFINE B == Bytes
<1>2. /\ "-" \in B /\ ":" \in B /\ "+" \in B /\ "T" \in B /\ "Z" \in B /\ "." \in B
      /\ " " \in B /\ "," \in B /\ "s" \in B
  BY <1>1, Zenon
<1> HIDE DEF B
<1>3. ASSUME NEW b \in B, b \notin {"9", "weekday", "month"}
      PROVE  Char(b) \in Tokens /\ Char(b).byte = b
  BY <1>3, CharIsToken DEF B
<1> QED  BY <1>2, <1>3

(* A scan s becomes q by one item, or by a pattern, without a choice.      *)
Reads(s, item, q)       == ScanAll({s}, item) = {q}
ReadsAll(s, pattern, q) == Scan(s, pattern) = {q}

LEMMA NumeralReads ==
  ASSUME NEW t \in Tokens, t.byte \in Nine, NEW r \in Text, NEW max \in Nat, NEW min \in Nat,
         min <= t.digits, t.digits <= max, t.digits = max \/ ~NextIs(r, Nine),
         NEW g, NEW v, v = t.value, NEW h, h = Append(g, v)
  PROVE  Reads(Here(g, Cons(t, r)), Number(min, max), Here(h, r))
<1>1. t = Digits(t.value, t.digits)
  BY TokenFields
<1> DEFINE n == t.digits
<1>2. t = Digits(v, n) /\ Digits(v, n) \in Tokens /\ min <= n /\ n <= max
      /\ (n = max \/ ~NextIs(r, Nine))
  BY <1>1
<1> HIDE DEF n
<1>3. ScanAll({Here(g, Cons(Digits(v, n), r))}, Number(min, max)) = {Here(Append(g, v), r)}
  BY <1>2, NumberRead
<1> QED  BY <1>2, <1>3, Zenon DEF Reads

LEMMA TwoReads ==
  ASSUME NEW v, Digits(v, 2) \in Tokens, NEW r \in Text, NEW g, NEW h, h = Append(g, v)
  PROVE  Reads(Here(g, Cons(Digits(v, 2), r)), Two, Here(h, r))
<1> DEFINE t == Digits(v, 2)
<1>1. t \in Tokens /\ t.byte \in Nine /\ t.value = v /\ t.digits = 2
  BY DEF Digits, Nine
<1> HIDE DEF t
<1>2. Reads(Here(g, Cons(t, r)), Number(2, 2), Here(h, r))
  <2>1. 2 \in Nat /\ 2 <= t.digits /\ t.digits <= 2 /\ t.digits = 2
    BY <1>1
  <2> QED  BY <1>1, <2>1, NumeralReads
<1> QED  BY <1>2, Zenon DEF t, Two

LEMMA ByteReads ==
  ASSUME NEW t \in Tokens, NEW r \in Text, NEW bytes, t.byte \in bytes, NEW g
  PROVE  Reads(Here(g, Cons(t, r)), Expect(bytes), Here(g, r))
BY ByteRead DEF Reads

LEMMA ReadsOne ==
  ASSUME NEW s, NEW a, NEW q, Reads(s, a, q)
  PROVE  ReadsAll(s, <<a>>, q)
<1> DEFINE A == {s}  B == {q}  R == Scan(s, <<a>>)
<1>1. R = ScanAll(A, a) /\ ScanAll(A, a) = B
  BY ScanOne DEF Reads
<1> HIDE DEF A, B, R
<1>2. R = B
  BY <1>1
<1> QED  BY <1>2 DEF R, B, ReadsAll

LEMMA ReadsTwo ==
  ASSUME NEW s, NEW a, NEW b, NEW s1, NEW q, Reads(s, a, s1), Reads(s1, b, q)
  PROVE  ReadsAll(s, <<a, b>>, q)
<1> DEFINE A == {s}  B == {s1}  C == {q}  R == Scan(s, <<a, b>>)
<1>1. R = ScanAll(ScanAll(A, a), b)
  BY ScanTwo
<1>2. ScanAll(A, a) = B /\ ScanAll(B, b) = C
  BY DEF Reads
<1> HIDE DEF A, B, C, R
<1>3. R = C
  BY <1>1, <1>2
<1> QED  BY <1>3 DEF R, C, ReadsAll

LEMMA ReadsThree ==
  ASSUME NEW s, NEW a, NEW b, NEW c, NEW s1, NEW s2, NEW q,
         Reads(s, a, s1), Reads(s1, b, s2), Reads(s2, c, q)
  PROVE  ReadsAll(s, <<a, b, c>>, q)
<1> DEFINE A == {s}  B == {s1}  C == {s2}  D == {q}  R == Scan(s, <<a, b, c>>)
<1>1. R = ScanAll(ScanAll(ScanAll(A, a), b), c)
  BY ScanThree
<1>2. ScanAll(A, a) = B /\ ScanAll(B, b) = C /\ ScanAll(C, c) = D
  BY DEF Reads
<1> HIDE DEF A, B, C, D, R
<1>3. R = D
  BY <1>1, <1>2
<1> QED  BY <1>3 DEF R, D, ReadsAll

LEMMA ReadsFive ==
  ASSUME NEW s, NEW a, NEW b, NEW c, NEW d, NEW e,
         NEW s1, NEW s2, NEW s3, NEW s4, NEW q,
         Reads(s, a, s1), Reads(s1, b, s2), Reads(s2, c, s3), Reads(s3, d, s4), Reads(s4, e, q)
  PROVE  ReadsAll(s, <<a, b, c, d, e>>, q)
<1> DEFINE A == {s}  B == {s1}  C == {s2}  D == {s3}  E == {s4}  F == {q}
           R == Scan(s, <<a, b, c, d, e>>)
<1>1. R = ScanAll(ScanAll(ScanAll(ScanAll(ScanAll(A, a), b), c), d), e)
  BY ScanFive
<1>2. /\ ScanAll(A, a) = B /\ ScanAll(B, b) = C /\ ScanAll(C, c) = D
      /\ ScanAll(D, d) = E /\ ScanAll(E, e) = F
  BY DEF Reads
<1> HIDE DEF A, B, C, D, E, F, R
<1>3. R = F
  BY <1>1, <1>2
<1> QED  BY <1>3 DEF R, F, ReadsAll

LEMMA RestTailed ==
  ASSUME NEW g, NEW w, NEW q, q = Here(g, w)
  PROVE  q.rest = w /\ q.got = g /\ [q EXCEPT !.rest = Tail(@)] = Here(g, Tail(w))
<1>1. q.rest = w /\ q.got = g
  BY RestLeft
<1> DEFINE u == Tail(w)
<1>2. [q EXCEPT !.rest = Tail(@)] = [q EXCEPT !.rest = u]
  BY <1>1, Zenon
<1> HIDE DEF u
<1>3. [q EXCEPT !.rest = u] = Here(g, u)
  BY RestLeft
<1> QED  BY <1>1, <1>2, <1>3, Zenon DEF u

LEMMA DateTailIsScanned ==
  ASSUME NEW d \in Date, NEW c, c = CivilFromDays(d), NEW k \in 4..9,
         Digits(Magnitude(c.year), k) \in Tokens, NEW r \in Text
  PROVE  ReadsAll(Here(<<>>, DateTail(c, k, r)),
                  <<Number(4, 9), Expect({"-"}), Two, Expect({"-"}), Two>>,
                  Here(<<Magnitude(c.year), c.month, c.day>>, r))
<1> DEFINE y == Magnitude(c.year)  b == Char("-")  dash == Expect({"-"})
           w4 == Cons(Digits(c.day, 2), r)
           w3 == Cons(b, w4)
           w2 == Cons(Digits(c.month, 2), w3)
           w1 == Cons(b, w2)
           t  == Digits(y, k)
           g0 == <<>>  g1 == <<y>>  g2 == <<y, c.month>>  g3 == <<y, c.month, c.day>>
<1>1. /\ w1 \in Text /\ w2 \in Text /\ w3 \in Text /\ w4 \in Text
      /\ Digits(c.month, 2) \in Tokens /\ Digits(c.day, 2) \in Tokens
      /\ b \in Tokens /\ b.byte = "-"
      /\ DateTail(c, k, r) = Cons(t, w1)
  BY DateTailIsText, DashAhead, Zenon DEF DateTail
<1>2. ~NextIs(w1, Nine)
  BY <1>1, NextFrom DEF Nine
<1>3. t \in Tokens /\ t.byte \in Nine /\ t.value = y /\ t.digits = k
  BY DEF Digits, Nine
<1>4. g1 = Append(g0, y) /\ g2 = Append(g1, c.month) /\ g3 = Append(g2, c.day)
  BY Append1, Append2, Append3, Zenon
<1>5. Reads(Here(g1, w1), dash, Here(g1, w2)) /\ Reads(Here(g2, w3), dash, Here(g2, w4))
  <2> HIDE DEF b, w4, w2, g1, g2
  <2>1. b.byte \in {"-"}
    BY <1>1
  <2> QED  BY <1>1, <2>1, ByteReads
<1>6. Reads(Here(g1, w2), Two, Here(g2, w3)) /\ Reads(Here(g2, w4), Two, Here(g3, r))
  <2> HIDE DEF w3, g1, g2, g3
  <2> QED  BY <1>1, <1>4, TwoReads
<1>7. Reads(Here(g0, Cons(t, w1)), Number(4, 9), Here(g1, w1))
  <2> HIDE DEF t, w1, g0, g1
  <2>1. 4 \in Nat /\ 9 \in Nat /\ 4 <= t.digits /\ t.digits <= 9
    BY <1>3
  <2>2. w1 \in Text
    BY <1>1
  <2> QED  BY <1>2, <1>3, <1>4, <2>1, <2>2, NumeralReads
<1> HIDE DEF g0, g1, g2, g3, w4, w3, w2, w1, t, dash
<1>8. ReadsAll(Here(g0, Cons(t, w1)), <<Number(4, 9), dash, Two, dash, Two>>, Here(g3, r))
  BY <1>5, <1>6, <1>7, ReadsFive
<1> QED  BY <1>1, <1>8, Zenon DEF g0, g3, dash

LEMMA DateIsScanned ==
  ASSUME NEW d \in Date, NEW c, c = CivilFromDays(d), NEW r \in Text
  PROVE  ScanDate(Start(Glue(WriteDate(d), r))) = {Here(<<c.year, c.month, c.day>>, r)}
<1> DEFINE pattern == <<Number(4, 9), Expect({"-"}), Two, Expect({"-"}), Two>>
           w == Glue(WriteDate(d), r)  y == Magnitude(c.year)
           sign == IF c.year < 0 THEN -1 ELSE 1
<1>1. PICK k \in 4..9 : /\ Digits(y, k) \in Tokens
                        /\ w = IF c.year < 0 THEN Cons(Char("-"), DateTail(c, k, r))
                               ELSE DateTail(c, k, r)
  BY DateWritten
<1> DEFINE t == DateTail(c, k, r)  s == Here(<<>>, w)
           n == IF NextIs(s.rest, {"+", "-"}) THEN [s EXCEPT !.rest = Tail(@)] ELSE s
<1>2. t \in Text /\ ~NextIs(t, {"+", "-"}) /\ ~NextIs(t, {"-"})
  <2>1. t \in Text
    BY <1>1, DateTailIsText
  <2>2. \E u \in Text : t = Cons(Digits(y, k), u)
    BY <1>1, DateTailIsText DEF DateTail
  <2>3. Digits(y, k).byte = "9"
    BY DEF Digits
  <2> HIDE DEF t, y
  <2> QED  BY <1>1, <2>1, <2>2, <2>3, NextFrom
<1>3. c.year \in Int /\ c.month \in Int /\ c.day \in Int /\ sign \in Int /\ y \in Int
      /\ sign * y = c.year
  BY CivilFields DEF Magnitude
<1> HIDE DEF t, y
<1>4. n = Here(<<>>, t) /\ (IF NextIs(s.rest, {"-"}) THEN -1 ELSE 1) = sign
  <2>1. s.rest = w /\ [s EXCEPT !.rest = Tail(@)] = Here(<<>>, Tail(w))
    <3>1. s = Here(<<>>, w)
      OBVIOUS
    <3> HIDE DEF s, w
    <3> QED  BY <3>1, RestTailed
  <2>2. CASE c.year < 0
    <3>1. w = Cons(Char("-"), t)
      BY <1>1, <2>2 DEF t
    <3>2. NextIs(w, {"+", "-"}) /\ NextIs(w, {"-"}) /\ Tail(w) = t
      <4>1. Char("-") \in Tokens /\ Char("-").byte = "-"
        BY DashAhead
      <4>2. Tail(w) = t
        BY <1>2, <3>1, <4>1, TextFrom
      <4> QED  BY <1>2, <3>1, <4>1, <4>2, NextFrom
    <3> QED  BY <2>1, <2>2, <3>2
  <2>3. CASE ~(c.year < 0)
    <3>1. w = t
      BY <1>1, <2>3 DEF t
    <3> QED  BY <1>2, <2>1, <2>3, <3>1
  <2> QED  BY <2>2, <2>3
<1> DEFINE q == Here(<<y, c.month, c.day>>, r)
<1>5. Scan(n, pattern) = {q}
  <2>1. Scan(Here(<<>>, t), pattern) = {q}
    BY <1>1, DateTailIsScanned, Zenon DEF t, y, ReadsAll
  <2> QED  BY <1>4, <2>1, Zenon
<1>6. ScanDate(s) = {[p EXCEPT !.got[1] = sign * @] : p \in Scan(n, pattern)}
  BY <1>4, Zenon DEF ScanDate
<1>7. [q EXCEPT !.got[1] = sign * @] = Here(<<sign * y, c.month, c.day>>, r)
  <2> HIDE DEF sign
  <2> QED  BY <1>3, SignPut
<1> HIDE DEF q, n, s, sign, pattern
<1>8. ScanDate(s) = {Here(<<c.year, c.month, c.day>>, r)}
  BY <1>3, <1>5, <1>6, <1>7, Zenon
<1>9. Start(w) = s
  BY Zenon DEF Start, Here, s
<1> QED  BY <1>8, <1>9, Zenon

-----------------------------------------------------------------------------
(* A fraction of a second, and a time of day.                              *)

LEMMA FieldsOfTime ==
  ASSUME NEW t \in TimesOfDay
  PROVE  /\ t.hour \in 0..23 /\ t.minute \in 0..59 /\ t.second \in 0..59
         /\ t.nanos \in 0..Pow(9) - 1
         /\ t = Time(t.hour, t.minute, t.second, t.nanos)
<1> DEFINE N == 0..Pow(9) - 1
<1>1. t \in [hour : 0..23, minute : 0..59, second : 0..59, nanos : N]
  BY Zenon DEF TimesOfDay, Nanos, Pow
<1> HIDE DEF N
<1>2. /\ t.hour \in 0..23 /\ t.minute \in 0..59 /\ t.second \in 0..59 /\ t.nanos \in N
      /\ t = Time(t.hour, t.minute, t.second, t.nanos)
  BY <1>1 DEF Time
<1> QED  BY <1>2, Zenon DEF N

LEMMA FractionIsScanned ==
  ASSUME NEW nanos \in 0..Pow(9) - 1, NEW fraction \in Fractions,
         NEW cut, cut = Truncated(nanos, FractionDigits[fraction]),
         NEW r \in Text, ~NextIs(r, Nine), ~NextIs(r, {"."}), NEW g
  PROVE  /\ WriteFraction(nanos, fraction) \in Text
         /\ Glue(WriteFraction(nanos, fraction), r) \in Text
         /\ ~NextIs(Glue(WriteFraction(nanos, fraction), r), Nine)
         /\ ScanFraction(Here(g, Glue(WriteFraction(nanos, fraction), r)))
              = {Here(Append(g, cut), r)}
<1> DEFINE F == WriteFraction(nanos, fraction)
<1>1. \/ F = <<>> /\ cut = 0
      \/ \E n \in 1..9, v \in Nat :
           /\ F = <<Char("."), Digits(v, n)>>
           /\ Digits(v, n) \in Tokens
           /\ v * Pow(9 - n) = cut
  BY FractionIsWritten
<1> HIDE DEF F
<1>2. CASE F = <<>> /\ cut = 0
  <2>1. F \in Text /\ Glue(F, r) = r
    BY <1>2, NoneText
  <2> DEFINE s == Here(g, r)
  <2>2. s.rest = r /\ s.got = g
    BY HereFields
  <2>3. [s EXCEPT !.got = Append(@, 0)] = Here(Append(g, 0), r)
    <3> DEFINE x == Append(g, 0)
    <3>1. [s EXCEPT !.got = Append(@, 0)] = [s EXCEPT !.got = x]
      BY <2>2, Zenon
    <3> HIDE DEF x
    <3>2. [s EXCEPT !.got = x] = Here(x, r)
      BY DEF Here
    <3> QED  BY <3>1, <3>2, Zenon DEF x
  <2> HIDE DEF s
  <2>4. ScanFraction(s) = {Here(Append(g, 0), r)}
    BY <2>2, <2>3, Zenon DEF ScanFraction, Ok
  <2> QED  BY <1>2, <2>1, <2>4, Zenon DEF F, s
<1>3. ASSUME NEW n \in 1..9, NEW v \in Nat, F = <<Char("."), Digits(v, n)>>,
             Digits(v, n) \in Tokens, v * Pow(9 - n) = cut
      PROVE  /\ F \in Text /\ Glue(F, r) \in Text /\ ~NextIs(Glue(F, r), Nine)
             /\ ScanFraction(Here(g, Glue(F, r))) = {Here(Append(g, cut), r)}
  <2> DEFINE dot == Char(".")  t == Digits(v, n)  u == Cons(t, r)  w == Cons(dot, u)
             s == Here(g, w)  x == [value |-> t.value, digits |-> t.digits, rest |-> r]
  <2>1. dot \in Tokens /\ dot.byte = "."
    BY DashAhead
  <2>2. t \in Tokens /\ t.byte \in Nine /\ t.value = v /\ t.digits = n
    BY <1>3 DEF Digits, Nine
  <2>3. F \in Text /\ Glue(F, r) = w
    <3>1. F = <<dot, t>>
      BY <1>3
    <3>2. F = Glue(One(dot), One(t))
      <4> HIDE DEF dot, t
      <4>1. Append(<<dot>>, t) = <<dot, t>>
        BY Append2
      <4>2. <<dot>> \in Seq(Tokens)
        BY <2>1
      <4>3. Append(<<dot>>, t) = <<dot>> \o <<t>>
        BY <2>2, <4>2, AppendIsConcat
      <4> QED  BY <3>1, <4>1, <4>3, Zenon DEF Glue, One
    <3>3. One(dot) \in Text /\ One(t) \in Text /\ Cons(t, r) \in Text
      BY <2>1, <2>2, OneText, GlueText
    <3> HIDE DEF dot, t
    <3>4. F \in Text
      BY <3>2, <3>3, GlueTexts
    <3>5. Glue(F, r) = Glue(One(dot), Cons(t, r))
      BY <2>2, <3>2, <3>3, GlueOne
    <3>6. Glue(One(dot), Cons(t, r)) = Cons(dot, Cons(t, r))
      BY <2>1, <3>3, OneText
    <3> QED  BY <3>4, <3>5, <3>6, Zenon
  <2> HIDE DEF dot, t
  <2>4. u \in Text
    BY <2>2, TextFrom
  <2>5. w \in Text /\ NextIs(w, {"."}) /\ Tail(w) = u /\ ~NextIs(w, Nine)
    <3> HIDE DEF u
    <3>1. Tail(w) = u /\ w \in Text
      BY <2>1, <2>4, TextFrom
    <3> QED  BY <2>1, <2>4, <3>1, NextFrom DEF Nine
  <2>6. ~(DigitsAhead(u) > 9)
    <3>1. DigitsAhead(u) = t.digits
      BY <2>2, OneRun
    <3> QED  BY <2>2, <3>1
  <2>7. ReadNumber(u, 1, 9) = {x}
    <3>1. 1 \in Nat /\ 9 \in Nat /\ 1 <= t.digits /\ t.digits <= 9
      BY <2>2
    <3> QED  BY <2>2, <3>1, NumberTaken
  <2>8. x.value = v /\ x.digits = n /\ x.rest = r
    BY <2>2
  <2>9. x.value * 10^(9 - x.digits) = cut
    BY <1>3, <2>8, Zenon DEF Pow
  <2>10. s.rest = w /\ s.got = g
    BY HereFields
  <2> HIDE DEF s, w, u, x
  <2>11. ScanFraction(s)
           = {[got |-> Append(s.got, y.value * 10^(9 - y.digits)), rest |-> y.rest] :
                y \in ReadNumber(Tail(s.rest), 1, 9)}
    BY <2>5, <2>6, <2>10, Zenon DEF ScanFraction
  <2>12. ScanFraction(s) = {[got |-> Append(g, cut), rest |-> r]}
    BY <2>5, <2>7, <2>8, <2>9, <2>10, <2>11, Zenon
  <2> QED  BY <2>3, <2>5, <2>12, Zenon DEF s, Here
<1> QED  BY <1>1, <1>2, <1>3, NoneText, Zenon DEF F

LEMMA TimeIsWritten ==
  ASSUME NEW t \in TimesOfDay, NEW fraction, WriteFraction(t.nanos, fraction) \in Text,
         NEW r \in Text, NEW u, u = Glue(WriteFraction(t.nanos, fraction), r), u \in Text
  PROVE  /\ WriteTime(t, fraction) \in Text
         /\ Glue(WriteTime(t, fraction), r)
              = Cons(Digits(t.hour, 2), Cons(Char(":"), Cons(Digits(t.minute, 2),
                  Cons(Char(":"), Cons(Digits(t.second, 2), u)))))
         /\ Digits(t.hour, 2) \in Tokens /\ Digits(t.minute, 2) \in Tokens
         /\ Digits(t.second, 2) \in Tokens
<1> DEFINE b == Char(":")  h == Digits(t.hour, 2)  m == Digits(t.minute, 2)  s == Digits(t.second, 2)
           F == WriteFraction(t.nanos, fraction)
           x == Glue(Glue(Glue(Glue(One(h), One(b)), One(m)), One(b)), One(s))
<1>1. h \in Tokens /\ m \in Tokens /\ s \in Tokens
      /\ WritePadded(t.hour, 2) = One(h) /\ WritePadded(t.minute, 2) = One(m)
      /\ WritePadded(t.second, 2) = One(s)
  <2>1. t.hour \in 0..99 /\ t.minute \in 0..99 /\ t.second \in 0..99
    BY FieldsOfTime
  <2> QED  BY <2>1, TwoDigits DEF One
<1>2. b \in Tokens
  BY DashAhead
<1>3. WriteTime(t, fraction) = Glue(x, F)
  BY <1>1, Zenon DEF WriteTime, One, Glue
<1> HIDE DEF b, h, m, s, F
<1>4. x \in Text
  BY <1>1, <1>2, OneText, GlueText
<1>5. Glue(x, u) = Glue(One(h), Cons(b, Cons(m, Cons(b, Cons(s, u)))))
  <2>1. One(h) \in Text
    BY <1>1, OneText
  <2> QED  BY <1>1, <1>2, <2>1, GlueFour
<1> DEFINE v == Cons(b, Cons(m, Cons(b, Cons(s, u))))
<1>6. v \in Text
  BY <1>1, <1>2, GlueText
<1> HIDE DEF x, v
<1>7. Glue(One(h), v) = Cons(h, v)
  BY <1>1, <1>6, OneText
<1>8. Glue(Glue(x, F), r) = Glue(x, u) /\ Glue(x, F) \in Text
  BY <1>4, GlueGlue, GlueTexts DEF F
<1>9. Glue(WriteTime(t, fraction), r) = Cons(h, v)
  BY <1>3, <1>5, <1>7, <1>8, Zenon DEF v
<1> QED  BY <1>1, <1>3, <1>8, <1>9, Zenon DEF v, b, h, m, s

(* The nanoseconds that a writer shows, and what is read of a time.        *)
CutOf(t, fraction) == Truncated(t.nanos, FractionDigits[fraction])
Timely(g, t, cut)  == Append(Append(Append(Append(g, t.hour), t.minute), t.second), cut)

LEMMA TimeText ==
  ASSUME NEW t \in TimesOfDay, NEW fraction \in Fractions
  PROVE  WriteFraction(t.nanos, fraction) \in Text /\ WriteTime(t, fraction) \in Text
<1> DEFINE n == t.nanos  r == <<>>  u == Glue(WriteFraction(n, fraction), r)
<1>1. n \in 0..Pow(9) - 1 /\ r \in Text /\ ~NextIs(r, Nine) /\ ~NextIs(r, {"."})
  BY FieldsOfTime, NoTextAhead
<1> HIDE DEF r
<1>2. WriteFraction(n, fraction) \in Text /\ u \in Text
  <2> HIDE DEF n
  <2> QED  BY <1>1, FractionIsScanned
<1> HIDE DEF u
<1>3. WriteTime(t, fraction) \in Text
  BY <1>1, <1>2, TimeIsWritten DEF u
<1> QED  BY <1>2, <1>3

LEMMA TimeIsScanned ==
  ASSUME NEW t \in TimesOfDay, NEW fraction \in Fractions,
         NEW r \in Text, ~NextIs(r, Nine), ~NextIs(r, {"."}), NEW g0
  PROVE  ScanTime(Here(g0, Glue(WriteTime(t, fraction), r)))
           = {Here(Timely(g0, t, CutOf(t, fraction)), r)}
<1> DEFINE cut == CutOf(t, fraction)
           g1 == Append(g0, t.hour)  g2 == Append(g1, t.minute)  g3 == Append(g2, t.second)
           g4 == Append(g3, cut)
<1>0. /\ g1 = Append(g0, t.hour) /\ g2 = Append(g1, t.minute) /\ g3 = Append(g2, t.second)
      /\ g4 = Append(g3, cut) /\ g4 = Timely(g0, t, cut)
      /\ cut = Truncated(t.nanos, FractionDigits[fraction])
  BY Zenon DEF Timely, CutOf
<1> HIDE DEF cut, g1, g2, g3, g4
<1> DEFINE b == Char(":")  h == Digits(t.hour, 2)  m == Digits(t.minute, 2)  s == Digits(t.second, 2)
           u == Glue(WriteFraction(t.nanos, fraction), r)
           v4 == Cons(s, u)  v3 == Cons(b, v4)  v2 == Cons(m, v3)  v1 == Cons(b, v2)
           w == Glue(WriteTime(t, fraction), r)
<1>1. WriteFraction(t.nanos, fraction) \in Text /\ u \in Text /\ ScanFraction(Here(g3, u)) = {Here(g4, r)}
  <2> DEFINE n == t.nanos
  <2>1. n \in 0..Pow(9) - 1 /\ cut = Truncated(n, FractionDigits[fraction])
    BY <1>0, FieldsOfTime
  <2> HIDE DEF n
  <2>2. /\ WriteFraction(n, fraction) \in Text
        /\ Glue(WriteFraction(n, fraction), r) \in Text
        /\ ScanFraction(Here(g3, Glue(WriteFraction(n, fraction), r))) = {Here(Append(g3, cut), r)}
    BY <2>1, FractionIsScanned
  <2> QED  BY <1>0, <2>2, Zenon DEF n
<1>2. /\ WriteTime(t, fraction) \in Text /\ w = Cons(h, v1)
      /\ h \in Tokens /\ m \in Tokens /\ s \in Tokens
  BY <1>1, TimeIsWritten
<1>3. b \in Tokens /\ b.byte \in {":"}
  BY DashAhead
<1> HIDE DEF u, b, w
<1>4. v4 \in Text /\ v3 \in Text /\ v2 \in Text /\ v1 \in Text
  <2>1. v4 \in Text
    BY <1>1, <1>2, GlueText
  <2>2. v3 \in Text
    <3> HIDE DEF v4
    <3> QED  BY <1>3, <2>1, GlueText
  <2>3. v2 \in Text
    <3> HIDE DEF v3
    <3> QED  BY <1>2, <2>2, GlueText
  <2>4. v1 \in Text
    <3> HIDE DEF v2
    <3> QED  BY <1>3, <2>3, GlueText
  <2> QED  BY <2>1, <2>2, <2>3, <2>4
<1>5. Reads(Here(g1, v1), Colon, Here(g1, v2)) /\ Reads(Here(g2, v3), Colon, Here(g2, v4))
  <2> HIDE DEF v2, v4
  <2> QED  BY <1>3, <1>4, ByteReads DEF Colon
<1>6. Reads(Here(g0, Cons(h, v1)), Two, Here(g1, v1)) /\ Reads(Here(g1, v2), Two, Here(g2, v3))
      /\ Reads(Here(g2, v4), Two, Here(g3, u))
  <2> HIDE DEF v3, v1
  <2> QED  BY <1>0, <1>1, <1>2, <1>4, TwoReads
<1> HIDE DEF v1, v2, v3, v4, h, m, s
<1>7. ReadsAll(Here(g0, w), <<Two, Colon, Two, Colon, Two>>, Here(g3, u))
  BY <1>2, <1>5, <1>6, ReadsFive
<1>8. ScanTime(Here(g0, w)) = {Here(g4, r)}
  BY <1>1, <1>7, Zenon DEF ScanTime, ReadsAll
<1> QED  BY <1>0, <1>8, Zenon DEF w, cut

-----------------------------------------------------------------------------
(* Offsets.                                                                *)

LEMMA OptionalRead ==
  ASSUME NEW w, NEW bytes, NextIs(w, bytes), NEW g, NEW pattern, NEW q,
         ReadsAll(Here(g, w), pattern, q)
  PROVE  ScanOptional(Here(g, w), bytes, pattern) = {q}
<1> DEFINE s == Here(g, w)
<1>1. s.rest = w /\ s.got = g
  BY HereFields
<1> HIDE DEF s
<1>2. ScanOptional(s, bytes, pattern) = Scan(s, pattern)
  BY <1>1, Zenon DEF ScanOptional
<1> QED  BY <1>2, Zenon DEF s, ReadsAll

LEMMA GotReplaced ==
  ASSUME NEW g, NEW w, NEW x
  PROVE  [Here(g, w) EXCEPT !.got = Append(@, x)] = Here(Append(g, x), w)
<1> DEFINE s == Here(g, w)  y == Append(g, x)
<1>1. s.got = g
  BY HereFields
<1>2. [s EXCEPT !.got = Append(@, x)] = [s EXCEPT !.got = y]
  BY <1>1, Zenon
<1> HIDE DEF y
<1>3. [s EXCEPT !.got = y] = Here(y, w)
  BY DEF Here
<1> QED  BY <1>2, <1>3, Zenon DEF y

LEMMA OptionalMissed ==
  ASSUME NEW w, NEW bytes, ~NextIs(w, bytes), NEW g, NEW pattern, NEW h, h = Append(g, 0)
  PROVE  ScanOptional(Here(g, w), bytes, pattern) = {Here(h, w)}
<1> DEFINE s == Here(g, w)
<1>1. s.rest = w /\ s.got = g
  BY HereFields
<1>2. [s EXCEPT !.got = Append(@, 0)] = Here(h, w)
  BY GotReplaced, Zenon
<1> HIDE DEF s
<1>3. ScanOptional(s, bytes, pattern) = {Here(h, w)}
  BY <1>1, <1>2, Zenon DEF ScanOptional, Ok
<1> QED  BY <1>3, Zenon DEF s

(* What a scan of hours, minutes and seconds tells of an offset.           *)
OffsetTold(g, sign, c) ==
  IF c.got[1] > 23 \/ c.got[2] > 59 \/ c.got[3] > 59
  THEN Err
  ELSE {[got |-> Append(g, x), rest |-> c.rest] :
          x \in FromSeconds(sign * (c.got[1] * 3600 + c.got[2] * 60 + c.got[3]))}

(* The hours, minutes and seconds of an offset with a sign.                *)
IsHms(o, sign, h, m, s) ==
  /\ o \in Offsets /\ h \in 0..23 /\ m \in 0..59 /\ s \in 0..59
  /\ o = sign * (h * 3600 + m * 60 + s)

LEMMA OffsetAccepted ==
  ASSUME NEW o \in Offsets
  PROVE  FromSeconds(o) = {o}
BY Zenon DEF FromSeconds, Ok

LEMMA OffsetIsTold ==
  ASSUME NEW o, NEW sign, NEW h, NEW m, NEW s, IsHms(o, sign, h, m, s),
         NEW c, NEW r, c.got[1] = h, c.got[2] = m, c.got[3] = s, c.rest = r, NEW g
  PROVE  OffsetTold(g, sign, c) = {Here(Append(g, o), r)}
<1>1. FromSeconds(o) = {o}
  BY OffsetAccepted DEF IsHms
<1>2. ~(c.got[1] > 23 \/ c.got[2] > 59 \/ c.got[3] > 59)
  BY DEF IsHms
<1> DEFINE x == sign * (c.got[1] * 3600 + c.got[2] * 60 + c.got[3])
<1>3. x = o
  BY DEF IsHms
<1>4. OffsetTold(g, sign, c) = {[got |-> Append(g, y), rest |-> r] : y \in FromSeconds(x)}
  BY <1>2 DEF OffsetTold
<1> HIDE DEF x
<1> DEFINE X == FromSeconds(x)
<1>5. X = {o}
  BY <1>1, <1>3
<1> HIDE DEF X
<1>6. {[got |-> Append(g, y), rest |-> r] : y \in X} = {Here(Append(g, o), r)}
  BY <1>5, Zenon DEF Here
<1> QED  BY <1>4, <1>6 DEF X

LEMMA OffsetUnfolded ==
  ASSUME NEW w, ~NextIs(w, {"Z", "z"}), NEW sign, sign = IF NextIs(w, {"-"}) THEN -1 ELSE 1, NEW g,
         NEW p, p.rest = w, p.got = g
  PROVE  ScanOffset(p)
           = UNION {UNION {UNION {OffsetTold(g, sign, c) :
               c \in ScanOptional(b, {":"}, <<Colon, Two>>)} :
               b \in ScanMinutes(a)} : a \in Scan(Start(w), <<Expect({"+", "-"}), Two>>)}
BY DEF ScanOffset, OffsetTold

LEMMA OffsetOfParts ==
  ASSUME NEW w, ~NextIs(w, {"Z", "z"}), NEW sign, sign = IF NextIs(w, {"-"}) THEN -1 ELSE 1,
         NEW s1, ReadsAll(Here(<<>>, w), <<Expect({"+", "-"}), Two>>, s1),
         NEW s2, ScanMinutes(s1) = {s2},
         NEW o, NEW h, NEW m, NEW s, IsHms(o, sign, h, m, s), NEW r,
         ScanOptional(s2, {":"}, <<Colon, Two>>) = {Here(<<h, m, s>>, r)}, NEW g
  PROVE  ScanOffset(Here(g, w)) = {Here(Append(g, o), r)}
<1> DEFINE p == Here(g, w)  q == Here(<<h, m, s>>, r)
           A == Scan(Start(w), <<Expect({"+", "-"}), Two>>)
<1>1. p.rest = w /\ p.got = g /\ Start(w) = Here(<<>>, w)
  BY HereFields DEF Start, Here
<1>2. q.rest = r /\ q.got[1] = h /\ q.got[2] = m /\ q.got[3] = s
  BY HereFields
<1>3. A = {s1}
  BY <1>1, Zenon DEF ReadsAll
<1> HIDE DEF q, p
<1>4. OffsetTold(g, sign, q) = {Here(Append(g, o), r)}
  BY <1>2, OffsetIsTold
<1>5. ScanOffset(p) = UNION {UNION {UNION {OffsetTold(g, sign, c) :
                        c \in ScanOptional(b, {":"}, <<Colon, Two>>)} :
                        b \in ScanMinutes(a)} : a \in A}
  BY <1>1, OffsetUnfolded
<1> HIDE DEF A
<1> DEFINE B == ScanOptional(s2, {":"}, <<Colon, Two>>)
<1>6. B = {q}
  BY Zenon DEF q
<1>7. UNION {OffsetTold(g, sign, c) : c \in B} = OffsetTold(g, sign, q)
  <2> HIDE DEF B
  <2> QED  BY <1>6
<1> DEFINE U(b) == UNION {OffsetTold(g, sign, c) : c \in ScanOptional(b, {":"}, <<Colon, Two>>)}
           V(a) == UNION {U(b) : b \in ScanMinutes(a)}
<1>8. U(s2) = OffsetTold(g, sign, q) /\ ScanOffset(p) = UNION {V(a) : a \in A}
  BY <1>5, <1>7, Zenon
<1> HIDE DEF U
<1>9. V(s1) = U(s2)
  OBVIOUS
<1> HIDE DEF V
<1>10. UNION {V(a) : a \in A} = V(s1)
  BY <1>3
<1> QED  BY <1>4, <1>8, <1>9, <1>10, Zenon DEF p

LEMMA SignWritten ==
  ASSUME NEW o \in Int
  PROVE  LET t == Char(IF o < 0 THEN "-" ELSE "+")
         IN  t \in Tokens /\ t.byte = IF o < 0 THEN "-" ELSE "+"
<1>1. CASE o < 0
  BY <1>1, DashAhead
<1>2. CASE ~(o < 0)
  BY <1>2, DashAhead
<1> QED  BY <1>1, <1>2

LEMMA OffsetIsShort ==
  ASSUME NEW o \in Offsets
  PROVE  /\ o \in Int /\ -86400 < o /\ o < 86400
         /\ Magnitude(o) \in Nat /\ Magnitude(o) < 86400
<1> DEFINE N == SecondsPerDay
<1>1. N \in Int
  BY DEF SecondsPerDay
<1>2. o \in -(N - 1)..(N - 1)
  BY Zenon DEF Offsets
<1> HIDE DEF N
<1>3. o \in Int /\ -N < o /\ o < N
  BY <1>1, <1>2
<1>4. N = 86400
  BY DEF N, SecondsPerDay
<1>5. -86400 < o /\ o < 86400
  BY <1>3, <1>4
<1> QED  BY <1>3, <1>5 DEF Magnitude

LEMMA SecondsParted ==
  ASSUME NEW abs \in Nat, abs < 86400
  PROVE  /\ abs = (abs \div 3600) * 3600 + ((abs % 3600) \div 60) * 60 + (abs % 60)
         /\ abs \div 3600 \in 0..23 /\ (abs % 3600) \div 60 \in 0..59 /\ abs % 60 \in 0..59
OBVIOUS

LEMMA OffsetParts ==
  ASSUME NEW o \in Offsets, NEW abs, abs = Magnitude(o), NEW sign, sign = IF o < 0 THEN -1 ELSE 1
  PROVE  IsHms(o, sign, abs \div 3600, (abs % 3600) \div 60, abs % 60)
<1>1. abs \in Nat /\ abs < 86400 /\ o = sign * abs
  BY OffsetIsShort DEF Magnitude
<1> QED  BY <1>1, SecondsParted DEF IsHms

(* The hours of an offset, and its sign.                                   *)
LEMMA HoursAreRead ==
  ASSUME NEW o \in Int, NEW h \in 0..99, NEW u \in Text,
         NEW w, w = Cons(Char(IF o < 0 THEN "-" ELSE "+"), Cons(Digits(h, 2), u))
  PROVE  /\ w \in Text /\ ~NextIs(w, {"Z", "z"}) /\ ~NextIs(w, Nine) /\ ~NextIs(w, {"."})
         /\ ~NextIs(w, Spaces)
         /\ (IF NextIs(w, {"-"}) THEN -1 ELSE 1) = (IF o < 0 THEN -1 ELSE 1)
         /\ NextIs(w, {"+", "-"})
         /\ ReadsAll(Here(<<>>, w), <<Expect({"+", "-"}), Two>>, Here(<<h>>, u))
<1> DEFINE t == Char(IF o < 0 THEN "-" ELSE "+")  d == Digits(h, 2)  v == Cons(d, u)
           g0 == <<>>  g1 == <<h>>
<1>1. t \in Tokens /\ t.byte = IF o < 0 THEN "-" ELSE "+"
  BY SignWritten
<1>2. d \in Tokens
  BY TwoDigits
<1>3. v \in Text
  BY <1>2, GlueText
<1>4. g1 = Append(g0, h)
  BY Append1, Zenon
<1> HIDE DEF t
<1>5. Reads(Here(g0, v), Two, Here(g1, u))
  <2> HIDE DEF g0, g1
  <2> QED  BY <1>2, <1>4, TwoReads
<1> HIDE DEF v, d, g0, g1
<1>6. w = Cons(t, v) /\ w \in Text
  BY <1>1, <1>3, GlueText DEF v, t, d
<1>7. /\ ~NextIs(w, {"Z", "z"}) /\ ~NextIs(w, Nine) /\ ~NextIs(w, {"."}) /\ ~NextIs(w, Spaces)
      /\ (NextIs(w, {"-"}) <=> o < 0) /\ NextIs(w, {"+", "-"})
  <2>1. \A bytes : NextIs(w, bytes) <=> t.byte \in bytes
    BY <1>1, <1>3, <1>6, NextFrom
  <2>2. CASE o < 0
    <3>1. t.byte = "-"
      BY <1>1, <2>2
    <3> QED  BY <2>1, <2>2, <3>1 DEF Nine, Spaces
  <2>3. CASE ~(o < 0)
    <3>1. t.byte = "+"
      BY <1>1, <2>3
    <3> QED  BY <2>1, <2>3, <3>1 DEF Nine, Spaces
  <2> QED  BY <2>2, <2>3
<1>8. Reads(Here(g0, w), Expect({"+", "-"}), Here(g0, v))
  <2>1. t.byte \in {"+", "-"}
    BY <1>1
  <2> QED  BY <1>1, <1>3, <1>6, <2>1, ByteReads
<1>9. ReadsAll(Here(g0, w), <<Expect({"+", "-"}), Two>>, Here(g1, u))
  BY <1>5, <1>8, ReadsTwo
<1> QED  BY <1>6, <1>7, <1>9 DEF g0, g1

LEMMA GlueThree ==
  ASSUME NEW x \in Text, NEW a \in Tokens, NEW b \in Tokens, NEW c \in Tokens, NEW r \in Text
  PROVE  Glue(Glue(Glue(Glue(x, One(a)), One(b)), One(c)), r)
           = Glue(x, Cons(a, Cons(b, Cons(c, r))))
<1> DEFINE y == Glue(x, One(a))  u == Cons(b, Cons(c, r))
<1>1. y \in Text /\ u \in Text
  BY GlueText
<1>2. Glue(y, u) = Glue(x, Cons(a, u))
  <2> HIDE DEF u
  <2> QED  BY <1>1, GlueOne
<1>3. Glue(Glue(Glue(y, One(b)), One(c)), r) = Glue(y, u)
  <2> HIDE DEF y
  <2> QED  BY <1>1, GlueTwo
<1> QED  BY <1>2, <1>3, Zenon DEF y, u

(* A colon and two digits are read, or neither; the minutes of an offset.  *)
ReadsColon(s, q)   == ScanOptional(s, {":"}, <<Colon, Two>>) = {q}
ReadsMinutes(s, q) == ScanMinutes(s) = {q}

LEMMA ColonIsMissed ==
  ASSUME NEW w, ~NextIs(w, {":"}), NEW g, NEW h, h = Append(g, 0)
  PROVE  ReadsColon(Here(g, w), Here(h, w))
<1> DEFINE s == Here(g, w)
<1>1. s.rest = w /\ s.got = g
  BY HereFields
<1>2. [s EXCEPT !.got = Append(@, 0)] = Here(h, w)
  BY GotReplaced, Zenon
<1> HIDE DEF s
<1>3. ScanOptional(s, {":"}, <<Colon, Two>>) = {Here(h, w)}
  BY <1>1, <1>2, Zenon DEF ScanOptional, Ok
<1> QED  BY <1>3, Zenon DEF s, ReadsColon

LEMMA PartsGiveOffset ==
  ASSUME NEW w, ~NextIs(w, {"Z", "z"}), NEW sign, sign = IF NextIs(w, {"-"}) THEN -1 ELSE 1,
         NEW s1, ReadsAll(Here(<<>>, w), <<Expect({"+", "-"}), Two>>, s1),
         NEW s2, ReadsMinutes(s1, s2),
         NEW o, NEW h, NEW m, NEW s, IsHms(o, sign, h, m, s), NEW r,
         ReadsColon(s2, Here(<<h, m, s>>, r)), NEW g
  PROVE  ScanOffset(Here(g, w)) = {Here(Append(g, o), r)}
<1>1. ScanMinutes(s1) = {s2} /\ ScanOptional(s2, {":"}, <<Colon, Two>>) = {Here(<<h, m, s>>, r)}
  BY Zenon DEF ReadsMinutes, ReadsColon
<1> QED  BY <1>1, OffsetOfParts

(* A colon and two digits, or neither.                                     *)
LEMMA ColonIsRead ==
  ASSUME NEW v \in 0..99, NEW r \in Text, NEW w, w = Cons(Char(":"), Cons(Digits(v, 2), r)),
         NEW g, NEW h, h = Append(g, v)
  PROVE  /\ w \in Text /\ ~NextIs(w, Nine) /\ NextIs(w, {":"})
         /\ ReadsColon(Here(g, w), Here(h, r))
<1> DEFINE b == Char(":")  d == Digits(v, 2)  u == Cons(d, r)
<1>1. b \in Tokens /\ b.byte = ":" /\ d \in Tokens
  BY DashAhead, TwoDigits
<1>2. Reads(Here(g, u), Two, Here(h, r))
  BY <1>1, TwoReads
<1> HIDE DEF b, d
<1>3. u \in Text /\ w = Cons(b, u)
  BY <1>1, GlueText DEF b, d
<1> HIDE DEF u
<1>4. w \in Text /\ (\A bytes : NextIs(w, bytes) <=> b.byte \in bytes)
  BY <1>1, <1>3, GlueText, NextFrom
<1>5. ~NextIs(w, Nine) /\ NextIs(w, {":"})
  BY <1>1, <1>4 DEF Nine
<1>6. Reads(Here(g, w), Colon, Here(g, u))
  <2>1. b.byte \in {":"}
    BY <1>1
  <2> QED  BY <1>1, <1>3, <2>1, ByteReads DEF Colon
<1>7. ReadsAll(Here(g, w), <<Colon, Two>>, Here(h, r))
  BY <1>2, <1>6, ReadsTwo
<1>8. ScanOptional(Here(g, w), {":"}, <<Colon, Two>>) = {Here(h, r)}
  BY <1>5, <1>7, OptionalRead
<1> QED  BY <1>4, <1>5, <1>8, Zenon DEF ReadsColon

SecondsText(v) == IF v = 0 THEN <<>> ELSE Glue(One(Char(":")), One(Digits(v, 2)))

LEMMA SecondsAreRead ==
  ASSUME NEW h, NEW m, NEW v \in 0..59
  PROVE  /\ SecondsText(v) \in Text /\ ~NextIs(SecondsText(v), Nine)
         /\ ReadsColon(Here(<<h, m>>, SecondsText(v)), Here(<<h, m, v>>, <<>>))
<1> DEFINE b == Char(":")  d == Digits(v, 2)  w == SecondsText(v)
           g2 == <<h, m>>  g3 == <<h, m, v>>  r == <<>>
<1>1. g3 = Append(g2, v)
  BY Append3, Zenon
<1>2. r \in Text /\ ~NextIs(r, Nine) /\ ~NextIs(r, {":"})
  BY NoTextAhead
<1>3. CASE v = 0
  <2>1. w = r
    BY <1>3 DEF SecondsText
  <2> HIDE DEF r, w, g2, g3
  <2>3. g3 = Append(g2, 0)
    BY <1>1, <1>3, Zenon
  <2>2. ReadsColon(Here(g2, r), Here(g3, r))
    BY <1>2, <2>3, ColonIsMissed
  <2> QED  BY <1>2, <2>1, <2>2, Zenon DEF w, r, g2, g3
<1>4. CASE v # 0
  <2>0. v \in 0..99
    OBVIOUS
  <2>1. b \in Tokens /\ d \in Tokens
    BY <2>0, DashAhead, TwoDigits, Zenon
  <2>2. w = Glue(One(b), One(d))
    BY <1>4 DEF SecondsText
  <2> HIDE DEF r, w, g2, g3, b, d
  <2>3. One(b) \in Text /\ One(d) = Cons(d, r)
    <3>1. One(d) \in Text /\ Glue(One(d), r) = Cons(d, r)
      BY <1>2, <2>1, OneText
    <3>2. Glue(One(d), r) = One(d)
      BY <3>1, NoneText DEF r
    <3> QED  BY <1>2, <2>1, <3>1, <3>2, OneText
  <2>4. w = Cons(b, Cons(d, r))
    <3>1. Cons(d, r) \in Text
      BY <1>2, <2>1, GlueText
    <3> QED  BY <2>1, <2>2, <2>3, <3>1, OneText
  <2>5. w = Cons(Char(":"), Cons(Digits(v, 2), r))
    BY <2>4, Zenon DEF b, d
  <2>6. w \in Text /\ ~NextIs(w, Nine) /\ ReadsColon(Here(g2, w), Here(g3, r))
    BY <1>1, <1>2, <2>0, <2>5, ColonIsRead
  <2> QED  BY <2>6, Zenon DEF w, r, g2, g3
<1> QED  BY <1>3, <1>4

(* An offset in its parts, and its sign.                                   *)
SignOf(o)    == IF o < 0 THEN -1 ELSE 1
SignToken(o) == Char(IF o < 0 THEN "-" ELSE "+")
HoursOf(o)   == Magnitude(o) \div 3600
MinutesOf(o) == (Magnitude(o) % 3600) \div 60
SecondsOf(o) == Magnitude(o) % 60

LEMMA OffsetFields ==
  ASSUME NEW o \in Offsets
  PROVE  /\ IsHms(o, SignOf(o), HoursOf(o), MinutesOf(o), SecondsOf(o)) /\ o \in Int
         /\ HoursOf(o) \in 0..99 /\ MinutesOf(o) \in 0..99 /\ SecondsOf(o) \in 0..59
         /\ HoursOf(o) \in 0..23 /\ MinutesOf(o) \in 0..59 /\ SecondsOf(o) \in 0..99
<1>1. IsHms(o, SignOf(o), HoursOf(o), MinutesOf(o), SecondsOf(o))
  BY OffsetParts DEF SignOf, HoursOf, MinutesOf, SecondsOf
<1>2. HoursOf(o) \in 0..23 /\ MinutesOf(o) \in 0..59 /\ SecondsOf(o) \in 0..59
  BY <1>1 DEF IsHms
<1> QED  BY <1>1, <1>2, OffsetIsShort

LEMMA OffsetPieces ==
  ASSUME NEW o, o # 0
  PROVE  WriteOffset(o)
           = <<SignToken(o)>> \o WritePadded(HoursOf(o), 2) \o <<Char(":")>>
               \o WritePadded(MinutesOf(o), 2)
               \o IF SecondsOf(o) = 0 THEN <<>> ELSE <<Char(":")>> \o WritePadded(SecondsOf(o), 2)
BY ZenonT(60) DEF WriteOffset, SignToken, HoursOf, MinutesOf, SecondsOf

LEMMA TimeOfOffset ==
  ASSUME NEW o \in Offsets
  PROVE  LET h == HoursOf(o)  m == MinutesOf(o)  s == SecondsOf(o)
         IN  /\ SignToken(o) \in Tokens /\ Char(":") \in Tokens
             /\ Digits(h, 2) \in Tokens /\ Digits(m, 2) \in Tokens /\ SecondsText(s) \in Text
             /\ Digits(s, 2) \in Tokens
             /\ WritePadded(h, 2) = One(Digits(h, 2)) /\ WritePadded(m, 2) = One(Digits(m, 2))
             /\ WritePadded(s, 2) = One(Digits(s, 2))
<1>1. /\ HoursOf(o) \in 0..99 /\ MinutesOf(o) \in 0..99 /\ SecondsOf(o) \in 0..59
      /\ SecondsOf(o) \in 0..99 /\ o \in Int
  BY OffsetFields
<1>2. SignToken(o) \in Tokens /\ Char(":") \in Tokens
  BY <1>1, SignWritten, DashAhead DEF SignToken
<1>3. \A v \in 0..99 : Digits(v, 2) \in Tokens /\ WritePadded(v, 2) = One(Digits(v, 2))
  BY TwoDigits DEF One
<1>4. SecondsText(SecondsOf(o)) \in Text
  BY <1>1, SecondsAreRead
<1> QED  BY <1>1, <1>2, <1>3, <1>4, Zenon

LEMMA OffsetIsWritten ==
  ASSUME NEW o \in Offsets, o # 0
  PROVE  WriteOffset(o) = Cons(SignToken(o), Cons(Digits(HoursOf(o), 2),
           Cons(Char(":"), Cons(Digits(MinutesOf(o), 2), SecondsText(SecondsOf(o))))))
<1> DEFINE t == SignToken(o)  b == Char(":")  s == SecondsOf(o)
           H == Digits(HoursOf(o), 2)  M == Digits(MinutesOf(o), 2)  S == SecondsText(s)
           x == Glue(Glue(Glue(One(t), One(H)), One(b)), One(M))
<1>2. /\ t \in Tokens /\ b \in Tokens /\ H \in Tokens /\ M \in Tokens /\ S \in Text
      /\ WritePadded(HoursOf(o), 2) = One(H) /\ WritePadded(MinutesOf(o), 2) = One(M)
      /\ WritePadded(s, 2) = One(Digits(s, 2))
  BY TimeOfOffset, Zenon
<1>3. WriteOffset(o)
        = <<t>> \o WritePadded(HoursOf(o), 2) \o <<b>> \o WritePadded(MinutesOf(o), 2)
            \o IF s = 0 THEN <<>> ELSE <<b>> \o WritePadded(s, 2)
  BY OffsetPieces, Zenon
<1>4. (IF s = 0 THEN <<>> ELSE <<b>> \o WritePadded(s, 2)) = S
  BY <1>2, Zenon DEF SecondsText, Glue, One
<1> HIDE DEF S
<1>5. WriteOffset(o) = Glue(x, S)
  BY <1>2, <1>3, <1>4, Zenon DEF One, Glue
<1> HIDE DEF t, b, H, M, s
<1>6. Glue(x, S) = Glue(One(t), Cons(H, Cons(b, Cons(M, S))))
  <2>1. One(t) \in Text
    BY <1>2, OneText
  <2> QED  BY <1>2, <2>1, GlueThree
<1> DEFINE u == Cons(H, Cons(b, Cons(M, S)))
<1>7. u \in Text
  BY <1>2, GlueText
<1> HIDE DEF u
<1>8. Glue(One(t), u) = Cons(t, u)
  BY <1>2, <1>7, OneText
<1> QED  BY <1>5, <1>6, <1>8, Zenon DEF u, t, b, H, M, S, s

LEMMA ZuluIsScanned ==
  ASSUME NEW t \in Tokens, t.byte \in {"Z", "z"}, NEW r \in Text, NEW g
  PROVE  ScanOffset(Here(g, Cons(t, r))) = {Here(Append(g, 0), r)}
<1> DEFINE w == Cons(t, r)  s == Here(g, w)
<1>1. NextIs(w, {"Z", "z"}) /\ Tail(w) = r
  BY NextFrom, TextFrom
<1> HIDE DEF w
<1>2. s.rest = w /\ s.got = g
  BY HereFields
<1> HIDE DEF s
<1>3. ScanOffset(s) = Ok([got |-> Append(g, 0), rest |-> r])
  BY <1>1, <1>2, ZenonT(60) DEF ScanOffset
<1> QED  BY <1>3, Zenon DEF s, w, Ok, Here

LEMMA OffsetIsScanned ==
  ASSUME NEW o \in Offsets, NEW g
  PROVE  /\ WriteOffset(o) \in Text
         /\ ~NextIs(WriteOffset(o), Nine) /\ ~NextIs(WriteOffset(o), {"."})
         /\ ScanOffset(Here(g, WriteOffset(o))) = {Here(Append(g, o), <<>>)}
<1> DEFINE r == <<>>  w == WriteOffset(o)
<1>1. r \in Text
  BY NoTextAhead
<1>2. CASE o = 0
  <2> DEFINE t == Char("Z")
  <2>1. t \in Tokens /\ t.byte = "Z"
    BY DashAhead
  <2>2. w = One(t)
    BY <1>2 DEF WriteOffset, One
  <2> HIDE DEF t, w, r
  <2>3. One(t) = Cons(t, r)
    <3>1. One(t) \in Text /\ Glue(One(t), r) = Cons(t, r)
      BY <1>1, <2>1, OneText
    <3> QED  BY <3>1, NoneText DEF r
  <2>4. w \in Text /\ (\A bytes : NextIs(w, bytes) <=> t.byte \in bytes)
    BY <1>1, <2>1, <2>2, <2>3, GlueText, NextFrom
  <2>5. ScanOffset(Here(g, w)) = {Here(Append(g, 0), r)}
    <3>1. t.byte \in {"Z", "z"}
      BY <2>1
    <3> QED  BY <1>1, <2>1, <2>2, <2>3, <3>1, ZuluIsScanned
  <2>6. ~NextIs(w, Nine) /\ ~NextIs(w, {"."})
    BY <2>1, <2>4 DEF Nine
  <2> QED  BY <1>2, <2>4, <2>5, <2>6 DEF w, r
<1>3. CASE o # 0
  <2> DEFINE sign == SignOf(o)  h == HoursOf(o)  m == MinutesOf(o)  s == SecondsOf(o)
             S == SecondsText(s)  M == Digits(m, 2)  u == Cons(Char(":"), Cons(M, S))
             g1 == <<h>>  g2 == <<h, m>>  g3 == <<h, m, s>>
  <2>1. w = Cons(SignToken(o), Cons(Digits(h, 2), u))
    BY <1>3, OffsetIsWritten, Zenon
  <2>2. IsHms(o, sign, h, m, s) /\ h \in 0..99 /\ m \in 0..99 /\ s \in 0..59 /\ o \in Int
    BY OffsetFields, Zenon
  <2> HIDE DEF w, h, m, s
  <2>3. S \in Text /\ ReadsColon(Here(g2, S), Here(g3, r))
    BY <2>2, SecondsAreRead, Zenon
  <2>4. g2 = Append(g1, m)
    BY Append2, Zenon
  <2> HIDE DEF S, g1, g2, sign
  <2>5. u \in Text /\ ~NextIs(u, Nine) /\ ReadsColon(Here(g1, u), Here(g2, S))
    BY <2>2, <2>3, <2>4, ColonIsRead
  <2> HIDE DEF u
  <2>6. /\ w \in Text /\ ~NextIs(w, {"Z", "z"}) /\ ~NextIs(w, Nine) /\ ~NextIs(w, {"."})
        /\ sign = (IF NextIs(w, {"-"}) THEN -1 ELSE 1)
        /\ ReadsAll(Here(<<>>, w), <<Expect({"+", "-"}), Two>>, Here(g1, u))
    BY <2>1, <2>2, <2>5, HoursAreRead, Zenon DEF g1, sign, SignOf, SignToken
  <2> DEFINE s1 == Here(g1, u)  s2 == Here(g2, S)
  <2>7. ReadsMinutes(s1, s2)
    <3>1. s1.rest = u
      BY HereFields
    <3> HIDE DEF s1
    <3>2. ScanMinutes(s1) = ScanOptional(s1, {":"}, <<Colon, Two>>)
      BY <2>5, <3>1, Zenon DEF ScanMinutes, Nine
    <3> QED  BY <2>5, <3>2, Zenon DEF s1, ReadsMinutes, ReadsColon
  <2> HIDE DEF s1, s2
  <2>8. ReadsColon(s2, Here(<<h, m, s>>, r))
    BY <2>3, Zenon DEF s2
  <2>9. ReadsAll(Here(<<>>, w), <<Expect({"+", "-"}), Two>>, s1)
    BY <2>6, Zenon DEF s1
  <2> HIDE DEF r
  <2>10. ScanOffset(Here(g, w)) = {Here(Append(g, o), r)}
    BY <2>2, <2>6, <2>7, <2>8, <2>9, PartsGiveOffset
  <2> QED  BY <2>6, <2>10, Zenon DEF w, r
<1> QED  BY <1>2, <1>3

-----------------------------------------------------------------------------
(* ISO texts: a date alone, a time alone, and the two with an offset.      *)

(* What follows a date in scan_iso.                                        *)
ISep == {"T", "t", " "}

Timed(d)  == UNION {ScanTime(q) : q \in Scan(d, <<Expect(ISep)>>)}
Placed(d) == UNION {ScanOffset(t) : t \in Timed(d)}
Ended(S)  == {s \in S : AtEnd(s)}

LEMMA IsoUnfolded ==
  ASSUME NEW w
  PROVE  /\ ScanIso(w, FALSE, FALSE) = Ended(UNION {UNION {{t} : t \in {d}} : d \in ScanDate(Start(w))})
         /\ ScanIso(w, TRUE, FALSE) = Ended(UNION {UNION {{t} : t \in Timed(d)} : d \in ScanDate(Start(w))})
         /\ ScanIso(w, TRUE, TRUE) = Ended(UNION {Placed(d) : d \in ScanDate(Start(w))})
BY DEF ScanIso, Ok, ISep, Timed, Placed, Ended

LEMMA OneEnded ==
  ASSUME NEW S, NEW a, S = {a}, a.rest = <<>>
  PROVE  Ended(S) = {a}
<1>1. AtEnd(a)
  BY DEF AtEnd
<1> QED  BY <1>1 DEF Ended

LEMMA DateAlone ==
  ASSUME NEW w, NEW a, ScanDate(Start(w)) = {a}, a.rest = <<>>
  PROVE  ScanIso(w, FALSE, FALSE) = {a}
<1> DEFINE D == ScanDate(Start(w))  F(d) == UNION {{t} : t \in {d}}  U == UNION {F(d) : d \in D}
<1>1. ScanIso(w, FALSE, FALSE) = Ended(U)
  BY IsoUnfolded, Zenon
<1>2. D = {a} /\ F(a) = {a}
  OBVIOUS
<1> HIDE DEF D, F
<1>3. U = {a}
  BY <1>2
<1> HIDE DEF U
<1> QED  BY <1>1, <1>3, OneEnded

(* A part is read, a text, without a choice.                               *)
DateScans(w, a)   == ScanDate(Start(w)) = {a}
SepReads(a, b)    == ReadsAll(a, <<Expect(ISep)>>, b)
TimeScans(b, c)   == ScanTime(b) = {c}
OffsetScans(c, p) == ScanOffset(c) = {p}
CivilIso(w, p)    == ScanIso(w, TRUE, FALSE) = {p}
ZonedIso(w, p)    == ScanIso(w, TRUE, TRUE) = {p}

LEMMA DateAndTime ==
  ASSUME NEW w, NEW a, DateScans(w, a), NEW b, SepReads(a, b), NEW c, TimeScans(b, c)
  PROVE  /\ AtEnd(c) => CivilIso(w, c)
         /\ \A p : OffsetScans(c, p) /\ AtEnd(p) => ZonedIso(w, p)
<1> DEFINE D == ScanDate(Start(w))  B == Scan(a, <<Expect(ISep)>>)
<1>1. D = {a} /\ B = {b} /\ ScanTime(b) = {c}
  BY Zenon DEF ReadsAll, DateScans, SepReads, TimeScans
<1>2. Timed(a) = {c}
  <2>1. Timed(a) = UNION {ScanTime(q) : q \in B}
    BY DEF Timed
  <2> HIDE DEF B
  <2> QED  BY <1>1, <2>1
<1> HIDE DEF D
<1>3. ASSUME AtEnd(c)
      PROVE  ScanIso(w, TRUE, FALSE) = {c}
  <2> DEFINE F(d) == UNION {{t} : t \in Timed(d)}  U == UNION {F(d) : d \in D}
  <2>1. ScanIso(w, TRUE, FALSE) = Ended(U)
    BY IsoUnfolded, Zenon DEF D
  <2>2. F(a) = {c}
    BY <1>2
  <2> HIDE DEF F
  <2>3. U = {c}
    BY <1>1, <2>2
  <2> HIDE DEF U
  <2> QED  BY <1>3, <2>1, <2>3, OneEnded DEF AtEnd
<1>4. ASSUME NEW p, ScanOffset(c) = {p}, AtEnd(p)
      PROVE  ScanIso(w, TRUE, TRUE) = {p}
  <2> DEFINE U == UNION {Placed(d) : d \in D}
  <2>1. ScanIso(w, TRUE, TRUE) = Ended(U)
    BY IsoUnfolded, Zenon DEF D
  <2>2. Placed(a) = {p}
    BY <1>2, <1>4 DEF Placed
  <2>3. U = {p}
    BY <1>1, <2>2
  <2> HIDE DEF U
  <2> QED  BY <1>4, <2>1, <2>3, OneEnded DEF AtEnd
<1> QED  BY <1>3, <1>4, Zenon DEF CivilIso, ZonedIso, OffsetScans

(* A date is read back, whatever its year.                                 *)
LEMMA DateReadsBack ==
  ASSUME NEW d \in Date
  PROVE  ReadDate(WriteDate(d)) = {d}
<1> DEFINE c == CivilFromDays(d)  r == <<>>  a == Here(<<c.year, c.month, c.day>>, r)
           w == WriteDate(d)  S == ScanIso(w, FALSE, FALSE)
<1>1. w \in Text /\ r \in Text
  BY NoTextAhead, DateWritten
<1>2. Glue(w, r) = w
  BY <1>1, NoneText
<1>3. ScanDate(Start(w)) = {a}
  BY <1>1, <1>2, DateIsScanned, Zenon
<1>4. a.rest = r /\ a.got[1] = c.year /\ a.got[2] = c.month /\ a.got[3] = c.day
  BY HereFields
<1>5. FromYmd(c.year, c.month, c.day) = {d}
  BY AccessorsTakenBack, Zenon
<1> HIDE DEF a, w, c
<1>6. S = {a}
  BY <1>3, <1>4, DateAlone, Zenon
<1>7. DateOf(a) = {d}
  BY <1>4, <1>5, Zenon DEF DateOf
<1> HIDE DEF S
<1>8. UNION {DateOf(s) : s \in S} = {d}
  BY <1>6, <1>7
<1> QED  BY <1>8, Zenon DEF S, w, ReadDate

(* A time of day with its nanoseconds replaced.                            *)
WithNanos(t, n) == Time(t.hour, t.minute, t.second, n)

LEMMA NanosReplaced ==
  ASSUME NEW t \in TimesOfDay, NEW n
  PROVE  [t EXCEPT !.nanos = n] = WithNanos(t, n)
<1>1. t = Time(t.hour, t.minute, t.second, t.nanos)
  BY FieldsOfTime
<1> DEFINE h == t.hour  m == t.minute  s == t.second  x == t.nanos
<1> HIDE DEF h, m, s, x
<1>2. [Time(h, m, s, x) EXCEPT !.nanos = n] = Time(h, m, s, n)
  BY DEF Time
<1> QED  BY <1>1, <1>2, Zenon DEF h, m, s, x, WithNanos

LEMMA TimeAccepted ==
  ASSUME NEW t \in TimesOfDay, NEW n
  PROVE  FromHmsNano(t.hour, t.minute, t.second, n) = {WithNanos(t, n)}
<1>1. t.hour < 24 /\ t.minute < 60 /\ t.second < 60
  BY FieldsOfTime
<1> QED  BY <1>1, Zenon DEF FromHmsNano, Ok, WithNanos

LEMMA TimelyFields ==
  ASSUME NEW t, NEW cut
  PROVE  Timely(<<>>, t, cut) = <<t.hour, t.minute, t.second, cut>>
<1> DEFINE h == t.hour  m == t.minute  s == t.second
<1>1. Timely(<<>>, t, cut) = Append(Append(Append(Append(<<>>, h), m), s), cut)
  BY Zenon DEF Timely
<1>2. Append(<<>>, h) = <<h>> /\ Append(<<h>>, m) = <<h, m>> /\ Append(<<h, m>>, s) = <<h, m, s>>
      /\ Append(<<h, m, s>>, cut) = <<h, m, s, cut>>
  BY Append1, Append2, Append3, Append4, ZenonT(60)
<1> HIDE DEF h, m, s
<1>3. Timely(<<>>, t, cut) = <<h, m, s, cut>>
  BY <1>1, <1>2, Zenon
<1> QED  BY <1>3, Zenon DEF h, m, s

(* A time of day is read back, cut to its fraction.                        *)
LEMMA TimeReadsBack ==
  ASSUME NEW t \in TimesOfDay, NEW fraction \in Fractions
  PROVE  ReadTime(WriteTime(t, fraction)) = {WithNanos(t, CutOf(t, fraction))}
<1> DEFINE r == <<>>  g0 == <<>>  cut == CutOf(t, fraction)  g4 == <<t.hour, t.minute, t.second, cut>>
           a == Here(g4, r)  w == WriteTime(t, fraction)  S == ScanTime(Start(w))
<1>1. r \in Text /\ ~NextIs(r, Nine) /\ ~NextIs(r, {"."})
  BY NoTextAhead
<1>2. g4 = Timely(g0, t, cut)
  BY TimelyFields, Zenon
<1>4. a.rest = r /\ a.got[1] = t.hour /\ a.got[2] = t.minute /\ a.got[3] = t.second /\ a.got[4] = cut
  BY HereFields
<1>5. FromHmsNano(t.hour, t.minute, t.second, cut) = {WithNanos(t, cut)}
  BY TimeAccepted
<1> HIDE DEF g0, g4, r, cut
<1>3. ScanTime(Here(g0, Glue(w, r))) = {a}
  BY <1>1, <1>2, TimeIsScanned DEF cut
<1>6. S = {a}
  <2>0. w \in Text
    BY TimeText
  <2>1. Glue(w, r) = w
    BY <2>0, NoneText DEF r
  <2>2. Start(w) = Here(g0, w)
    BY Zenon DEF Start, Here, g0
  <2> HIDE DEF w, a
  <2> QED  BY <1>3, <2>1, <2>2
<1> HIDE DEF S, a, w
<1>7. {q \in S : q.rest = r} = {a}
  BY <1>4, <1>6
<1> DEFINE Q == {q \in S : q.rest = r}  F(s) == FromHmsNano(s.got[1], s.got[2], s.got[3], s.got[4])
<1>8. F(a) = {WithNanos(t, cut)}
  BY <1>4, <1>5, Zenon
<1> HIDE DEF Q, F
<1>9. UNION {F(s) : s \in Q} = {WithNanos(t, cut)}
  BY <1>7, <1>8 DEF Q
<1>10. ReadTime(w) = UNION {F(s) : s \in Q}
  BY Zenon DEF ReadTime, AtEnd, F, Q, S, r
<1> QED  BY <1>9, <1>10, Zenon DEF w, cut

LEMMA TimelyCivil ==
  ASSUME NEW y, NEW mo, NEW d, NEW t, NEW cut
  PROVE  Timely(<<y, mo, d>>, t, cut) = <<y, mo, d, t.hour, t.minute, t.second, cut>>
<1> DEFINE h == t.hour  m == t.minute  s == t.second
<1>1. Timely(<<y, mo, d>>, t, cut) = Append(Append(Append(Append(<<y, mo, d>>, h), m), s), cut)
  BY Zenon DEF Timely
<1>2. /\ Append(<<y, mo, d>>, h) = <<y, mo, d, h>> /\ Append(<<y, mo, d, h>>, m) = <<y, mo, d, h, m>>
      /\ Append(<<y, mo, d, h, m>>, s) = <<y, mo, d, h, m, s>>
      /\ Append(<<y, mo, d, h, m, s>>, cut) = <<y, mo, d, h, m, s, cut>>
  <2>1. Append(<<y, mo, d>>, h) = <<y, mo, d, h>>
    BY Append4, Zenon
  <2>2. Append(<<y, mo, d, h>>, m) = <<y, mo, d, h, m>>
    BY Append5, Zenon
  <2>3. Append(<<y, mo, d, h, m>>, s) = <<y, mo, d, h, m, s>>
    BY Append6, Zenon
  <2>4. Append(<<y, mo, d, h, m, s>>, cut) = <<y, mo, d, h, m, s, cut>>
    BY Append7, ZenonT(60)
  <2> QED  BY <2>1, <2>2, <2>3, <2>4, Zenon
<1> HIDE DEF h, m, s
<1>3. Timely(<<y, mo, d>>, t, cut) = <<y, mo, d, h, m, s, cut>>
  BY <1>1, <1>2, Zenon
<1> QED  BY <1>3, Zenon DEF h, m, s

Civil(d, t) == [date |-> d, time |-> t]

(* What is read of a date and a time.                                      *)
CivilGot(d, t, cut) == Timely(<<CivilFromDays(d).year, CivilFromDays(d).month, CivilFromDays(d).day>>, t, cut)

LEMMA CivilIsWritten ==
  ASSUME NEW d \in Date, NEW t \in TimesOfDay, NEW fraction \in Fractions, NEW r \in Text
  PROVE  /\ WriteCivil(Civil(d, t), fraction) \in Text
         /\ Glue(WriteTime(t, fraction), r) \in Text
         /\ Glue(WriteCivil(Civil(d, t), fraction), r)
              = Glue(WriteDate(d), Cons(Char("T"), Glue(WriteTime(t, fraction), r)))
<1> DEFINE D == WriteDate(d)  T == WriteTime(t, fraction)  b == Char("T")  C == Civil(d, t)
           x == Glue(Glue(D, One(b)), T)  u == Glue(T, r)
<1>1. D \in Text /\ T \in Text /\ b \in Tokens
  BY DateWritten, TimeText, DashAhead, NoTextAhead
<1>2. WriteCivil(C, fraction) = x
  <2>1. C.date = d /\ C.time = t
    BY DEF Civil
  <2> HIDE DEF C
  <2> QED  BY <2>1, Zenon DEF WriteCivil, Glue, One
<1> HIDE DEF D, T, b
<1>3. Glue(D, One(b)) \in Text /\ u \in Text
  BY <1>1, GlueText, GlueTexts
<1>4. x \in Text
  BY <1>1, <1>3, GlueTexts
<1>5. Glue(x, r) = Glue(Glue(D, One(b)), u)
  <2> DEFINE y == Glue(D, One(b))
  <2> HIDE DEF y
  <2> QED  BY <1>1, <1>3, GlueGlue DEF y
<1> HIDE DEF u
<1>6. Glue(Glue(D, One(b)), u) = Glue(D, Cons(b, u))
  BY <1>1, <1>3, GlueOne
<1> QED  BY <1>2, <1>3, <1>4, <1>5, <1>6, Zenon DEF D, T, b, u, C

LEMMA SeparatorReads ==
  ASSUME NEW u \in Text, NEW g
  PROVE  ReadsAll(Here(g, Cons(Char("T"), u)), <<Expect(ISep)>>, Here(g, u))
         /\ Cons(Char("T"), u) \in Text
<1> DEFINE b == Char("T")
<1>1. b \in Tokens /\ b.byte \in ISep
  BY DashAhead DEF ISep
<1> HIDE DEF b
<1>2. Reads(Here(g, Cons(b, u)), Expect(ISep), Here(g, u)) /\ Cons(b, u) \in Text
  BY <1>1, ByteReads, GlueText
<1> QED  BY <1>2, ReadsOne, Zenon DEF b

LEMMA CivilIsScanned ==
  ASSUME NEW d \in Date, NEW t \in TimesOfDay, NEW fraction \in Fractions,
         NEW r \in Text, ~NextIs(r, Nine), ~NextIs(r, {"."}),
         NEW w, w = Glue(WriteCivil(Civil(d, t), fraction), r),
         NEW a, a = Here(CivilGot(d, t, CutOf(t, fraction)), r)
  PROVE  /\ AtEnd(a) => CivilIso(w, a)
         /\ \A p : OffsetScans(a, p) /\ AtEnd(p) => ZonedIso(w, p)
<1> DEFINE c == CivilFromDays(d)  g == <<c.year, c.month, c.day>>  u == Glue(WriteTime(t, fraction), r)
           v == Cons(Char("T"), u)
<1>1. u \in Text /\ w = Glue(WriteDate(d), v)
  BY CivilIsWritten, Zenon
<1>2. ReadsAll(Here(g, v), <<Expect(ISep)>>, Here(g, u)) /\ v \in Text
  <2> HIDE DEF u, g
  <2> QED  BY <1>1, SeparatorReads
<1> HIDE DEF v
<1>3. ScanDate(Start(w)) = {Here(g, v)}
  BY <1>1, <1>2, DateIsScanned, Zenon
<1> HIDE DEF g
<1>4. ScanTime(Here(g, u)) = {a}
  <2>1. a = Here(Timely(g, t, CutOf(t, fraction)), r)
    BY Zenon DEF g, CivilGot
  <2>2. ScanTime(Here(g, Glue(WriteTime(t, fraction), r)))
          = {Here(Timely(g, t, CutOf(t, fraction)), r)}
    BY TimeIsScanned
  <2> QED  BY <2>1, <2>2, Zenon
<1> DEFINE p0 == Here(g, v)  p1 == Here(g, u)
<1>6. DateScans(w, p0) /\ SepReads(p0, p1) /\ TimeScans(p1, a)
  BY <1>2, <1>3, <1>4, Zenon DEF DateScans, SepReads, TimeScans
<1> HIDE DEF p0, p1
<1> QED  BY <1>6, DateAndTime

LEMMA CivilIsRead ==
  ASSUME NEW d \in Date, NEW t \in TimesOfDay, NEW cut, NEW x, NEW p,
         x = CivilFromDays(d),
         p.got[1] = x.year, p.got[2] = x.month, p.got[3] = x.day,
         p.got[4] = t.hour, p.got[5] = t.minute, p.got[6] = t.second, p.got[7] = cut
  PROVE  CivilOf(p) = {Civil(d, WithNanos(t, cut))}
<1> DEFINE y == WithNanos(t, cut)  A == DateOf(p)  B == FromHmsNano(p.got[4], p.got[5], p.got[6], p.got[7])
<1>1. A = {d}
  BY AccessorsTakenBack, Zenon DEF DateOf
<1>2. B = {y}
  BY TimeAccepted, ZenonT(60)
<1>3. CivilOf(p) = [date : A, time : B]
  BY Zenon DEF CivilOf
<1> HIDE DEF A, B, y
<1>4. [date : A, time : B] = {Civil(d, y)}
  <2>1. ASSUME NEW c \in [date : A, time : B]
        PROVE  c = Civil(d, y)
    BY <1>1, <1>2, <2>1 DEF Civil
  <2>2. Civil(d, y) \in [date : A, time : B]
    BY <1>1, <1>2 DEF Civil
  <2> QED  BY <2>1, <2>2, Zenon
<1> QED  BY <1>3, <1>4, Zenon DEF y

(* A civil date-time is read back, its time cut to the fraction.           *)
LEMMA CivilReadsBack ==
  ASSUME NEW d \in Date, NEW t \in TimesOfDay, NEW fraction \in Fractions
  PROVE  ReadCivil(WriteCivil(Civil(d, t), fraction)) = {Civil(d, WithNanos(t, CutOf(t, fraction)))}
<1> DEFINE r == <<>>  w == WriteCivil(Civil(d, t), fraction)  cut == CutOf(t, fraction)
           x == CivilFromDays(d)
           a == Here(CivilGot(d, t, cut), r)  S == ScanIso(w, TRUE, FALSE)
<1>1. r \in Text /\ ~NextIs(r, Nine) /\ ~NextIs(r, {"."})
  BY NoTextAhead
<1>2. w \in Text /\ Glue(w, r) = w
  <2>1. w \in Text
    BY <1>1, CivilIsWritten
  <2> QED  BY <2>1, NoneText
<1>3. S = {a}
  <2> DEFINE W == WriteCivil(Civil(d, t), fraction)  A == CivilGot(d, t, CutOf(t, fraction))
  <2>1. w = Glue(W, r) /\ a = Here(A, r) /\ AtEnd(a)
    BY <1>2, HereFields, Zenon DEF AtEnd
  <2> HIDE DEF r, w, a
  <2>2. CivilIso(w, a)
    BY <1>1, <2>1, CivilIsScanned
  <2> QED  BY <2>2, Zenon DEF CivilIso
<1>4. /\ a.got[1] = x.year /\ a.got[2] = x.month /\ a.got[3] = x.day
      /\ a.got[4] = t.hour /\ a.got[5] = t.minute /\ a.got[6] = t.second /\ a.got[7] = cut
  <2>1. a.got = <<x.year, x.month, x.day, t.hour, t.minute, t.second, cut>>
    <3> DEFINE g == CivilGot(d, t, cut)
    <3>1. g = <<x.year, x.month, x.day, t.hour, t.minute, t.second, cut>>
      BY TimelyCivil, ZenonT(60) DEF CivilGot
    <3> HIDE DEF g
    <3>2. a.got = g
      BY HereFields DEF g
    <3> QED  BY <3>1, <3>2, Zenon
  <2> HIDE DEF a
  <2> QED  BY <2>1
<1> HIDE DEF a, cut, x
<1>5. CivilOf(a) = {Civil(d, WithNanos(t, cut))}
  <2>1. x = CivilFromDays(d)
    BY DEF x
  <2> QED  BY <1>4, <2>1, CivilIsRead
<1> HIDE DEF S
<1>6. UNION {CivilOf(s) : s \in S} = {Civil(d, WithNanos(t, cut))}
  BY <1>3, <1>5
<1> QED  BY <1>6, Zenon DEF ReadCivil, S, w, cut

-----------------------------------------------------------------------------
(* Instants and their civil readings.                                      *)

(* The seconds of a day, the parts of one, and an instant.                 *)

Moment(d, s, n) == [day |-> d, second |-> s, nanos |-> n]

LEMMA FieldsOfInstant ==
  ASSUME NEW t \in Instants
  PROVE  /\ t.day \in Int /\ t.second \in DaySeconds /\ t.nanos \in Nanos
         /\ t = Moment(t.day, t.second, t.nanos)
BY DEF Moment, Instants

LEMMA MomentFields ==
  ASSUME NEW d, NEW s, NEW n
  PROVE  /\ Moment(d, s, n).day = d /\ Moment(d, s, n).second = s /\ Moment(d, s, n).nanos = n
BY DEF Moment

LEMMA NanosCut ==
  ASSUME NEW d, NEW s, NEW n, NEW x
  PROVE  [Moment(d, s, n) EXCEPT !.nanos = x] = Moment(d, s, x)
BY DEF Moment

LEMMA DayMoved ==
  ASSUME NEW d, NEW s, NEW n, NEW x
  PROVE  [Moment(d, s, n) EXCEPT !.day = x] = Moment(x, s, n)
BY DEF Moment

LEMMA SecondMoved ==
  ASSUME NEW d, NEW s, NEW n, NEW y
  PROVE  [Moment(d, s, n) EXCEPT !.second = y] = Moment(d, y, n)
BY DEF Moment

(* A day and a second of the day, moved by some seconds.                   *)
MovedDay(d, s, o, n) == d + ((s + o) \div n)
MovedSecond(s, o, n) == (s + o) % n

LEMMA ShiftIs ==
  ASSUME NEW d, NEW s, NEW n, NEW o
  PROVE  Shift(Moment(d, s, n), o)
           = Moment(MovedDay(d, s, o, SecondsPerDay), MovedSecond(s, o, SecondsPerDay), n)
<1> DEFINE t == Moment(d, s, n)
           x == MovedDay(d, s, o, SecondsPerDay)  y == MovedSecond(s, o, SecondsPerDay)
<1>1. t.day = d /\ t.second = s
  BY MomentFields
<1> HIDE DEF t
<1>2. Shift(t, o) = [t EXCEPT !.day = x, !.second = y]
  BY <1>1, Zenon DEF Shift, MovedDay, MovedSecond
<1> HIDE DEF x, y
<1>3. [t EXCEPT !.day = x] = Moment(x, s, n) /\ [Moment(x, s, n) EXCEPT !.second = y] = Moment(x, y, n)
  <2>1. [t EXCEPT !.day = x] = Moment(x, s, n)
    BY DayMoved DEF t
  <2>2. [Moment(x, s, n) EXCEPT !.second = y] = Moment(x, y, n)
    BY SecondMoved
  <2> QED  BY <2>1, <2>2
<1>4. [t EXCEPT !.day = x, !.second = y] = [[t EXCEPT !.day = x] EXCEPT !.second = y]
  OBVIOUS
<1> QED  BY <1>2, <1>3, <1>4, Zenon DEF t, x, y

LEMMA Divided ==
  ASSUME NEW a \in Int, NEW n \in Nat \ {0}
  PROVE  /\ a \div n \in Int /\ a % n \in Nat /\ a % n < n
         /\ a = (a \div n) * n + (a % n)
<1> DEFINE q == a \div n  r == a % n
<1>1. q \in Int /\ r \in 0..n - 1 /\ a = n * q + r
  OBVIOUS
<1> HIDE DEF q, r
<1>2. n * q = q * n /\ q * n \in Int /\ r \in Nat /\ r < n
  BY <1>1
<1>3. a = q * n + r
  BY <1>1, <1>2
<1> QED  BY <1>1, <1>2, <1>3 DEF q, r

LEMMA DividesInto ==
  ASSUME NEW n \in Nat \ {0}, NEW q \in Int, NEW r \in Nat, r < n, NEW a, a = q * n + r
  PROVE  a \div n = q /\ a % n = r
<1> DEFINE e == a \div n  f == a % n
<1>1. q * n \in Int /\ a \in Int
  OBVIOUS
<1>2. e \in Int /\ f \in Nat /\ f < n /\ a = e * n + f
  BY <1>1, Divided
<1> HIDE DEF e, f
<1>3. e * n \in Int
  BY <1>2
<1>4. q * n <= a /\ a < q * n + n /\ e * n <= a /\ a < e * n + n
  BY <1>1, <1>2, <1>3
<1>5. e = q
  BY <1>1, <1>2, <1>4, SameQuotient
<1>6. f = r
  BY <1>1, <1>2, <1>5
<1> QED  BY <1>5, <1>6 DEF e, f

LEMMA ShiftedBack ==
  ASSUME NEW n \in Nat \ {0}, NEW d \in Int, NEW s \in Nat, s < n, NEW o \in Int
  PROVE  LET x == MovedDay(d, s, o, n)  y == MovedSecond(s, o, n)
         IN  /\ x \in Int /\ y \in Nat /\ y < n
             /\ MovedDay(x, y, -o, n) = d /\ MovedSecond(y, -o, n) = s
<1> DEFINE q == (s + o) \div n  y == (s + o) % n  z == y + (-o)  x == d + q
<1>1. q \in Int /\ y \in Nat /\ y < n /\ s + o = q * n + y
  <2>1. s + o \in Int
    OBVIOUS
  <2> QED  BY <2>1, Divided
<1> HIDE DEF q, y
<1>3. z = (-q) * n + s
  <2> DEFINE p == q * n  m == (-q) * n
  <2>1. p \in Int /\ m = -p
    BY <1>1
  <2>2. s + o = p + y
    BY <1>1
  <2> HIDE DEF p, m
  <2>3. z = m + s
    BY <1>1, <2>1, <2>2
  <2> QED  BY <2>3 DEF m
<1> HIDE DEF z
<1>4. z \div n = -q /\ z % n = s
  <2>1. -q \in Int
    BY <1>1
  <2> QED  BY <1>3, <2>1, DividesInto
<1>5. x + (z \div n) = d /\ x \in Int
  BY <1>1, <1>4
<1>6. /\ MovedDay(d, s, o, n) = x /\ MovedSecond(s, o, n) = y
      /\ MovedDay(x, y, -o, n) = x + (z \div n) /\ MovedSecond(y, -o, n) = z % n
  BY Zenon DEF MovedDay, MovedSecond, q, y, z
<1> HIDE DEF x
<1> QED  BY <1>1, <1>4, <1>5, <1>6

LEMMA SecondParts ==
  ASSUME NEW s \in DaySeconds
  PROVE  /\ s \div 3600 \in 0..23 /\ (s \div 60) % 60 \in 0..59 /\ s % 60 \in 0..59
         /\ (s \div 3600) * 3600 + ((s \div 60) % 60) * 60 + (s % 60) = s
<1> DEFINE a == s \div 60  x == s % 60  h == a \div 60  m == a % 60  b == s \div 3600  c == s % 3600
<1>1. s \in Nat /\ s < 86400
  BY DEF DaySeconds, SecondsPerDay
<1>2. a \in Int /\ x \in Nat /\ x < 60 /\ s = a * 60 + x
  <2>1. s \in Int /\ 60 \in Nat \ {0}
    BY <1>1
  <2> QED  BY <2>1, Divided
<1> HIDE DEF a, x
<1>3. h \in Int /\ m \in Nat /\ m < 60 /\ a = h * 60 + m
  <2>1. 60 \in Nat \ {0}
    OBVIOUS
  <2> QED  BY <1>2, <2>1, Divided
<1> HIDE DEF h, m
<1>4. b = h
  <2>1. 3600 \in Nat \ {0} /\ m * 60 + x \in Nat /\ m * 60 + x < 3600 /\ s = h * 3600 + (m * 60 + x)
    BY <1>2, <1>3
  <2> DEFINE r == m * 60 + x
  <2> HIDE DEF r
  <2> QED  BY <1>3, <2>1, DividesInto DEF r
<1> HIDE DEF b
<1>5. h \in 0..23 /\ m \in 0..59 /\ x \in 0..59 /\ h * 3600 + m * 60 + x = s
  BY <1>1, <1>2, <1>3
<1>6. b \in 0..23 /\ m \in 0..59 /\ x \in 0..59 /\ b * 3600 + m * 60 + x = s
  BY <1>4, <1>5
<1> QED  BY <1>6 DEF a, x, m, b

HourAt(s)   == s \div 3600
MinuteAt(s) == (s \div 60) % 60

LEMMA TimeOfSecond ==
  ASSUME NEW s \in DaySeconds, NEW n \in Nanos
  PROVE  TimeAt(s, n) \in TimesOfDay
<1> DEFINE h == HourAt(s)  m == MinuteAt(s)  x == s % 60
<1>1. h \in 0..23 /\ m \in 0..59 /\ x \in 0..59
  BY SecondParts DEF HourAt, MinuteAt
<1>3. TimeAt(s, n) = Time(h, m, x, n)
  BY DEF TimeAt, HourAt, MinuteAt
<1> HIDE DEF h, m, x
<1>2. Time(h, m, x, n) \in [hour : 0..23, minute : 0..59, second : 0..59, nanos : Nanos]
  BY <1>1 DEF Time
<1> QED  BY <1>2, <1>3, Zenon DEF TimesOfDay, Nanos

LEMMA SecondKept ==
  ASSUME NEW s \in DaySeconds, NEW n, NEW cut
  PROVE  /\ SecondOfDay(WithNanos(TimeAt(s, n), cut)) = s
         /\ WithNanos(TimeAt(s, n), cut).nanos = cut /\ TimeAt(s, n).nanos = n
<1> DEFINE h == HourAt(s)  m == MinuteAt(s)  x == s % 60
<1>1. h * 3600 + m * 60 + x = s
  BY SecondParts DEF HourAt, MinuteAt
<1>2. TimeAt(s, n) = Time(h, m, x, n)
  BY DEF TimeAt, HourAt, MinuteAt
<1> HIDE DEF h, m, x
<1>3. /\ WithNanos(Time(h, m, x, n), cut) = Time(h, m, x, cut) /\ Time(h, m, x, cut).nanos = cut
      /\ Time(h, m, x, n).nanos = n
  BY DEF WithNanos, Time
<1>4. SecondOfDay(Time(h, m, x, cut)) = h * 3600 + m * 60 + x
  BY DEF SecondOfDay, Time
<1>5. SecondOfDay(Time(h, m, x, cut)) = s
  BY <1>1, <1>4
<1> DEFINE u == Time(h, m, x, cut)  v == Time(h, m, x, n)
<1> HIDE DEF u, v
<1> QED  BY <1>2, <1>3, <1>5 DEF u, v

LEMMA CivilFieldsOf ==
  ASSUME NEW d, NEW t
  PROVE  Civil(d, t).date = d /\ Civil(d, t).time = t
BY DEF Civil

(* The reading of an instant at an offset.                                 *)
LocalDay(t, o)  == MovedDay(t.day, t.second, o, SecondsPerDay)
LocalTime(t, o) == TimeAt(MovedSecond(t.second, o, SecondsPerDay), t.nanos)

LEMMA CivilAtIs ==
  ASSUME NEW t \in Instants, NEW o
  PROVE  CivilAt(t, o) = IF LocalDay(t, o) \in Date THEN {Civil(LocalDay(t, o), LocalTime(t, o))} ELSE {}
<1> DEFINE d == LocalDay(t, o)  y == MovedSecond(t.second, o, SecondsPerDay)  n == t.nanos
           l == Shift(t, o)  X(e) == Civil(e, TimeAt(l.second, l.nanos))
<1>1. l = Moment(d, y, n)
  <2> DEFINE a == t.day  b == t.second
  <2>1. t = Moment(a, b, n)
    BY FieldsOfInstant, Zenon
  <2>2. Shift(Moment(a, b, n), o)
          = Moment(MovedDay(a, b, o, SecondsPerDay), MovedSecond(b, o, SecondsPerDay), n)
    BY ShiftIs, Zenon
  <2>3. d = MovedDay(a, b, o, SecondsPerDay) /\ y = MovedSecond(b, o, SecondsPerDay)
    BY Zenon DEF LocalDay
  <2> HIDE DEF a, b, n, d, y
  <2> QED  BY <2>1, <2>2, <2>3, Zenon
<1>2. l.day = d /\ l.second = y /\ l.nanos = n
  <2> HIDE DEF d, y, n, l
  <2> QED  BY <1>1, MomentFields
<1>3. CivilAt(t, o) = {X(e) : e \in FromDaysChecked(l.day)}
  BY Zenon DEF CivilAt, Civil
<1> HIDE DEF l, d
<1>4. CivilAt(t, o) = {X(e) : e \in FromDaysChecked(d)} /\ X(d) = Civil(d, LocalTime(t, o))
  BY <1>2, <1>3, Zenon DEF LocalTime
<1> HIDE DEF X
<1>5. CASE d \in Date
  <2>1. FromDaysChecked(d) = {d}
    BY <1>5, Zenon DEF FromDaysChecked, Ok
  <2>2. CivilAt(t, o) = {X(d)}
    BY <1>4, <2>1, Zenon
  <2> QED  BY <1>4, <1>5, <2>2, Zenon DEF d
<1>6. CASE d \notin Date
  <2>1. FromDaysChecked(d) = {}
    BY <1>6, Zenon DEF FromDaysChecked, Err
  <2>2. CivilAt(t, o) = {}
    BY <1>4, <2>1, Zenon
  <2> QED  BY <1>6, <2>2, Zenon DEF d
<1> QED  BY <1>5, <1>6, Zenon

LEMMA InstantTakenBack ==
  ASSUME NEW t \in Instants, NEW o \in Offsets, NEW cut
  PROVE  /\ InstantOf(Civil(LocalDay(t, o), WithNanos(LocalTime(t, o), cut)), o) = [t EXCEPT !.nanos = cut]
         /\ LocalTime(t, o) \in TimesOfDay /\ LocalTime(t, o).nanos = t.nanos
<1> DEFINE n == SecondsPerDay  x == LocalDay(t, o)  y == MovedSecond(t.second, o, n)
           T == WithNanos(LocalTime(t, o), cut)  c == Civil(x, T)
           a == t.day  b == t.second
<1>1. /\ a \in Int /\ b \in DaySeconds /\ t.nanos \in Nanos /\ o \in Int
      /\ t = Moment(a, b, t.nanos)
  BY FieldsOfInstant, OffsetIsShort
<1>2. n \in Nat \ {0} /\ b \in Nat /\ b < n
  BY <1>1 DEF SecondsPerDay, DaySeconds
<1>3. x = MovedDay(a, b, o, n) /\ y = MovedSecond(b, o, n)
  BY Zenon DEF LocalDay
<1>5. LocalTime(t, o) = TimeAt(y, t.nanos)
  BY Zenon DEF LocalTime
<1> HIDE DEF n, x, y, T, a, b
<1>4. /\ x \in Int /\ y \in Nat /\ y < n
      /\ MovedDay(x, y, -o, n) = a /\ MovedSecond(y, -o, n) = b
  BY <1>1, <1>2, <1>3, ShiftedBack
<1>13. y \in DaySeconds
  BY <1>4 DEF DaySeconds, n
<1>6. SecondOfDay(T) = y /\ T.nanos = cut /\ LocalTime(t, o).nanos = t.nanos
  BY <1>5, <1>13, SecondKept DEF T
<1>7. LocalTime(t, o) \in TimesOfDay
  BY <1>1, <1>5, <1>13, TimeOfSecond
<1>8. c.date = x /\ c.time = T
  BY CivilFieldsOf
<1> HIDE DEF c
<1>9. InstantOf(c, o) = Shift(Moment(x, y, cut), -o)
  BY <1>6, <1>8, Zenon DEF InstantOf, Moment
<1>10. Shift(Moment(x, y, cut), -o) = Moment(MovedDay(x, y, -o, n), MovedSecond(y, -o, n), cut)
  BY ShiftIs, Zenon DEF n
<1>11. Moment(MovedDay(x, y, -o, n), MovedSecond(y, -o, n), cut) = Moment(a, b, cut)
  BY <1>4, Zenon
<1>12. [t EXCEPT !.nanos = cut] = Moment(a, b, cut)
  <2> DEFINE f == t.nanos
  <2>1. t = Moment(a, b, f)
    BY <1>1
  <2> HIDE DEF f
  <2> QED  BY <2>1, NanosCut
<1> QED  BY <1>6, <1>7, <1>9, <1>10, <1>11, <1>12, Zenon DEF c, T, x

LEMMA ChosenOne ==
  ASSUME NEW c
  PROVE  (CHOOSE x \in {c} : TRUE) = c /\ {c} # {}
OBVIOUS

(* What the writers of instants write, with a date and without.            *)
ZonedText(c, o, fraction) == Glue(WriteCivil(c, fraction), WriteOffset(o))

LEMMA ZonedIsWritten ==
  ASSUME NEW z, NEW fraction, NEW S, S = CivilAt(z.ticks, z.offset)
  PROVE  /\ \A c : S = {c} => WriteZoned(z, fraction) = ZonedText(c, z.offset, fraction)
         /\ S = {} => WriteZoned(z, fraction) = Glue(WriteNanos(z.ticks), WriteOffset(z.offset))
<1>1. WriteZoned(z, fraction)
        = IF S = {} THEN WriteNanos(z.ticks) \o WriteOffset(z.offset)
          ELSE WriteRfc3339(CHOOSE x \in S : TRUE, z.offset, fraction)
  BY DEF WriteZoned, WriteOr, Err
<1>2. ASSUME NEW c, S = {c}
      PROVE  WriteZoned(z, fraction) = ZonedText(c, z.offset, fraction)
  <2>1. S # {} /\ (CHOOSE x \in S : TRUE) = c
    BY <1>2, ChosenOne, Zenon
  <2>2. WriteZoned(z, fraction) = WriteRfc3339(c, z.offset, fraction)
    BY <1>1, <2>1, Zenon
  <2> QED  BY <2>2, Zenon DEF WriteRfc3339, ZonedText, Glue
<1>3. ASSUME S = {}
      PROVE  WriteZoned(z, fraction) = Glue(WriteNanos(z.ticks), WriteOffset(z.offset))
  BY <1>1, <1>3, Zenon DEF Glue
<1> QED  BY <1>2, <1>3, Zenon

LEMMA TicksAreWritten ==
  ASSUME NEW t, NEW fraction, NEW S, S = CivilAt(t, 0)
  PROVE  /\ \A c : S = {c} => WriteTicks(t, fraction) = ZonedText(c, 0, fraction)
         /\ S = {} => WriteTicks(t, fraction) = Glue(WriteNanos(t), One(Char("s")))
<1>1. WriteTicks(t, fraction)
        = IF S = {} THEN WriteNanos(t) \o <<Char("s")>>
          ELSE WriteRfc3339(CHOOSE x \in S : TRUE, 0, fraction)
  BY DEF WriteTicks, WriteOr, Err
<1>2. ASSUME NEW c, S = {c}
      PROVE  WriteTicks(t, fraction) = ZonedText(c, 0, fraction)
  <2>1. S # {} /\ (CHOOSE x \in S : TRUE) = c
    BY <1>2, ChosenOne, Zenon
  <2>2. WriteTicks(t, fraction) = WriteRfc3339(c, 0, fraction)
    BY <1>1, <2>1, Zenon
  <2> QED  BY <2>2, Zenon DEF WriteRfc3339, ZonedText, Glue
<1>3. ASSUME S = {}
      PROVE  WriteTicks(t, fraction) = Glue(WriteNanos(t), One(Char("s")))
  BY <1>1, <1>3, Zenon DEF Glue, One
<1> QED  BY <1>2, <1>3, Zenon

LEMMA OffsetText ==
  ASSUME NEW o \in Offsets
  PROVE  WriteOffset(o) \in Text
BY OffsetIsScanned

LEMMA OffsetScanned ==
  ASSUME NEW o \in Offsets, NEW g
  PROVE  /\ ~NextIs(WriteOffset(o), Nine) /\ ~NextIs(WriteOffset(o), {"."})
         /\ OffsetScans(Here(g, WriteOffset(o)), Here(Append(g, o), <<>>))
BY OffsetIsScanned DEF OffsetScans

(* An offset is read back, with its seconds.                               *)
LEMMA OffsetReadsBack ==
  ASSUME NEW o \in Offsets
  PROVE  ReadOffset(WriteOffset(o)) = {o} /\ WriteOffset(o) # <<Name("UTC", 0)>>
<1> DEFINE w == WriteOffset(o)  e == <<>>  g == <<o>>  p == Here(g, e)  S == ScanOffset(Start(w))
<1>1. g = Append(e, o)
  BY Append1, Zenon
<1>2. S = {p}
  <2>1. Start(w) = Here(e, w)
    BY Zenon DEF Start, Here
  <2>2. OffsetScans(Here(e, w), Here(Append(e, o), e))
    BY OffsetScanned, Zenon
  <2> QED  BY <1>1, <2>1, <2>2, Zenon DEF OffsetScans
<1>3. p.rest = e /\ p.got[1] = o
  BY HereFields
<1> HIDE DEF S, p, e
<1> DEFINE Q == {q \in S : q.rest = e}
<1>4. Q = {p}
  BY <1>2, <1>3
<1>5. ReadOffset(w) = {q.got[1] : q \in Q}
  BY Zenon DEF ReadOffset, AtEnd, S, e
<1> HIDE DEF Q, w
<1>6. ReadOffset(w) = {o}
  BY <1>3, <1>4, <1>5
<1>7. w # <<Name("UTC", 0)>>
  <2>1. NextIs(<<Name("UTC", 0)>>, {"UTC"})
    BY DEF NextIs, Name
  <2>2. CASE o = 0
    <3>1. w = <<Char("Z")>>
      BY <2>2 DEF WriteOffset, w
    <3>2. ~NextIs(<<Char("Z")>>, {"UTC"})
      BY DEF NextIs, Char
    <3> QED  BY <2>1, <3>1, <3>2
  <2>3. CASE o # 0
    <3>1. PICK u : w = Cons(SignToken(o), u) /\ SignToken(o) \in Tokens /\ u \in Text
      <4> DEFINE x == Cons(Char(":"), Cons(Digits(MinutesOf(o), 2), SecondsText(SecondsOf(o))))
                 y == Cons(Digits(HoursOf(o), 2), x)
      <4>1. w = Cons(SignToken(o), y)
        BY <2>3, OffsetIsWritten, Zenon DEF w
      <4>2. /\ SignToken(o) \in Tokens /\ Char(":") \in Tokens /\ Digits(HoursOf(o), 2) \in Tokens
            /\ Digits(MinutesOf(o), 2) \in Tokens /\ SecondsText(SecondsOf(o)) \in Text
        BY TimeOfOffset, Zenon
      <4>3. x \in Text
        <5> DEFINE v == Cons(Digits(MinutesOf(o), 2), SecondsText(SecondsOf(o)))
        <5>1. v \in Text
          BY <4>2, GlueText
        <5> HIDE DEF v
        <5>2. Cons(Char(":"), v) \in Text
          BY <4>2, <5>1, GlueText
        <5> QED  BY <5>2 DEF v
      <4> HIDE DEF x
      <4>4. y \in Text
        BY <4>2, <4>3, GlueText
      <4> QED  BY <4>1, <4>2, <4>4, Zenon
    <3>2. SignToken(o).byte # "UTC"
      BY DEF SignToken, Char
    <3>3. ~NextIs(w, {"UTC"})
      BY <3>1, <3>2, NextFrom
    <3> QED  BY <2>1, <3>3
  <2> QED  BY <2>2, <2>3
<1> QED  BY <1>6, <1>7, Zenon DEF w

-----------------------------------------------------------------------------
(* Zoned instants, and those without a civil date.                         *)

Placement(x, o) == [ticks |-> x, offset |-> o]

LEMMA ZonedTextReads ==
  ASSUME NEW d \in Date, NEW t \in TimesOfDay, NEW fraction \in Fractions, NEW o \in Offsets
  PROVE  /\ ReadZoned(ZonedText(Civil(d, t), o, fraction))
              = {Placement(InstantOf(Civil(d, WithNanos(t, CutOf(t, fraction))), o), o)}
<1> DEFINE C == WriteCivil(Civil(d, t), fraction)  r == WriteOffset(o)  w == Glue(C, r)
           cut == CutOf(t, fraction)  x == CivilFromDays(d)  g == CivilGot(d, t, cut)
           h == Append(g, o)  a == Here(g, r)  p == Here(h, <<>>)  S == ScanIso(w, TRUE, TRUE)
           c == Civil(d, WithNanos(t, cut))
<1>1. r \in Text /\ ~NextIs(r, Nine) /\ ~NextIs(r, {"."}) /\ OffsetScans(a, p)
  BY OffsetText, OffsetScanned, Zenon
<1>2. AtEnd(p)
  BY HereFields DEF AtEnd
<1>3. ZonedIso(w, p)
  <2> DEFINE G == CivilGot(d, t, CutOf(t, fraction))
  <2>1. w = Glue(WriteCivil(Civil(d, t), fraction), r) /\ a = Here(G, r)
    OBVIOUS
  <2> HIDE DEF r, w, a, p, G
  <2> QED  BY <1>1, <1>2, <2>1, CivilIsScanned DEF G
<1>4. /\ p.got[1] = x.year /\ p.got[2] = x.month /\ p.got[3] = x.day
      /\ p.got[4] = t.hour /\ p.got[5] = t.minute /\ p.got[6] = t.second /\ p.got[7] = cut
      /\ p.got[8] = o
  <2>1. g = <<x.year, x.month, x.day, t.hour, t.minute, t.second, cut>>
    BY TimelyCivil, ZenonT(60) DEF CivilGot
  <2> HIDE DEF g
  <2>2. h = <<x.year, x.month, x.day, t.hour, t.minute, t.second, cut, o>>
    <3> DEFINE y == x.year  mo == x.month  e == x.day  hh == t.hour  mi == t.minute  se == t.second
    <3>1. g = <<y, mo, e, hh, mi, se, cut>>
      BY <2>1, Zenon
    <3> HIDE DEF y, mo, e, hh, mi, se, cut
    <3>2. Append(<<y, mo, e, hh, mi, se, cut>>, o) = <<y, mo, e, hh, mi, se, cut, o>>
      BY Append8, ZenonT(60)
    <3> QED  BY <3>1, <3>2, Zenon DEF y, mo, e, hh, mi, se
  <2>3. p.got = h
    BY HereFields
  <2> HIDE DEF h, p
  <2>4. p.got = <<x.year, x.month, x.day, t.hour, t.minute, t.second, cut, o>>
    BY <2>2, <2>3, Zenon
  <2> QED  BY <2>4
<1> HIDE DEF p, cut, x, w
<1>5. CivilOf(p) = {c}
  <2>1. x = CivilFromDays(d)
    BY DEF x
  <2> QED  BY <1>4, <2>1, CivilIsRead
<1>6. S = {p}
  BY <1>3, Zenon DEF ZonedIso
<1> DEFINE F(s) == {Placement(InstantOf(e, s.got[8]), s.got[8]) : e \in CivilOf(s)}
<1>7. ReadZoned(w) = UNION {F(s) : s \in S}
  BY Zenon DEF ReadZoned, Placement
<1> HIDE DEF S, c
<1>8. F(p) = {Placement(InstantOf(c, o), o)}
  BY <1>4, <1>5
<1> HIDE DEF F
<1>9. ReadZoned(w) = {Placement(InstantOf(c, o), o)}
  BY <1>6, <1>7, <1>8
<1> QED  BY <1>9, Zenon DEF c, w, cut, ZonedText

LEMMA MissAfterNumber ==
  ASSUME NEW v, NEW min, NEW max, max > 0, NEW bytes,
         ~NextIs(TakeDigits(v, max).rest, bytes), NEW g
  PROVE  ScanAll(ScanAll({Here(g, v)}, Number(min, max)), Expect(bytes)) = {}
<1> DEFINE k == TakeDigits(v, max)  A == ReadNumber(v, min, max)  q == Here(Append(g, k.value), k.rest)
           F(n) == Here(Append(g, n.value), n.rest)  B == ScanAll({Here(g, v)}, Number(min, max))
           E == Expect(bytes)
<1>1. A = {k} \/ A = {}
  BY DEF ReadNumber
<1>2. B = {F(n) : n \in A}
  BY NumberScanned
<1>3. ScanAll({q}, E) = {} /\ ScanAll({}, E) = {}
  BY ByteMissed, ScanAllOne
<1>4. F(k) = q
  OBVIOUS
<1> HIDE DEF A, F, q, k, B
<1>5. B = {q} \/ B = {}
  BY <1>1, <1>2, <1>4
<1> HIDE DEF E
<1>6. ScanAll(B, E) = {}
  <2>1. CASE B = {q}
    BY <1>3, <2>1, Zenon
  <2>2. CASE B = {}
    BY <1>3, <2>2, Zenon
  <2> QED  BY <1>5, <2>1, <2>2
<1> QED  BY <1>6 DEF B, E

LEMMA NothingScanned ==
  ASSUME NEW s, NEW a, NEW b, NEW c, NEW d, NEW e,
         ScanAll(ScanAll({s}, a), b) = {}
  PROVE  Scan(s, <<a, b>>) = {} /\ Scan(s, <<a, b, c>>) = {} /\ Scan(s, <<a, b, c, d, e>>) = {}
<1> DEFINE A == {s}  P == Scan(s, <<a, b>>)  Q == Scan(s, <<a, b, c>>)  R == Scan(s, <<a, b, c, d, e>>)
           N == ScanAll(ScanAll(A, a), b)  E == {}
<1>1. P = N
  BY ScanTwo
<1>2. Q = ScanAll(N, c)
  BY ScanThree
<1>3. R = ScanAll(ScanAll(ScanAll(N, c), d), e)
  BY ScanFive
<1>4. \A x : ScanAll(E, x) = E
  BY ScanAllOne
<1>5. N = E
  OBVIOUS
<1> HIDE DEF N, E, P, Q, R
<1>6. P = E /\ Q = E /\ R = E
  BY <1>1, <1>2, <1>3, <1>4, <1>5
<1> QED  BY <1>6, Zenon DEF P, Q, R, E

(* An instant without a date, as a text.                                   *)
NanosText(r) == Cons(Digits(1, 2), Cons(Digits(0, 9), r))

LEMMA NanosAreWritten ==
  ASSUME NEW t, NEW r \in Text
  PROVE  /\ NanosText(r) \in Text /\ NextIs(NanosText(r), Nine) /\ WriteNanos(t) \in Text
         /\ ~NextIs(NanosText(r), {"+", "-"}) /\ ~NextIs(NanosText(r), {"-"})
         /\ Glue(WriteNanos(t), r)
              = IF t.day < 0 THEN Cons(Char("-"), NanosText(r)) ELSE NanosText(r)
<1> DEFINE b == Char("-")  p == Digits(1, 2)  q == Digits(0, 9)
           sg == IF t.day < 0 THEN One(b) ELSE <<>>
<1>1. p \in Tokens /\ q \in Tokens /\ b \in Tokens /\ p.byte = "9"
  <2>1. 1 \in 0..Pow(2) - 1 /\ 0 \in 0..Pow(9) - 1 /\ 2 \in 1..9 /\ 9 \in 1..9
    BY PowValues
  <2> QED  BY <2>1, NumeralIsToken, DashAhead
<1>2. WriteNanos(t) = sg \o <<p, q>>
  BY Zenon DEF WriteNanos, One
<1> HIDE DEF p, q, b
<1>3. <<p, q>> = Glue(One(p), One(q))
  <2>1. Append(<<p>>, q) = <<p, q>> /\ <<p>> \in Seq(Tokens)
    BY <1>1, Append2
  <2>2. Append(<<p>>, q) = <<p>> \o <<q>>
    BY <1>1, <2>1, AppendIsConcat
  <2> QED  BY <2>1, <2>2, Zenon DEF Glue, One
<1> DEFINE y == Glue(One(p), One(q))  u == Cons(q, r)  n == Cons(p, u)
<1>4. One(p) \in Text /\ One(q) \in Text /\ u \in Text
  BY <1>1, OneText, GlueText
<1>5. y \in Text /\ Glue(y, r) = Glue(One(p), u)
  BY <1>1, <1>4, GlueTexts, GlueOne
<1> HIDE DEF u
<1>6. Glue(One(p), u) = n /\ n \in Text
  BY <1>1, <1>4, OneText, GlueText
<1>7. NextIs(n, Nine) /\ ~NextIs(n, {"+", "-"}) /\ ~NextIs(n, {"-"})
  BY <1>1, <1>4, NextFrom DEF Nine
<1>8. sg \in Text /\ Glue(sg, n) = IF t.day < 0 THEN Cons(b, n) ELSE n
  <2> HIDE DEF n
  <2>2. CASE t.day < 0
    <3>1. sg = One(b)
      BY <2>2
    <3> QED  BY <1>1, <1>6, <2>2, <3>1, OneText
  <2>3. CASE ~(t.day < 0)
    <3>1. sg = <<>>
      BY <2>3
    <3> QED  BY <1>6, <2>3, <3>1, NoneText
  <2> QED  BY <2>2, <2>3
<1>9. WriteNanos(t) = Glue(sg, y)
  BY <1>2, <1>3, Zenon DEF Glue
<1> HIDE DEF sg, y, n
<1>10. Glue(Glue(sg, y), r) = Glue(sg, Glue(y, r))
  BY <1>5, <1>8, GlueGlue
<1>11. NanosText(r) = n
  BY Zenon DEF NanosText, n, u, p, q
<1>12. WriteNanos(t) \in Text
  BY <1>5, <1>8, <1>9, GlueTexts
<1> QED  BY <1>5, <1>6, <1>7, <1>8, <1>9, <1>10, <1>11, <1>12, Zenon DEF b

(* No reader of dates goes past the digits of such an instant.             *)
LEMMA NanosAreNoDate ==
  ASSUME NEW t, NEW r \in Text, ~NextIs(r, Nine)
  PROVE  ScanDate(Start(Glue(WriteNanos(t), r))) = {}
<1> DEFINE w == Glue(WriteNanos(t), r)  v == NanosText(r)  s == Here(<<>>, w)
           n == IF NextIs(s.rest, {"+", "-"}) THEN [s EXCEPT !.rest = Tail(@)] ELSE s
           pattern == <<Number(4, 9), Expect({"-"}), Two, Expect({"-"}), Two>>
           sign == IF NextIs(s.rest, {"-"}) THEN -1 ELSE 1
<1>1. /\ v \in Text /\ ~NextIs(v, {"+", "-"}) /\ w = IF t.day < 0 THEN Cons(Char("-"), v) ELSE v
  BY NanosAreWritten
<1>2. NextIs(TakeDigits(v, 9).rest, Nine)
  BY RunTooLong, Zenon DEF NanosText
<1>3. ~NextIs(TakeDigits(v, 9).rest, {"-"})
  BY <1>2 DEF NextIs, Nine
<1> HIDE DEF v, w
<1>4. n = Here(<<>>, v)
  <2>1. s.rest = w /\ [s EXCEPT !.rest = Tail(@)] = Here(<<>>, Tail(w))
    <3>1. s = Here(<<>>, w)
      OBVIOUS
    <3> HIDE DEF s
    <3> QED  BY <3>1, RestTailed
  <2>2. CASE t.day < 0
    <3>1. w = Cons(Char("-"), v)
      BY <1>1, <2>2
    <3>2. NextIs(w, {"+", "-"}) /\ Tail(w) = v
      <4>1. Char("-") \in Tokens /\ Char("-").byte = "-"
        BY DashAhead
      <4>2. Tail(w) = v
        BY <1>1, <3>1, <4>1, TextFrom, SMTT(60)
      <4> QED  BY <1>1, <3>1, <4>1, <4>2, NextFrom
    <3> QED  BY <2>1, <3>2
  <2>3. CASE ~(t.day < 0)
    <3>1. w = v
      BY <1>1, <2>3
    <3> QED  BY <1>1, <2>1, <3>1
  <2> QED  BY <2>2, <2>3
<1>5. Scan(Here(<<>>, v), pattern) = {}
  <2> DEFINE a == Number(4, 9)  b == Expect({"-"})  q == Here(<<>>, v)
  <2>1. ScanAll(ScanAll({q}, a), b) = {}
    BY <1>3, MissAfterNumber
  <2> HIDE DEF q, a, b
  <2>2. Scan(q, <<a, b, Two, b, Two>>) = {}
    BY <2>1, NothingScanned
  <2> QED  BY <2>2, Zenon DEF a, b, q
<1>6. ScanDate(s) = {[p EXCEPT !.got[1] = sign * @] : p \in Scan(n, pattern)}
  BY Zenon DEF ScanDate
<1>7. Start(w) = s
  BY Zenon DEF Start, Here
<1> HIDE DEF s, n, sign, pattern
<1>8. ScanDate(s) = {}
  BY <1>4, <1>5, <1>6, Zenon
<1> QED  BY <1>7, <1>8, Zenon DEF w

(* The number of nanoseconds that is written of an instant without a civil *)
(* date is not read as one.                                                *)
LEMMA NanosAreNotRead ==
  ASSUME NEW t, NEW r \in Text, ~NextIs(r, Nine)
  PROVE  ReadZoned(Glue(WriteNanos(t), r)) = {}
<1> DEFINE w == Glue(WriteNanos(t), r)  D == ScanDate(Start(w))  U == UNION {Placed(d) : d \in D}
           S == ScanIso(w, TRUE, TRUE)
<1>1. D = {}
  BY NanosAreNoDate
<1>2. S = Ended(U)
  BY IsoUnfolded, Zenon
<1> HIDE DEF D
<1>3. U = {}
  BY <1>1
<1> HIDE DEF U
<1>4. S = {}
  BY <1>2, <1>3 DEF Ended
<1> DEFINE F(s) == {Placement(InstantOf(e, s.got[8]), s.got[8]) : e \in CivilOf(s)}
<1>5. ReadZoned(w) = UNION {F(s) : s \in S}
  BY Zenon DEF ReadZoned, Placement
<1> HIDE DEF S, F
<1>6. ReadZoned(w) = {}
  BY <1>4, <1>5
<1> QED  BY <1>6

(* What the readers of ISO texts must yield.                               *)

LEMMA InstantAndPlace ==
  ASSUME NEW t \in Instants, NEW o \in Offsets, NEW fraction \in Fractions
  PROVE  \/ /\ CivilAt(t, o) = {}
            /\ LocalDay(t, o) \notin Date
         \/ /\ LocalDay(t, o) \in Date /\ LocalTime(t, o) \in TimesOfDay
            /\ CivilAt(t, o) = {Civil(LocalDay(t, o), LocalTime(t, o))}
            /\ ReadZoned(ZonedText(Civil(LocalDay(t, o), LocalTime(t, o)), o, fraction))
                 = {Placement(Cut(t, fraction), o)}
<1> DEFINE d == LocalDay(t, o)  x == LocalTime(t, o)  cut == CutOf(x, fraction)
<1>1. CivilAt(t, o) = IF d \in Date THEN {Civil(d, x)} ELSE {}
  BY CivilAtIs, Zenon
<1>2. InstantOf(Civil(d, WithNanos(x, cut)), o) = [t EXCEPT !.nanos = cut] /\ x \in TimesOfDay
      /\ x.nanos = t.nanos
  BY InstantTakenBack, Zenon
<1>3. [t EXCEPT !.nanos = cut] = Cut(t, fraction)
  BY <1>2, Zenon DEF CutOf, Cut
<1> HIDE DEF d, x
<1>4. CASE d \in Date
  <2>1. ReadZoned(ZonedText(Civil(d, x), o, fraction))
          = {Placement(InstantOf(Civil(d, WithNanos(x, cut)), o), o)}
    BY <1>2, <1>4, ZonedTextReads
  <2> QED  BY <1>1, <1>2, <1>3, <1>4, <2>1, Zenon DEF d, x
<1>5. CASE d \notin Date
  BY <1>1, <1>5, Zenon DEF d
<1> QED  BY <1>4, <1>5

(* A zoned instant is read back, cut to the fraction, if there is a civil  *)
(* date where it is; otherwise the number it is written as is not read.    *)
LEMMA ZonedReadsBack ==
  ASSUME NEW t \in Instants, NEW o \in Offsets, NEW fraction \in Fractions, NEW z, z = Placement(t, o)
  PROVE  ReadZoned(WriteZoned(z, fraction))
           = IF CivilAt(t, o) = {} THEN {} ELSE {Placement(Cut(t, fraction), o)}
<1> DEFINE S == CivilAt(t, o)  w == WriteZoned(z, fraction)
<1>1. z.ticks = t /\ z.offset = o
  BY DEF Placement
<1>2. /\ \A c : S = {c} => w = ZonedText(c, o, fraction)
      /\ S = {} => w = Glue(WriteNanos(t), WriteOffset(o))
  BY <1>1, ZonedIsWritten, Zenon
<1>3. CASE S = {}
  <2>1. WriteOffset(o) \in Text /\ ~NextIs(WriteOffset(o), Nine)
    BY OffsetText, OffsetScanned
  <2>2. ReadZoned(w) = {}
    BY <1>2, <1>3, <2>1, NanosAreNotRead, Zenon
  <2> QED  BY <1>3, <2>2, Zenon
<1>4. CASE S # {}
  <2> DEFINE c == Civil(LocalDay(t, o), LocalTime(t, o))
  <2>1. S = {c} /\ ReadZoned(ZonedText(c, o, fraction)) = {Placement(Cut(t, fraction), o)}
    BY <1>4, InstantAndPlace, Zenon
  <2> QED  BY <1>2, <1>4, <2>1, Zenon
<1> QED  BY <1>3, <1>4

(* An instant is read back the same way, at UTC.                           *)
LEMMA TicksReadBack ==
  ASSUME NEW t \in Instants, NEW fraction \in Fractions
  PROVE  ReadTicks(WriteTicks(t, fraction))
           = IF CivilAt(t, 0) = {} THEN {} ELSE {Cut(t, fraction)}
<1> DEFINE S == CivilAt(t, 0)  w == WriteTicks(t, fraction)  R == ReadZoned(w)
           p == Placement(Cut(t, fraction), 0)
<1>0. 0 \in Offsets /\ p.ticks = Cut(t, fraction)
  <2>1. 0 \in Offsets
    <3> DEFINE N == SecondsPerDay
    <3>1. N \in Nat /\ N > 0
      BY DEF SecondsPerDay
    <3> HIDE DEF N
    <3>2. 0 \in -(N - 1)..(N - 1)
      BY <3>1
    <3> QED  BY <3>2, Zenon DEF Offsets, N
  <2> QED  BY <2>1 DEF Placement
<1>2. /\ \A c : S = {c} => w = ZonedText(c, 0, fraction)
      /\ S = {} => w = Glue(WriteNanos(t), One(Char("s")))
  BY TicksAreWritten, Zenon
<1>5. ReadTicks(w) = {z.ticks : z \in R}
  BY Zenon DEF ReadTicks
<1>3. CASE S = {}
  <2> DEFINE b == Char("s")  r == <<>>
  <2>1. b \in Tokens /\ b.byte = "s" /\ r \in Text
    BY DashAhead, NoTextAhead
  <2> HIDE DEF b, r
  <2>2. One(b) \in Text /\ One(b) = Cons(b, r)
    <3>1. One(b) \in Text /\ Glue(One(b), r) = Cons(b, r)
      BY <2>1, OneText
    <3> QED  BY <3>1, NoneText DEF r
  <2>3. ~NextIs(One(b), Nine)
    BY <2>1, <2>2, NextFrom DEF Nine
  <2>4. R = {}
    BY <1>2, <1>3, <2>2, <2>3, NanosAreNotRead, Zenon DEF b
  <2> HIDE DEF R
  <2>5. ReadTicks(w) = {}
    BY <1>5, <2>4, Zenon
  <2> QED  BY <1>3, <2>5, Zenon
<1>4. CASE S # {}
  <2> DEFINE c == Civil(LocalDay(t, 0), LocalTime(t, 0))
  <2>1. S = {c} /\ ReadZoned(ZonedText(c, 0, fraction)) = {p}
    BY <1>0, <1>4, InstantAndPlace, Zenon
  <2>2. R = {p}
    BY <1>2, <2>1, Zenon
  <2> HIDE DEF R, p
  <2>3. ReadTicks(w) = {Cut(t, fraction)}
    BY <1>0, <1>5, <2>2, Zenon
  <2> QED  BY <1>4, <2>3, Zenon
<1> QED  BY <1>3, <1>4

-----------------------------------------------------------------------------
(* The parts of an offset, and zones.                                      *)

(* An offset west of UTC by less than an hour loses its sign in parts.     *)
InParts(o)    == IF WithinHour(o) THEN -o ELSE o

(* The parts of an offset make that offset again, but within an hour west of*)
(* UTC, where they make the one as far east.                               *)
LEMMA HmsTakenBack ==
  ASSUME NEW o \in Offsets
  PROVE  LET hms == AsHms(o)
         IN  FromHms(hms.hours, hms.minutes, hms.seconds) = {InParts(o)}
<1> DEFINE hms == AsHms(o)  abs == Magnitude(o)  h == HourAt(abs)  m == MinuteAt(abs)  s == abs % 60
           H == IF o < 0 THEN -h ELSE h  x == IF o < 0 /\ h > 0 THEN -abs ELSE abs
           y == InParts(o)
           all == Magnitude(H) * 3600 + m * 60 + s
<1>1. hms.hours = H /\ hms.minutes = m /\ hms.seconds = s
  BY DEF AsHms, HourAt, MinuteAt
<1>2. abs \in DaySeconds /\ o \in Int /\ abs \in Nat /\ -86400 < o /\ o < 86400
      /\ abs = IF o < 0 THEN -o ELSE o
  BY OffsetIsShort DEF DaySeconds, SecondsPerDay, Magnitude
<1> HIDE DEF abs
<1>3. h \in 0..23 /\ m \in 0..59 /\ s \in 0..59 /\ h * 3600 + m * 60 + s = abs
  BY <1>2, SecondParts DEF HourAt, MinuteAt
<1> HIDE DEF h, m, s
<1>4. all = abs /\ (H < 0 <=> o < 0 /\ h > 0)
  BY <1>3 DEF Magnitude
<1>5. h > 0 <=> ~(abs < 3600)
  BY <1>3
<1>6. y = IF o < 0 /\ -3600 < o THEN -o ELSE o
  BY <1>2 DEF InParts, WithinHour
<1> HIDE DEF y
<1>7. x = y
  BY <1>2, <1>5, <1>6
<1>8. -o \in Offsets
  <2> DEFINE N == SecondsPerDay
  <2>1. N \in Nat
    BY DEF SecondsPerDay
  <2>2. o \in -(N - 1)..(N - 1)
    BY Zenon DEF Offsets
  <2> HIDE DEF N
  <2>3. -o \in -(N - 1)..(N - 1)
    BY <2>1, <2>2
  <2> QED  BY <2>3, Zenon DEF Offsets, N
<1>9. y \in Offsets
  BY <1>6, <1>8
<1>10. m < 60 /\ s < 60
  BY <1>3
<1> HIDE DEF H
<1>11. FromHms(H, m, s) = FromSeconds(IF H < 0 THEN -all ELSE all)
  BY <1>10 DEF FromHms
<1> HIDE DEF all
<1>12. FromHms(H, m, s) = FromSeconds(y)
  BY <1>4, <1>7, <1>11
<1>13. FromSeconds(y) = {y}
  BY <1>9, OffsetAccepted
<1> HIDE DEF hms
<1>14. FromHms(hms.hours, hms.minutes, hms.seconds) = {y}
  BY <1>1, <1>12, <1>13
<1> QED  BY <1>14, Zenon DEF hms, y

(* A zone is read back.                                                    *)
LEMMA ZoneReadsBack ==
  ASSUME NEW o \in Offsets
  PROVE  ReadZone(WriteZone(o)) = {o}
<1>1. CASE o = 0
  <2>1. WriteZone(o) = <<Name("UTC", 0)>>
    BY <1>1, Zenon DEF WriteZone
  <2> QED  BY <1>1, <2>1, Zenon DEF ReadZone, Ok
<1>2. CASE o # 0
  <2>1. WriteZone(o) = WriteOffset(o)
    BY <1>2, Zenon DEF WriteZone
  <2>2. ReadOffset(WriteOffset(o)) = {o} /\ WriteOffset(o) # <<Name("UTC", 0)>>
    BY OffsetReadsBack
  <2> QED  BY <2>1, <2>2, Zenon DEF ReadZone
<1> QED  BY <1>1, <1>2

-----------------------------------------------------------------------------
(* RFC 2822 texts: names, numbers and spaces.                              *)

LEMMA TwoSpacesSkipped ==
  ASSUME NEW a \in Tokens, a.byte \in Spaces, NEW b \in Tokens, b.byte \in Spaces,
         NEW r \in Text, ~NextIs(r, Spaces)
  PROVE  SkipSpaces(Cons(a, Cons(b, r))) = r
<1> DEFINE u == Cons(b, r)  w == Cons(a, u)  y == SubSeq(w, 3, Len(w))
<1>1. /\ u \in Text /\ Len(u) = Len(r) + 1 /\ Len(r) \in Nat /\ \A i \in 1..Len(r) : u[i + 1] = r[i]
  BY TextFrom
<1> HIDE DEF u
<1>2. /\ w \in Text /\ Len(w) = Len(u) + 1 /\ \A i \in 1..Len(u) : w[i + 1] = u[i]
  BY <1>1, TextFrom
<1>3. LeadOf(w, Spaces) + 1 = 3
  <2>1. IsLead(r, Spaces, 0)
    BY NoLead
  <2>2. IsLead(u, Spaces, 0 + 1)
    BY <2>1, LongerLead DEF u
  <2>3. IsLead(w, Spaces, (0 + 1) + 1)
    BY <1>1, <2>2, LongerLead
  <2>4. LeadOf(w, Spaces) = (0 + 1) + 1
    BY <1>2, <2>3, LeadIs, Zenon
  <2> HIDE DEF w
  <2> QED  BY <2>4
<1> HIDE DEF w
<1>4. y = r
  <2>1. \A i \in 3..Len(w) : w[i] \in Tokens
    BY <1>2 DEF Text
  <2>2. /\ y \in Seq(Tokens) /\ Len(y) = Len(r)
        /\ \A i \in 1..Len(r) : y[i] = w[3 + i - 1]
    <3>1. Len(w) = Len(r) + 2 /\ Len(w) \in Int
      BY <1>1, <1>2
    <3> QED  BY <1>1, <2>1, <3>1, SubSeqProperties
  <2>3. \A i \in 1..Len(r) : y[i] = r[i]
    <3>1. ASSUME NEW i \in 1..Len(r) PROVE w[3 + i - 1] = r[i]
      <4>1. 3 + i - 1 = (i + 1) + 1 /\ i + 1 \in 1..Len(u)
        BY <1>1
      <4> QED  BY <1>1, <1>2, <4>1
    <3> QED  BY <2>2, <3>1
  <2> HIDE DEF y
  <2> QED  BY <2>2, <2>3, SeqEqual DEF Text
<1>5. SkipSpaces(w) = SubSeq(w, LeadOf(w, Spaces) + 1, Len(w))
  BY Zenon DEF SkipSpaces, Spaces
<1>6. SkipSpaces(w) = r
  BY <1>3, <1>4, <1>5, Zenon
<1> QED  BY <1>6, Zenon DEF w, u

Named(v, r) == [value |-> v, rest |-> r]

LEMMA NameRead ==
  ASSUME NEW t \in Tokens, t.byte \in Letters, NEW r \in Text, ~NextIs(r, Letters),
         NEW kind, kind = t.byte
  PROVE  ReadName(Cons(t, r), kind) = {Named(t.value, r)}
<1> DEFINE w == Cons(t, r)  L == Letters
<1>1. w \in Text /\ w[1] = t /\ Tail(w) = r
  BY TextFrom
<1> HIDE DEF L
<1>2. LeadOf(w, L) = 0 + 1
  <2>1. IsLead(r, L, 0)
    BY NoLead DEF L
  <2>2. IsLead(w, L, 0 + 1)
    BY <2>1, LongerLead DEF L
  <2> QED  BY <1>1, <2>2, LeadIs, Zenon
<1> HIDE DEF w
<1>3. LeadOf(w, L) = 1
  BY <1>2
<1>4. ReadName(w, kind) = {[value |-> w[1].value, rest |-> Tail(w)]}
  BY <1>1, <1>3, Zenon DEF ReadName, L, Ok
<1> QED  BY <1>1, <1>4, Zenon DEF Named, w

LEMMA NameMissed ==
  ASSUME NEW w \in Text, ~NextIs(w, Letters), NEW kind
  PROVE  ReadName(w, kind) = {}
<1> DEFINE L == Letters
<1> HIDE DEF L
<1>1. LeadOf(w, L) = 0
  BY NoLead, LeadIs DEF L
<1>2. LeadOf(w, L) # 1
  BY <1>1
<1> QED  BY <1>2, Zenon DEF ReadName, L, Err

LEMMA LettersKnown ==
  /\ "9" \notin Letters /\ " " \notin Letters /\ "," \notin Letters /\ "-" \notin Letters
  /\ "+" \notin Letters /\ "weekday" \in Letters /\ "month" \in Letters
BY DEF Letters

(* A token of digits of which a reader takes some leaves the others.       *)
LEMMA RunCut ==
  ASSUME NEW t \in Tokens, t.byte \in Nine, NEW r \in Text, ~NextIs(r, Nine),
         NEW max \in 1..8, max < t.digits
  PROVE  \E u \in Tokens : u.byte \in Nine /\ TakeDigits(Cons(t, r), max).rest = Cons(u, r)
<1> DEFINE w == Cons(t, r)  left == t.digits - max  u == Digits(t.value % Pow(left), left)
           v == Digits(t.value % Pow(left), left)
<1>1. /\ w \in Text /\ w[1] = t /\ SubSeq(w, 2, Len(w)) = r
  BY TextFrom, Zenon
<1>2. IsLead(w, Nine, 1)
  <2>1. IsLead(w, Nine, 0 + 1)
    BY NoLead, LongerLead
  <2> HIDE DEF w
  <2> QED  BY <2>1
<1> HIDE DEF w
<1>3. PICK f : /\ TakesUpto(f, w, max, 1)
               /\ TakeDigits(w, max) = [f[1] EXCEPT !.rest = @ \o SubSeq(w, 1 + 1, Len(w))]
  BY <1>1, <1>2, TakenIs
<1>4. f[1] = TakeToken(NoDigits, t, max)
  <2>1. f[0] = NoDigits /\ \A i \in 1..1 : f[i] = TakeToken(f[i - 1], w[i], max)
    BY <1>3 DEF TakesUpto
  <2>2. 1 \in 1..1 /\ 1 - 1 = 0
    OBVIOUS
  <2> QED  BY <1>1, <2>1, <2>2, Zenon
<1>5. t.digits \in 1..9 /\ t.value \in 0..Pow(t.digits) - 1 /\ left \in 1..9 /\ left # 0
  BY TokenFields
<1>6. u \in Tokens /\ u.byte \in Nine
  <2> DEFINE p == Pow(left)
  <2>1. p \in Nat \ {0} /\ t.value \in Int
    BY <1>5, PowersKnown, TokenFields
  <2> HIDE DEF p, left
  <2>2. t.value % p \in 0..p - 1
    <3>1. t.value % p \in Nat /\ t.value % p < p
      BY <2>1, Divided
    <3> DEFINE y == t.value % p
    <3> HIDE DEF y
    <3> QED  BY <2>1, <3>1 DEF y
  <2>3. u \in Tokens /\ u.byte = "9"
    BY <1>5, <2>2, NumeralIsToken DEF p
  <2> QED  BY <2>3 DEF Nine
<1>7. f[1].rest = <<u>> /\ \E a, b, c : f[1] = [value |-> a, digits |-> b, rest |-> c]
  <2> DEFINE n == NoDigits  k == max
  <2>1. n.digits = 0 /\ n.rest = <<>> /\ n.value = 0
    BY DEF NoDigits
  <2> HIDE DEF n
  <2>2. k = Lesser(max - n.digits, t.digits)
    BY <1>5, <2>1 DEF Lesser
  <2> HIDE DEF left, k
  <2>3. left = t.digits - k
    BY DEF left, k
  <2>4. TakeToken(n, t, max) = [value |-> n.value * Pow(k) + t.value \div Pow(left),
          digits |-> n.digits + k,
          rest |-> IF left = 0 THEN n.rest ELSE Append(n.rest, Digits(t.value % Pow(left), left))]
    BY <2>2, <2>3, TakenToken
  <2> HIDE DEF u
  <2>5. Append(<<>>, u) = <<u>>
    BY Append1
  <2>6. f[1] = [value |-> n.value * Pow(k) + t.value \div Pow(left),
          digits |-> n.digits + k, rest |-> <<u>>]
    BY <1>4, <1>5, <2>1, <2>4, <2>5, Zenon DEF u, n
  <2> HIDE DEF n
  <2> DEFINE a == n.value * Pow(k) + t.value \div Pow(left)  b == n.digits + k  c == <<u>>
  <2> HIDE DEF a, b, c
  <2>7. f[1] = [value |-> a, digits |-> b, rest |-> c]
    BY <2>6, Zenon DEF a, b, c
  <2>8. f[1].rest = c
    BY <2>7
  <2> QED  BY <2>7, <2>8, Zenon DEF c
<1>8. TakeDigits(w, max).rest = Cons(u, r)
  <2> DEFINE n == f[1]  z == SubSeq(w, 1 + 1, Len(w))  o == <<u>>
  <2>1. n.rest = o /\ TakeDigits(w, max) = [n EXCEPT !.rest = @ \o z]
    BY <1>3, <1>7, Zenon
  <2>2. PICK a, b, c : n = [value |-> a, digits |-> b, rest |-> c]
    BY <1>7
  <2>3. z = r
    <3>1. 1 + 1 = 2
      OBVIOUS
    <3> QED  BY <1>1, <3>1, Zenon
  <2> HIDE DEF n, z, o
  <2>4. [n EXCEPT !.rest = n.rest \o z] = [value |-> a, digits |-> b, rest |-> n.rest \o z]
    <3> DEFINE y == n.rest \o z
    <3> HIDE DEF y
    <3>1. [n EXCEPT !.rest = y] = [value |-> a, digits |-> b, rest |-> y]
      BY <2>2, RestReplaced
    <3> QED  BY <3>1, Zenon DEF y
  <2>5. TakeDigits(w, max) = [value |-> a, digits |-> b, rest |-> o \o r]
    BY <2>1, <2>3, <2>4, Zenon
  <2>6. TakeDigits(w, max).rest = o \o r
    BY <2>5
  <2> HIDE DEF u
  <2>7. Glue(One(u), r) = Cons(u, r)
    BY <1>6, OneText
  <2> QED  BY <2>6, <2>7, Zenon DEF Glue, One, o
<1> HIDE DEF u
<1> QED  BY <1>6, <1>8 DEF w

(* Nothing but the digits that are left follows those a reader took.       *)
LEMMA AfterDigits ==
  ASSUME NEW t \in Tokens, t.byte \in Nine, NEW r \in Text, ~NextIs(r, Nine),
         NEW max \in 1..8, NEW bytes, "9" \notin bytes, ~NextIs(r, bytes)
  PROVE  ~NextIs(TakeDigits(Cons(t, r), max).rest, bytes)
<1> DEFINE z == TakeDigits(Cons(t, r), max).rest
<1>1. t.digits \in 1..9
  BY TokenFields
<1>2. CASE t.digits <= max
  <2>1. TakeDigits(Cons(t, r), max) = [value |-> t.value, digits |-> t.digits, rest |-> r]
    BY <1>2, RunTaken
  <2>2. z = r
    BY <2>1
  <2> QED  BY <2>2, Zenon
<1>3. CASE max < t.digits
  <2>1. PICK u \in Tokens : u.byte \in Nine /\ z = Cons(u, r)
    BY <1>3, RunCut
  <2> HIDE DEF z
  <2>2. ~NextIs(Cons(u, r), bytes)
    <3>1. u.byte = "9"
      BY <2>1 DEF Nine
    <3> QED  BY <3>1, NextFrom
  <2> QED  BY <2>1, <2>2 DEF z
<1> QED  BY <1>1, <1>2, <1>3

Blank == Char(" ")

LEMMA BlankIsSpace ==
  /\ Blank \in Tokens /\ Blank.byte = " " /\ Blank.byte \in Spaces /\ One(Blank) \in Text
<1>1. Blank \in Tokens /\ Blank.byte = " "
  BY DashAhead, Zenon DEF Blank
<1>2. One(Blank) \in Text
  BY <1>1, NoTextAhead, OneText
<1> QED  BY <1>1, <1>2, Zenon DEF Spaces

(* The day of a month takes two places.                                    *)
DayText(n) == PadNum(n, 2, "_")

LEMMA DayIsWritten ==
  ASSUME NEW n \in 1..31, NEW r \in Text
  PROVE  /\ DayText(n) \in Text
         /\ \E k \in 1..2 :
              /\ Digits(n, k) \in Tokens
              /\ Glue(DayText(n), r) = IF k = 1 THEN Cons(Blank, Cons(Digits(n, k), r))
                                      ELSE Cons(Digits(n, k), r)
<1> DEFINE c == DigitCount(n)  w == 2 - c  P == [i \in 1..Max({0, w}) |-> Blank]
<1>1. PICK k \in 1..2 : WritePadded(n, 1) = <<Digits(n, k)>> /\ Digits(n, k) \in Tokens /\ k = c
  <2>1. n \in 0..Pow(9) - 1 /\ n < 100 /\ 1 \in 1..4
    BY PowValues
  <2>2. PICK k \in 1..9 : /\ WritePadded(n, 1) = <<Digits(n, k)>> /\ Digits(n, k) \in Tokens
                          /\ (1 = 1 /\ n < 100 => k \in 1..2 /\ k = DigitCount(n))
    BY <2>1, PaddedIsNumeral
  <2> QED  BY <2>1, <2>2
<1> DEFINE D == Digits(n, k)
<1>2. DayText(n) = P \o <<D>>
  <2>1. DayText(n) = [i \in 1..Max({0, IF "_" = "-" THEN 0 ELSE 2 - c}) |-> Char(" ")] \o WritePadded(n, 1)
    BY Zenon DEF DayText, PadNum
  <2>2. "_" # "-"
    OBVIOUS
  <2> QED  BY <1>1, <2>1, <2>2, Zenon DEF Blank
<1>3. Max({0, w}) = w
  <2>1. w \in Int /\ 0 \in Int /\ (IF 0 >= w THEN 0 ELSE w) = w
    BY <1>1
  <2> HIDE DEF w
  <2>2. Max({0, w}) = IF 0 >= w THEN 0 ELSE w
    BY <2>1, LargerOfTwo
  <2> QED  BY <2>1, <2>2, Zenon
<1>4. CASE k = 1
  <2>1. P = One(Blank)
    <3>1. w = 1
      BY <1>1, <1>4
    <3>2. P = [i \in 1..1 |-> Blank]
      BY <1>3, <3>1, Zenon
    <3> HIDE DEF P
    <3> QED  BY <3>2 DEF One
  <2> HIDE DEF P, D
  <2>2. DayText(n) = Glue(One(Blank), One(D))
    BY <1>2, <2>1, Zenon DEF Glue, One
  <2>3. DayText(n) \in Text /\ Glue(DayText(n), r) = Glue(One(Blank), Cons(D, r))
    <3>1. D \in Tokens
      BY <1>1, Zenon DEF D
    <3>2. One(Blank) \in Text
      BY BlankIsSpace
    <3> DEFINE x == One(Blank)
    <3> HIDE DEF x
    <3>3. Glue(x, One(D)) \in Text /\ Glue(Glue(x, One(D)), r) = Glue(x, Cons(D, r))
      BY <3>1, <3>2, GlueText, GlueOne DEF x
    <3> QED  BY <2>2, <3>3, Zenon DEF x
  <2>4. Cons(D, r) \in Text
    BY <1>1, GlueText DEF D
  <2>5. Glue(DayText(n), r) = Cons(Blank, Cons(D, r))
    BY <2>3, <2>4, BlankIsSpace, OneText
  <2> QED  BY <1>1, <1>4, <2>3, <2>5, Zenon DEF D
<1>5. CASE k = 2
  <2>1. P = <<>>
    <3>1. w = 0
      BY <1>1, <1>5
    <3>2. P = [i \in 1..0 |-> Blank]
      BY <1>3, <3>1, Zenon
    <3> HIDE DEF P
    <3> QED  BY <3>2
  <2> HIDE DEF P, D
  <2>2. One(D) \in Text /\ Glue(One(D), r) = Cons(D, r)
    BY <1>1, OneText DEF D
  <2>3. DayText(n) = One(D)
    <3>1. DayText(n) = Glue(<<>>, One(D))
      BY <1>2, <2>1, Zenon DEF Glue, One
    <3> QED  BY <2>2, <3>1, NoneText
  <2>4. k # 1
    BY <1>5
  <2> QED  BY <1>1, <2>2, <2>3, <2>4, Zenon DEF D
<1> QED  BY <1>4, <1>5

(* A year of more than four digits keeps them all.                         *)
YearText(y) == EmitSigned(y, 4, "0")

LEMMA YearIsWritten ==
  ASSUME NEW y \in Int, Magnitude(y) \in 0..Pow(9) - 1, NEW r \in Text
  PROVE  /\ YearText(y) \in Text
         /\ \E k \in 4..9 :
              /\ Digits(Magnitude(y), k) \in Tokens
              /\ Magnitude(y) < Pow(4) <=> k = 4
              /\ Glue(YearText(y), r)
                   = IF y < 0 THEN Cons(Char("-"), Cons(Digits(Magnitude(y), k), r))
                     ELSE Cons(Digits(Magnitude(y), k), r)
<1> DEFINE m == Magnitude(y)  b == Char("-")  sg == IF y < 0 THEN One(b) ELSE <<>>
<1>1. PICK k \in 4..9 : WritePadded(m, 4) = One(Digits(m, k)) /\ Digits(m, k) \in Tokens
                        /\ (m < Pow(4) <=> k = 4)
  <2>1. 4 \in 1..4
    OBVIOUS
  <2> QED  BY <2>1, PaddedIsNumeral DEF One
<1> DEFINE D == Digits(m, k)  n == Cons(D, r)
<1>2. YearText(y) = Glue(sg, One(D))
  BY <1>1, Zenon DEF YearText, EmitSigned, PadNum, Glue, One
<1>3. b \in Tokens
  BY DashAhead
<1> HIDE DEF b
<1>4. One(D) \in Text /\ n \in Text
  BY <1>1, OneText, GlueText
<1> HIDE DEF n, D
<1>5. sg \in Text /\ Glue(sg, n) = IF y < 0 THEN Cons(b, n) ELSE n
  <2>2. CASE y < 0
    <3>1. sg = One(b)
      BY <2>2
    <3> QED  BY <1>3, <1>4, <2>2, <3>1, OneText
  <2>3. CASE ~(y < 0)
    <3>1. sg = <<>>
      BY <2>3
    <3> QED  BY <1>4, <2>3, <3>1, NoneText
  <2> QED  BY <2>2, <2>3
<1> HIDE DEF sg
<1>6. YearText(y) \in Text /\ Glue(YearText(y), r) = Glue(sg, n)
  BY <1>1, <1>2, <1>5, GlueText, GlueOne DEF D, n
<1> QED  BY <1>1, <1>5, <1>6, Zenon DEF n, D, b

-----------------------------------------------------------------------------
(* The parts of an RFC 2822 date.                                          *)

(* An offset without colons: the reader takes its hours and minutes.       *)
MailOffset(o)   == PushOffset(o, FALSE)
ExtraSeconds(v) == IF v = 0 THEN <<>> ELSE One(Digits(v, 2))
WholeMinutes(o) == SignOf(o) * (HoursOf(o) * 3600 + MinutesOf(o) * 60 + 0)

LEMMA ExtraIsText ==
  ASSUME NEW v \in 0..59
  PROVE  /\ ExtraSeconds(v) \in Text /\ ~NextIs(ExtraSeconds(v), {":"})
         /\ ExtraSeconds(v) = <<>> <=> v = 0
<1>1. CASE v = 0
  <2>1. ExtraSeconds(v) = <<>>
    BY <1>1, Zenon DEF ExtraSeconds
  <2> QED  BY <1>1, <2>1, NoTextAhead
<1>2. CASE v # 0
  <2> DEFINE D == Digits(v, 2)  r == <<>>
  <2>1. D \in Tokens /\ r \in Text
    <3>1. v \in 0..99
      OBVIOUS
    <3> QED  BY <3>1, TwoDigits, NoTextAhead
  <2>2. D.byte = "9"
    BY Zenon DEF Digits
  <2>3. ExtraSeconds(v) = One(D)
    BY <1>2, Zenon DEF ExtraSeconds
  <2> HIDE DEF D, r
  <2>4. One(D) = Cons(D, r) /\ One(D) \in Text
    <3>1. One(D) \in Text /\ Glue(One(D), r) = Cons(D, r)
      BY <2>1, OneText
    <3> QED  BY <3>1, NoneText DEF r
  <2>5. ~NextIs(One(D), {":"}) /\ One(D) # <<>>
    BY <2>1, <2>2, <2>4, NextFrom, TextFrom, SMTT(60)
  <2> QED  BY <1>2, <2>3, <2>4, <2>5, Zenon
<1> QED  BY <1>1, <1>2

LEMMA MailOffsetPieces ==
  ASSUME NEW o
  PROVE  MailOffset(o)
           = <<SignToken(o)>> \o WritePadded(HoursOf(o), 2) \o <<>> \o WritePadded(MinutesOf(o), 2)
               \o IF SecondsOf(o) = 0 THEN <<>> ELSE <<>> \o WritePadded(SecondsOf(o), 2)
BY DEF MailOffset, PushOffset, SignToken, HoursOf, MinutesOf, SecondsOf

LEMMA MailOffsetIsWritten ==
  ASSUME NEW o \in Offsets
  PROVE  /\ MailOffset(o) = Cons(SignToken(o), Cons(Digits(HoursOf(o), 2),
              Cons(Digits(MinutesOf(o), 2), ExtraSeconds(SecondsOf(o)))))
         /\ SecondsOf(o) \in 0..59 /\ ExtraSeconds(SecondsOf(o)) \in Text
         /\ Digits(MinutesOf(o), 2) \in Tokens
<1> DEFINE t == SignToken(o)  s == SecondsOf(o)
           H == Digits(HoursOf(o), 2)  M == Digits(MinutesOf(o), 2)  S == ExtraSeconds(s)
           x == Glue(One(t), One(H))  y == Glue(x, One(M))
<1>1. s \in 0..59
  BY OffsetFields
<1>2. /\ t \in Tokens /\ H \in Tokens /\ M \in Tokens
      /\ WritePadded(HoursOf(o), 2) = One(H) /\ WritePadded(MinutesOf(o), 2) = One(M)
      /\ WritePadded(s, 2) = One(Digits(s, 2)) /\ Digits(s, 2) \in Tokens
  BY TimeOfOffset, Zenon
<1>3. MailOffset(o)
        = <<t>> \o WritePadded(HoursOf(o), 2) \o <<>> \o WritePadded(MinutesOf(o), 2)
            \o IF s = 0 THEN <<>> ELSE <<>> \o WritePadded(s, 2)
  BY MailOffsetPieces, Zenon
<1>4. S \in Text
  BY <1>1, ExtraIsText
<1> DEFINE E == IF s = 0 THEN <<>> ELSE Glue(<<>>, One(Digits(s, 2)))
<1>5. E = S
  <2>1. Glue(<<>>, One(Digits(s, 2))) = One(Digits(s, 2))
    <3> DEFINE D == Digits(s, 2)
    <3>1. D \in Tokens
      BY <1>2
    <3> HIDE DEF D
    <3>2. One(D) \in Text
      BY <3>1, OneText, NoTextAhead
    <3>3. Glue(<<>>, One(D)) = One(D)
      BY <3>2, NoneText
    <3> QED  BY <3>3 DEF D
  <2> QED  BY <2>1, Zenon DEF ExtraSeconds
<1>6. MailOffset(o) = Glue(Glue(Glue(x, <<>>), One(M)), E)
  BY <1>2, <1>3, Zenon DEF One, Glue
<1> HIDE DEF E, S, t, H, M, s
<1>7. x \in Text /\ Glue(x, <<>>) = x
  <2>1. One(t) \in Text
    BY <1>2, <1>4, OneText
  <2>2. x \in Text
    BY <1>2, <2>1, GlueText
  <2> QED  BY <2>2, NoneText
<1> DEFINE u == Cons(M, S)  v == Cons(H, u)
<1>8. u \in Text /\ v \in Text
  BY <1>2, <1>4, GlueText
<1> HIDE DEF u
<1>9. Glue(Glue(x, One(M)), S) = Glue(x, u)
  <2> HIDE DEF x
  <2> QED  BY <1>2, <1>4, <1>7, GlueOne DEF u
<1>10. Glue(x, u) = Glue(One(t), v)
  <2>1. One(t) \in Text
    BY <1>2, <1>4, OneText
  <2> QED  BY <1>2, <1>8, <2>1, GlueOne
<1> HIDE DEF v
<1>11. Glue(One(t), v) = Cons(t, v)
  BY <1>2, <1>8, OneText
<1> HIDE DEF x
<1>12. MailOffset(o) = Cons(t, v)
  BY <1>5, <1>6, <1>7, <1>9, <1>10, <1>11
<1> QED  BY <1>1, <1>2, <1>4, <1>12, Zenon DEF v, u, t, H, M, S, s

LEMMA WholeIsHms ==
  ASSUME NEW o \in Offsets
  PROVE  /\ IsHms(WholeMinutes(o), SignOf(o), HoursOf(o), MinutesOf(o), 0)
         /\ SecondsOf(o) = 0 => WholeMinutes(o) = o
<1> DEFINE h == HoursOf(o)  m == MinutesOf(o)  s == SecondsOf(o)  g == SignOf(o)  x == WholeMinutes(o)
<1>1. /\ IsHms(o, g, h, m, s) /\ h \in 0..23 /\ m \in 0..59 /\ s \in 0..59
  BY OffsetFields, Zenon
<1>2. x = g * (h * 3600 + m * 60 + 0)
  BY Zenon DEF WholeMinutes
<1>3. g \in {-1, 1}
  BY DEF SignOf
<1> HIDE DEF h, m, s, g, x
<1>4. x \in Offsets
  <2> DEFINE N == SecondsPerDay  y == h * 3600 + m * 60 + 0
  <2>1. N = 86400
    BY DEF SecondsPerDay
  <2>2. y \in Nat /\ y < N
    BY <1>1, <2>1
  <2>3. x = y \/ x = -y
    BY <1>1, <1>2, <1>3
  <2>4. N \in Nat
    BY <2>1
  <2> HIDE DEF N, y
  <2>5. x \in -(N - 1)..(N - 1)
    BY <2>2, <2>3, <2>4
  <2> QED  BY <2>5, Zenon DEF Offsets, N
<1>5. 0 \in 0..59
  OBVIOUS
<1>6. IsHms(x, g, h, m, 0)
  BY <1>1, <1>2, <1>4, <1>5, Zenon DEF IsHms
<1>7. s = 0 => x = o
  BY <1>1, <1>2 DEF IsHms
<1> QED  BY <1>6, <1>7, Zenon DEF h, m, s, g, x

LEMMA MailOffsetIsScanned ==
  ASSUME NEW o \in Offsets, NEW g, NEW w, w = MailOffset(o)
  PROVE  /\ w \in Text /\ ~NextIs(w, Spaces) /\ NextIs(w, {"+", "-"})
         /\ OffsetScans(Here(g, w), Here(Append(g, WholeMinutes(o)), ExtraSeconds(SecondsOf(o))))
<1> DEFINE sign == SignOf(o)  h == HoursOf(o)  m == MinutesOf(o)  x == WholeMinutes(o)
           r == ExtraSeconds(SecondsOf(o))  M == Digits(m, 2)  u == Cons(M, r)
           g1 == <<h>>  g2 == <<h, m>>  g3 == <<h, m, 0>>
<1>1. w = Cons(SignToken(o), Cons(Digits(h, 2), u)) /\ r \in Text /\ M \in Tokens
  BY MailOffsetIsWritten, Zenon
<1>2. IsHms(x, sign, h, m, 0) /\ h \in 0..99 /\ o \in Int
  BY OffsetFields, WholeIsHms, Zenon
<1>3. ~NextIs(r, {":"})
  <2>1. SecondsOf(o) \in 0..59
    BY OffsetFields
  <2> QED  BY <2>1, ExtraIsText
<1> HIDE DEF h, m, r, x
<1>4. g2 = Append(g1, m)
  BY Append2, Zenon
<1>5. g3 = Append(g2, 0)
  BY Append3, Zenon
<1> HIDE DEF g1, g2, sign
<1>6. u \in Text /\ NextIs(u, Nine)
  <2>1. M.byte \in Nine
    BY Zenon DEF Digits, Nine
  <2> HIDE DEF M
  <2> QED  BY <1>1, <2>1, GlueText, NextFrom
<1>7. Reads(Here(g1, u), Two, Here(g2, r))
  BY <1>1, <1>4, TwoReads
<1> HIDE DEF u, M
<1>8. /\ w \in Text /\ ~NextIs(w, {"Z", "z"}) /\ ~NextIs(w, Spaces) /\ NextIs(w, {"+", "-"})
      /\ sign = (IF NextIs(w, {"-"}) THEN -1 ELSE 1)
      /\ ReadsAll(Here(<<>>, w), <<Expect({"+", "-"}), Two>>, Here(g1, u))
  BY <1>1, <1>2, <1>6, HoursAreRead, Zenon DEF g1, sign, SignOf, SignToken
<1> DEFINE s1 == Here(g1, u)  s2 == Here(g2, r)
<1>9. ReadsMinutes(s1, s2)
  <2>1. s1.rest = u
    BY HereFields
  <2> HIDE DEF s1, s2
  <2>2. ScanMinutes(s1) = Scan(s1, <<Two>>)
    BY <1>6, <2>1, Zenon DEF ScanMinutes, Nine
  <2>3. Reads(s1, Two, s2)
    BY <1>7, Zenon DEF s1, s2
  <2>4. ReadsAll(s1, <<Two>>, s2)
    BY <2>3, ReadsOne
  <2> QED  BY <2>2, <2>4, Zenon DEF ReadsMinutes, ReadsAll
<1>10. ReadsColon(s2, Here(g3, r))
  <2> HIDE DEF g3
  <2>1. ReadsColon(Here(g2, r), Here(g3, r))
    BY <1>3, <1>5, ColonIsMissed
  <2> QED  BY <2>1, Zenon
<1> HIDE DEF s1, s2
<1>11. ReadsAll(Here(<<>>, w), <<Expect({"+", "-"}), Two>>, s1) /\ ReadsColon(s2, Here(<<h, m, 0>>, r))
  BY <1>8, <1>10, Zenon DEF s1, g3
<1> DEFINE z == 0
<1> HIDE DEF z
<1>12. ScanOffset(Here(g, w)) = {Here(Append(g, x), r)}
  <2>1. IsHms(x, sign, h, m, z) /\ ReadsColon(s2, Here(<<h, m, z>>, r))
    BY <1>2, <1>11, Zenon DEF z
  <2> QED  BY <1>8, <1>9, <1>11, <2>1, PartsGiveOffset
<1> QED  BY <1>8, <1>12, Zenon DEF OffsetScans, x, r

(* The text of a mail date, from its parts.                                *)
TimeTail(t, z)    == Cons(Blank, Glue(WriteTime(t, "None"), Cons(Blank, z)))
YearTail(y, u)    == Cons(Blank, Glue(YearText(y), u))
MonthTail(m, u)   == Cons(Blank, Cons(Name("month", m), u))
DayTail(n, u)     == Cons(Blank, Glue(DayText(n), u))
WeekdayTail(w, u) == Cons(Name("weekday", w), Cons(Char(","), u))

MailTail(d, t, z) ==
  DayTail(CivilFromDays(d).day, MonthTail(CivilFromDays(d).month,
    YearTail(CivilFromDays(d).year, TimeTail(t, z))))

LEMMA TimeTailIsText ==
  ASSUME NEW t \in TimesOfDay, NEW z \in Text
  PROVE  TimeTail(t, z) \in Text /\ Glue(WriteTime(t, "None"), Cons(Blank, z)) \in Text
         /\ Cons(Blank, z) \in Text
<1>1. WriteTime(t, "None") \in Text
  BY TimeText DEF Fractions, FractionDigits
<1>2. Cons(Blank, z) \in Text
  BY BlankIsSpace, GlueText
<1> DEFINE T == WriteTime(t, "None")  u == Cons(Blank, z)
<1> HIDE DEF T, u
<1>3. Glue(T, u) \in Text
  BY <1>1, <1>2, GlueTexts DEF T, u
<1>4. Cons(Blank, Glue(T, u)) \in Text
  BY <1>3, BlankIsSpace, GlueText
<1> QED  BY <1>2, <1>3, <1>4, Zenon DEF TimeTail, T, u

LEMMA DateParts ==
  ASSUME NEW d \in Date
  PROVE  LET c == CivilFromDays(d)
         IN  /\ c.year \in Int /\ Magnitude(c.year) \in 0..Pow(9) - 1
             /\ c.month \in 1..12 /\ c.day \in 1..31 /\ WeekdayOfDays(d) \in 0..6
             /\ Name("weekday", WeekdayOfDays(d)) \in Tokens /\ Name("month", c.month) \in Tokens
             /\ Char(",") \in Tokens
<1> DEFINE c == CivilFromDays(d)  w == WeekdayOfDays(d)
<1>1. c.year \in Int /\ c.month \in 1..12 /\ c.day \in 1..31
  <2>1. c.year \in Int /\ c.month \in 1..12 /\ c.day \in Int /\ 1 <= c.day
        /\ c.day <= DaysInMonth(c.year, c.month)
    BY CivilFields
  <2>2. DaysInMonth(c.year, c.month) \in Int /\ DaysInMonth(c.year, c.month) <= 31
    BY <2>1, MonthLength
  <2> HIDE DEF c
  <2> QED  BY <2>1, <2>2
<1>2. Magnitude(c.year) \in 0..Pow(9) - 1
  BY YearIsShort, Zenon
<1>3. w \in 0..6
  <2>1. d \in Int
    BY DateIsInt
  <2> QED  BY <2>1, WeekdayIsRemainder
<1>4. Name("weekday", w) \in Tokens /\ Name("month", c.month) \in Tokens
  <2> HIDE DEF c, w
  <2> QED  BY <1>1, <1>3, NameIsToken
<1>5. Char(",") \in Tokens
  BY DashAhead
<1> QED  BY <1>1, <1>2, <1>3, <1>4, <1>5, Zenon

Joined(a, b, P, m, E, T, z) ==
  <<a, b>> \o One(Blank) \o P \o One(Blank) \o One(m) \o One(Blank) \o E \o One(Blank)
    \o T \o One(Blank) \o z

Spread(a, b, P, m, E, T, z) ==
  Cons(a, Cons(b, Cons(Blank, Glue(P, Cons(Blank, Cons(m, Cons(Blank, Glue(E,
    Cons(Blank, Glue(T, Cons(Blank, z)))))))))))

LEMMA MailGlued ==
  ASSUME NEW a \in Tokens, NEW b \in Tokens, NEW P \in Text, NEW m \in Tokens, NEW E \in Text,
         NEW T \in Text, NEW z \in Text
  PROVE  Joined(a, b, P, m, E, T, z) = Spread(a, b, P, m, E, T, z)
<1> DEFINE s == Blank
           G0 == <<a, b>>      G1 == Glue(G0, One(s))  G2 == Glue(G1, P)  G3 == Glue(G2, One(s))
           G4 == Glue(G3, One(m))  G5 == Glue(G4, One(s))  G6 == Glue(G5, E)  G7 == Glue(G6, One(s))
           G8 == Glue(G7, T)   G9 == Glue(G8, One(s))
           u1 == Cons(s, z)    u2 == Glue(T, u1)       u3 == Cons(s, u2)  u4 == Glue(E, u3)
           u5 == Cons(s, u4)   u6 == Cons(m, u5)       u7 == Cons(s, u6)  u8 == Glue(P, u7)
           u9 == Cons(s, u8)   u10 == Cons(b, u9)
<1>1. s \in Tokens
  BY BlankIsSpace
<1>2. G0 = Glue(One(a), One(b)) /\ One(a) \in Text
  <2>1. One(a) \in Text
    BY OneText, NoTextAhead
  <2>2. Append(<<a>>, b) = <<a, b>> /\ <<a>> \in Seq(Tokens)
    BY Append2
  <2>3. Append(<<a>>, b) = <<a>> \o <<b>>
    BY <2>2, AppendIsConcat
  <2> QED  BY <2>1, <2>2, <2>3, Zenon DEF Glue, One
<1>3. G0 \in Text
  BY <1>2, GlueText
<1>4. Joined(a, b, P, m, E, T, z) = Glue(G9, z)
  BY Zenon DEF Glue, Joined
<1> HIDE DEF s, G0
<1>5. G1 \in Text /\ G2 \in Text /\ G3 \in Text /\ G4 \in Text
  <2>1. G1 \in Text
    BY <1>1, <1>3, GlueText
  <2> HIDE DEF G1
  <2>2. G2 \in Text
    BY <2>1, GlueTexts
  <2> HIDE DEF G2
  <2>3. G3 \in Text
    BY <1>1, <2>2, GlueText
  <2> HIDE DEF G3
  <2>4. G4 \in Text
    BY <2>3, GlueText
  <2> QED  BY <2>1, <2>2, <2>3, <2>4
<1> HIDE DEF G1, G2, G3, G4
<1>6. G5 \in Text /\ G6 \in Text /\ G7 \in Text /\ G8 \in Text
  <2>1. G5 \in Text
    BY <1>1, <1>5, GlueText
  <2> HIDE DEF G5
  <2>2. G6 \in Text
    BY <2>1, GlueTexts
  <2> HIDE DEF G6
  <2>3. G7 \in Text
    BY <1>1, <2>2, GlueText
  <2> HIDE DEF G7
  <2>4. G8 \in Text
    BY <2>3, GlueTexts
  <2> QED  BY <2>1, <2>2, <2>3, <2>4
<1> HIDE DEF G5, G6, G7, G8
<1>7. u1 \in Text /\ u2 \in Text /\ u3 \in Text /\ u4 \in Text /\ u5 \in Text
  <2>1. u1 \in Text
    BY <1>1, GlueText
  <2> HIDE DEF u1
  <2>2. u2 \in Text
    BY <2>1, GlueTexts
  <2> HIDE DEF u2
  <2>3. u3 \in Text
    BY <1>1, <2>2, GlueText
  <2> HIDE DEF u3
  <2>4. u4 \in Text
    BY <2>3, GlueTexts
  <2> HIDE DEF u4
  <2>5. u5 \in Text
    BY <1>1, <2>4, GlueText
  <2> QED  BY <2>1, <2>2, <2>3, <2>4, <2>5
<1> HIDE DEF u1, u2, u3, u4, u5
<1>8. u6 \in Text /\ u7 \in Text /\ u8 \in Text /\ u9 \in Text /\ u10 \in Text
  <2>1. u6 \in Text
    BY <1>7, GlueText
  <2> HIDE DEF u6
  <2>2. u7 \in Text
    BY <1>1, <2>1, GlueText
  <2> HIDE DEF u7
  <2>3. u8 \in Text
    BY <2>2, GlueTexts
  <2> HIDE DEF u8
  <2>4. u9 \in Text
    BY <1>1, <2>3, GlueText
  <2> HIDE DEF u9
  <2>5. u10 \in Text
    BY <2>4, GlueText
  <2> QED  BY <2>1, <2>2, <2>3, <2>4, <2>5
<1> HIDE DEF u6, u7, u8, u9, u10, G9
<1>9. Glue(G9, z) = Glue(G8, u1)
  BY <1>1, <1>6, GlueOne DEF G9, u1
<1>10. Glue(G8, u1) = Glue(G7, u2)
  BY <1>6, <1>7, GlueGlue DEF G8, u2
<1>11. Glue(G7, u2) = Glue(G6, u3)
  BY <1>1, <1>6, <1>7, GlueOne DEF G7, u3
<1>12. Glue(G6, u3) = Glue(G5, u4)
  BY <1>6, <1>7, GlueGlue DEF G6, u4
<1>13. Glue(G5, u4) = Glue(G4, u5)
  BY <1>1, <1>5, <1>7, GlueOne DEF G5, u5
<1>14. Glue(G4, u5) = Glue(G3, u6)
  BY <1>5, <1>7, GlueOne DEF G4, u6
<1>15. Glue(G3, u6) = Glue(G2, u7)
  BY <1>1, <1>5, <1>8, GlueOne DEF G3, u7
<1>16. Glue(G2, u7) = Glue(G1, u8)
  BY <1>5, <1>8, GlueGlue DEF G2, u8
<1>17. Glue(G1, u8) = Glue(G0, u9)
  BY <1>1, <1>3, <1>8, GlueOne DEF G1, u9
<1>18. Glue(G0, u9) = Glue(One(a), u10)
  BY <1>2, <1>8, GlueOne DEF u10
<1>19. Glue(One(a), u10) = Cons(a, u10)
  BY <1>8, OneText
<1>20. Glue(G9, z) = Cons(a, u10)
  BY <1>9, <1>10, <1>11, <1>12, <1>13, <1>14, <1>15, <1>16, <1>17, <1>18, <1>19, Zenon
<1> QED  BY <1>4, <1>20, Zenon DEF u10, u9, u8, u7, u6, u5, u4, u3, u2, u1, s, Spread

LEMMA MailPieces ==
  ASSUME NEW d, NEW t, NEW o, NEW c, c = CivilFromDays(d)
  PROVE  WriteRfc2822(Civil(d, t), o)
           = <<Name("weekday", WeekdayOfDays(d)), Char(",")>> \o One(Blank) \o DayText(c.day)
               \o One(Blank) \o One(Name("month", c.month)) \o One(Blank) \o YearText(c.year)
               \o One(Blank) \o WriteTime(t, "None") \o One(Blank) \o MailOffset(o)
<1>1. Civil(d, t).date = d /\ Civil(d, t).time = t
  BY CivilFieldsOf
<1> QED  BY <1>1, Zenon DEF WriteRfc2822, One, Blank, DayText, YearText, MailOffset

LEMMA MailIsWritten ==
  ASSUME NEW d \in Date, NEW t \in TimesOfDay, NEW o \in Offsets
  PROVE  /\ WriteRfc2822(Civil(d, t), o)
              = WeekdayTail(WeekdayOfDays(d), MailTail(d, t, MailOffset(o)))
<1> DEFINE c == CivilFromDays(d)  a == Name("weekday", WeekdayOfDays(d))  b == Char(",")
           P == DayText(c.day)  m == Name("month", c.month)  E == YearText(c.year)
           T == WriteTime(t, "None")  z == MailOffset(o)  r == <<>>
<1>1. a \in Tokens /\ b \in Tokens /\ m \in Tokens
  BY DateParts, Zenon
<1>2. c.day \in 1..31 /\ c.year \in Int /\ Magnitude(c.year) \in 0..Pow(9) - 1
  BY DateParts, Zenon
<1>3. z \in Text
  BY MailOffsetIsScanned
<1>4. T \in Text
  BY TimeText DEF Fractions, FractionDigits
<1>5. P \in Text /\ E \in Text
  <2>1. r \in Text
    BY NoTextAhead
  <2> HIDE DEF r, c
  <2> QED  BY <1>2, <2>1, DayIsWritten, YearIsWritten
<1>6. WriteRfc2822(Civil(d, t), o) = Joined(a, b, P, m, E, T, z)
  BY MailPieces, ZenonT(60) DEF Joined
<1> HIDE DEF a, b, P, m, E, T, z
<1>7. Joined(a, b, P, m, E, T, z) = Spread(a, b, P, m, E, T, z)
  BY <1>1, <1>3, <1>4, <1>5, MailGlued
<1> QED  BY <1>6, <1>7, Zenon DEF WeekdayTail, MailTail, DayTail, MonthTail, YearTail, TimeTail,
              Spread, a, b, P, m, E, T, z

Gives(S, x) == S = {x}

LEMMA NameFields ==
  ASSUME NEW kind, NEW v
  PROVE  Name(kind, v).byte = kind /\ Name(kind, v).value = v
BY DEF Name

LEMMA NamedFields ==
  ASSUME NEW v, NEW r
  PROVE  Named(v, r).value = v /\ Named(v, r).rest = r
BY DEF Named

LEMMA WeekdayRead ==
  ASSUME NEW v, Name("weekday", v) \in Tokens, NEW u \in Text
  PROVE  /\ Gives(ScanWeekday(WeekdayTail(v, u)), Named(v, Cons(Char(","), u)))
         /\ Cons(Char(","), u) \in Text
<1> DEFINE N == Name("weekday", v)  b == Char(",")  C == Cons(b, u)  w == Cons(N, C)
<1>1. N.byte = "weekday" /\ N.value = v /\ b \in Tokens /\ b.byte = ","
  <2>1. N.byte = "weekday" /\ N.value = v
    BY NameFields, Zenon
  <2>2. b \in Tokens /\ b.byte = ","
    BY DashAhead, Zenon
  <2> QED  BY <2>1, <2>2, Zenon
<1> HIDE DEF N, b
<1>2. C \in Text /\ ~NextIs(C, Letters)
  BY <1>1, NextFrom, GlueText, LettersKnown
<1> HIDE DEF C
<1>3. w # <<>> /\ w[1] = N
  BY <1>2, TextFrom DEF N
<1>4. ReadName(w, "weekday") = {Named(v, C)}
  <2>1. N \in Tokens /\ N.byte \in Letters
    BY <1>1, LettersKnown, Zenon DEF N
  <2>2. ReadName(w, N.byte) = {Named(N.value, C)}
    BY <1>2, <2>1, NameRead
  <2> QED  BY <1>1, <2>2, Zenon
<1>5. IsName(w[1])
  BY <1>1, <1>3, LettersKnown, Zenon DEF IsName
<1> HIDE DEF w
<1>6. ScanWeekday(w) = {Named(v, C)}
  BY <1>3, <1>4, <1>5, Zenon DEF ScanWeekday
<1> QED  BY <1>2, <1>6, Zenon DEF w, C, N, b, Gives, WeekdayTail

LEMMA CommaSkipped ==
  ASSUME NEW u \in Text
  PROVE  SkipComma(Cons(Char(","), u)) = SkipSpaces(u)
<1> DEFINE b == Char(",")  w == Cons(b, u)
<1>1. b \in Tokens /\ b.byte = ","
  BY DashAhead
<1> HIDE DEF b
<1>2. NextIs(w, {","}) /\ Tail(w) = u
  BY <1>1, NextFrom, TextFrom
<1> HIDE DEF w
<1>3. SkipComma(w) = SkipSpaces(u)
  BY <1>2, Zenon DEF SkipComma
<1> QED  BY <1>3, Zenon DEF w, b

LEMMA BeforeDay ==
  ASSUME NEW n \in 1..31, NEW v \in Text
  PROVE  /\ DayTail(n, v) \in Text
         /\ \E k \in 1..2 : /\ Digits(n, k) \in Tokens
                            /\ SkipSpaces(DayTail(n, v)) = Cons(Digits(n, k), v)
<1>1. DayText(n) \in Text
  BY DayIsWritten
<1>2. PICK k \in 1..2 : /\ Digits(n, k) \in Tokens
              /\ Glue(DayText(n), v) = IF k = 1 THEN Cons(Blank, Cons(Digits(n, k), v))
                                      ELSE Cons(Digits(n, k), v)
  BY DayIsWritten
<1> DEFINE D == Digits(n, k)  w == Cons(D, v)  P == Glue(DayText(n), v)
<1>3. D.byte = "9"
  BY Zenon DEF Digits
<1>4. w \in Text /\ ~NextIs(w, Spaces)
  <2> HIDE DEF D
  <2> QED  BY <1>2, <1>3, GlueText, NextFrom DEF Spaces, D
<1> HIDE DEF D
<1>5. P \in Text
  BY <1>1, GlueTexts
<1>6. DayTail(n, v) = Cons(Blank, P) /\ Cons(Blank, P) \in Text
  <2> HIDE DEF P
  <2>1. Cons(Blank, P) \in Text
    BY <1>5, BlankIsSpace, GlueText
  <2> QED  BY <2>1, Zenon DEF DayTail, P
<1> HIDE DEF P, w
<1>7. SkipSpaces(Cons(Blank, P)) = w
  <2>1. CASE k = 1
    <3>1. P = Cons(Blank, w)
      BY <1>2, <2>1, Zenon DEF P, w, D
    <3> QED  BY <1>4, <3>1, BlankIsSpace, TwoSpacesSkipped
  <2>2. CASE k # 1
    <3>1. P = w
      BY <1>2, <2>2, Zenon DEF P, w, D
    <3> QED  BY <1>4, <3>1, BlankIsSpace, SpaceSkipped
  <2> QED  BY <2>1, <2>2
<1> QED  BY <1>2, <1>6, <1>7, Zenon DEF w, D

LEMMA DayRead ==
  ASSUME NEW n \in 1..31, NEW v \in Text, ~NextIs(v, Nine), NEW x, x = SkipSpaces(v), NEW a
  PROVE  Gives(ScanDay(Named(a, Cons(Char(","), DayTail(n, v)))), Here(<<a, n>>, x))
<1> DEFINE y == DayTail(n, v)  C == Cons(Char(","), y)  q == Named(a, C)
           F(z) == [got |-> <<a, z.value>>, rest |-> SkipSpaces(z.rest)]
<1>1. y \in Text /\ \E k \in 1..2 : Digits(n, k) \in Tokens /\ SkipSpaces(y) = Cons(Digits(n, k), v)
  BY BeforeDay
<1>2. PICK k \in 1..2 : Digits(n, k) \in Tokens /\ SkipSpaces(y) = Cons(Digits(n, k), v)
  BY <1>1
<1> HIDE DEF y
<1>3. SkipComma(C) = SkipSpaces(y)
  BY <1>1, CommaSkipped
<1> HIDE DEF C
<1> DEFINE D == Digits(n, k)  z == [value |-> D.value, digits |-> D.digits, rest |-> v]
           S == ReadNumber(Cons(D, v), 1, 2)
<1>4. D \in Tokens /\ D.byte \in Nine /\ D.digits = k /\ D.value = n
  BY <1>2, Zenon DEF Digits, Nine
<1> HIDE DEF D
<1>5. S = {z}
  <2>1. 1 <= D.digits /\ D.digits <= 2 /\ 1 \in Nat /\ 2 \in Nat
    BY <1>4
  <2> QED  BY <1>4, <2>1, NumberTaken
<1>6. q.value = a /\ q.rest = C
  BY NamedFields
<1> HIDE DEF q, S
<1>7. ScanDay(q) = {F(p) : p \in S}
  BY <1>2, <1>3, <1>6, Zenon DEF ScanDay, S, D
<1>8. F(z) = Here(<<a, n>>, x)
  <2>1. z.value = n /\ z.rest = v
    BY <1>4
  <2> HIDE DEF z
  <2> QED  BY <2>1, Zenon DEF Here
<1> HIDE DEF z, F
<1> DEFINE h == Here(<<a, n>>, x)
<1> HIDE DEF h
<1>9. ScanDay(q) = {h}
  BY <1>5, <1>7, <1>8 DEF h
<1> QED  BY <1>9, Zenon DEF Gives, h, q, C, y

LEMMA MonthTailRead ==
  ASSUME NEW m, Name("month", m) \in Tokens, NEW u \in Text
  PROVE  LET w == Cons(Name("month", m), u)
         IN  /\ MonthTail(m, u) \in Text /\ ~NextIs(MonthTail(m, u), Nine)
             /\ w \in Text /\ SkipSpaces(MonthTail(m, u)) = w
<1> DEFINE N == Name("month", m)  w == Cons(N, u)  v == Cons(Blank, w)
<1>1. N.byte = "month"
  BY NameFields, Zenon
<1> HIDE DEF N
<1>2. w \in Text /\ ~NextIs(w, Spaces)
  BY <1>1, GlueText, NextFrom DEF N, Spaces
<1> HIDE DEF w
<1>3. v \in Text /\ ~NextIs(v, Nine)
  BY <1>2, BlankIsSpace, GlueText, NextFrom DEF Nine
<1>4. SkipSpaces(v) = w
  BY <1>2, BlankIsSpace, SpaceSkipped
<1> QED  BY <1>2, <1>3, <1>4, Zenon DEF MonthTail, v, w, N

LEMMA MonthRead ==
  ASSUME NEW m, Name("month", m) \in Tokens, NEW u \in Text, ~NextIs(u, Letters),
         NEW x, x = SkipSpaces(u), NEW g, NEW h, h = Append(g, m)
  PROVE  Gives(ScanMonth(Here(g, Cons(Name("month", m), u))), Here(h, x))
<1> DEFINE N == Name("month", m)  w == Cons(N, u)  s == Here(g, w)  z == Named(m, u)
           S == ReadName(w, "month")  F(n) == [got |-> Append(g, n.value), rest |-> SkipSpaces(n.rest)]
<1>1. N.byte = "month" /\ N.value = m
  BY NameFields, Zenon
<1>2. S = {z}
  <2>1. N \in Tokens /\ N.byte \in Letters
    BY <1>1, LettersKnown, Zenon DEF N
  <2> HIDE DEF N
  <2>2. ReadName(w, N.byte) = {Named(N.value, u)}
    BY <2>1, NameRead
  <2> QED  BY <1>1, <2>2, Zenon
<1>3. s.got = g /\ s.rest = w
  BY HereFields
<1> HIDE DEF s, w, S
<1>4. ScanMonth(s) = {F(n) : n \in S}
  BY <1>3, Zenon DEF ScanMonth, S
<1>5. F(z) = Here(h, x)
  <2>1. z.value = m /\ z.rest = u
    BY NamedFields
  <2> HIDE DEF z
  <2> QED  BY <2>1, Zenon DEF Here
<1> DEFINE p == Here(h, x)
<1> HIDE DEF F, z, p
<1>6. ScanMonth(s) = {p}
  BY <1>2, <1>4, <1>5 DEF p
<1> QED  BY <1>6, Zenon DEF Gives, p, s, w, N

LEMMA MonthMissed ==
  ASSUME NEW w \in Text, ~NextIs(w, Letters), NEW g
  PROVE  ScanMonth(Here(g, w)) = {}
<1> DEFINE s == Here(g, w)  S == ReadName(s.rest, "month")
           F(n) == [got |-> Append(s.got, n.value), rest |-> SkipSpaces(n.rest)]
<1>1. S = {}
  BY NameMissed, HereFields
<1>2. ScanMonth(s) = {F(n) : n \in S}
  BY Zenon DEF ScanMonth
<1> HIDE DEF S, s, F
<1>3. ScanMonth(s) = {}
  BY <1>1, <1>2
<1> QED  BY <1>3, Zenon DEF s

(* Four digits are a year, more leave digits where the hours should end.   *)
LEMMA YearRead ==
  ASSUME NEW y, Digits(y, 4) \in Tokens, NEW u \in Text, NEW x, x = SkipSpaces(u),
         NEW g, NEW h, h = Append(g, y)
  PROVE  Gives(ScanYear(Here(g, Cons(Digits(y, 4), u))), Here(h, x))
<1> DEFINE D == Digits(y, 4)  w == Cons(D, u)  s == Here(g, w)
           z == [value |-> D.value, digits |-> D.digits, rest |-> u]
           S == ReadNumber(w, 1, 4)
           F(n) == [got |-> Append(g, FullYear(n)), rest |-> SkipSpaces(n.rest)]
<1>1. D \in Tokens /\ D.byte \in Nine /\ D.value = y /\ D.digits = 4
  BY Zenon DEF Digits, Nine
<1> HIDE DEF D
<1>2. S = {z}
  <2>1. 1 <= D.digits /\ D.digits <= 4 /\ 1 \in Nat /\ 4 \in Nat
    BY <1>1
  <2> QED  BY <1>1, <2>1, NumberTaken
<1>3. s.got = g /\ s.rest = w
  BY HereFields
<1> HIDE DEF s, w, S
<1>4. ScanYear(s) = {F(n) : n \in S}
  BY <1>3, Zenon DEF ScanYear, S
<1>5. F(z) = Here(h, x)
  <2>1. z.value = y /\ z.rest = u /\ z.digits > 2
    BY <1>1
  <2> HIDE DEF z
  <2>2. FullYear(z) = y
    BY <2>1 DEF FullYear
  <2> QED  BY <2>1, <2>2, Zenon DEF Here
<1> DEFINE p == Here(h, x)
<1> HIDE DEF F, z, p
<1>6. ScanYear(s) = {p}
  BY <1>2, <1>4, <1>5 DEF p
<1> QED  BY <1>6, Zenon DEF Gives, p, s, w, D

LEMMA YearMissed ==
  ASSUME NEW w \in Text, ~NextIs(w, Nine), NEW g
  PROVE  ScanYear(Here(g, w)) = {}
<1> DEFINE s == Here(g, w)  S == ReadNumber(w, 1, 4)
           F(n) == [got |-> Append(g, FullYear(n)), rest |-> SkipSpaces(n.rest)]
<1>1. S = {}
  <2>1. 1 \in Nat /\ 4 \in Nat /\ 1 > 0 /\ 4 > 0
    OBVIOUS
  <2> QED  BY <2>1, NumberMissed
<1>2. s.got = g /\ s.rest = w
  BY HereFields
<1> HIDE DEF S, s
<1>3. ScanYear(s) = {F(n) : n \in S}
  BY <1>2, Zenon DEF ScanYear, S
<1> HIDE DEF F
<1>4. ScanYear(s) = {}
  BY <1>1, <1>3
<1> QED  BY <1>4, Zenon DEF s

LEMMA ClockMissed ==
  ASSUME NEW t \in Tokens, t.byte \in Nine, NEW u \in Text, ~NextIs(u, Nine), ~NextIs(u, {":"}), NEW g
  PROVE  ScanClock(Here(g, Cons(t, u))) = {}
<1> DEFINE w == Cons(t, u)  s == Here(g, w)  a == Number(1, 2)  S == Scan(s, <<a, Colon, a>>)
           E == {}
<1>1. ~NextIs(TakeDigits(w, 2).rest, {":"})
  <2>1. 2 \in 1..8 /\ "9" \notin {":"}
    OBVIOUS
  <2> QED  BY <2>1, AfterDigits
<1>2. S = E
  <2> DEFINE b == Colon
  <2>1. ScanAll(ScanAll({s}, a), b) = {}
    <3>1. 2 > 0
      OBVIOUS
    <3>2. ScanAll(ScanAll({Here(g, w)}, Number(1, 2)), Expect({":"})) = {}
      BY <1>1, <3>1, MissAfterNumber
    <3> QED  BY <3>2, Zenon DEF Colon
  <2> HIDE DEF s, a, b
  <2>2. Scan(s, <<a, b, a>>) = {}
    BY <2>1, NothingScanned
  <2> QED  BY <2>2, Zenon DEF b
<1>3. ScanClock(s) = UNION {ScanOptional(q, {":"}, <<Colon, Number(1, 2)>>) : q \in S}
  BY Zenon DEF ScanClock
<1> HIDE DEF S, s
<1>4. ScanClock(s) = {}
  BY <1>2, <1>3
<1> QED  BY <1>4, Zenon DEF s, w

LEMMA YearTooLong ==
  ASSUME NEW t \in Tokens, t.byte \in Nine, t.digits > 4, NEW u \in Text,
         ~NextIs(u, Nine), ~NextIs(u, {":"}), NEW g
  PROVE  \A s \in ScanYear(Here(g, Cons(t, u))) : ScanClock(s) = {}
<1> DEFINE w == Cons(t, u)  s == Here(g, w)  z == TakeDigits(w, 4)  S == ReadNumber(w, 1, 4)
           F(n) == [got |-> Append(g, FullYear(n)), rest |-> SkipSpaces(n.rest)]
<1>1. PICK a \in Tokens : a.byte \in Nine /\ z.rest = Cons(a, u)
  <2>1. 4 \in 1..8 /\ 4 < t.digits
    BY TokenFields
  <2> QED  BY <2>1, RunCut
<1>2. SkipSpaces(z.rest) = Cons(a, u)
  <2>1. a.byte = "9"
    BY <1>1 DEF Nine
  <2>2. Cons(a, u) \in Text /\ ~NextIs(Cons(a, u), Spaces)
    BY <2>1, GlueText, NextFrom DEF Spaces
  <2> HIDE DEF z
  <2> QED  BY <1>1, <2>2, SpacesSkipped
<1>3. F(z) = Here(Append(g, FullYear(z)), Cons(a, u))
  <2> HIDE DEF z
  <2> QED  BY <1>2, Zenon DEF Here
<1>4. S \subseteq {z}
  BY DEF ReadNumber
<1>5. s.got = g /\ s.rest = w
  BY HereFields
<1> HIDE DEF S, s
<1>6. ScanYear(s) = {F(n) : n \in S}
  BY <1>5, Zenon DEF ScanYear, S
<1>7. ScanClock(Here(Append(g, FullYear(z)), Cons(a, u))) = {}
  <2> DEFINE G == Append(g, FullYear(z))
  <2> HIDE DEF G
  <2>1. ScanClock(Here(G, Cons(a, u))) = {}
    BY <1>1, ClockMissed
  <2> QED  BY <2>1, Zenon DEF G
<1> HIDE DEF F, z
<1>8. \A p \in ScanYear(s) : p = F(z)
  BY <1>4, <1>6
<1>9. \A p \in ScanYear(s) : ScanClock(p) = {}
  BY <1>3, <1>7, <1>8, Zenon
<1> QED  BY <1>9, Zenon DEF s, w

OneOrTwo == Number(1, 2)

LEMMA OneOrTwoReads ==
  ASSUME NEW v, Digits(v, 2) \in Tokens, NEW r \in Text, NEW g, NEW h, h = Append(g, v)
  PROVE  Reads(Here(g, Cons(Digits(v, 2), r)), OneOrTwo, Here(h, r))
<1> DEFINE t == Digits(v, 2)
<1>1. t.byte \in Nine /\ t.digits = 2 /\ t.value = v
  BY DEF Digits, Nine
<1>2. 1 \in Nat /\ 2 \in Nat /\ 1 <= t.digits /\ t.digits <= 2
  BY <1>1
<1> HIDE DEF t
<1>3. Reads(Here(g, Cons(t, r)), Number(1, 2), Here(h, r))
  BY <1>1, <1>2, NumeralReads DEF t
<1> QED  BY <1>3, Zenon DEF OneOrTwo, t

LEMMA ColonReads ==
  ASSUME NEW u \in Text, NEW g
  PROVE  /\ Cons(Char(":"), u) \in Text /\ NextIs(Cons(Char(":"), u), {":"})
         /\ Reads(Here(g, Cons(Char(":"), u)), Colon, Here(g, u))
<1> DEFINE b == Char(":")
<1>1. b \in Tokens /\ b.byte = ":"
  BY DashAhead
<1> HIDE DEF b
<1>2. b.byte \in {":"}
  BY <1>1
<1>3. Reads(Here(g, Cons(b, u)), Expect({":"}), Here(g, u))
  BY <1>1, <1>2, ByteReads
<1>4. Cons(b, u) \in Text /\ NextIs(Cons(b, u), {":"})
  BY <1>1, <1>2, GlueText, NextFrom
<1> QED  BY <1>3, <1>4, Zenon DEF Colon, b

LEMMA NoFraction ==
  ASSUME NEW t \in TimesOfDay, NEW r \in Text
  PROVE  /\ WriteTime(t, "None") \in Text
         /\ Glue(WriteTime(t, "None"), r)
              = Cons(Digits(t.hour, 2), Cons(Char(":"), Cons(Digits(t.minute, 2),
                  Cons(Char(":"), Cons(Digits(t.second, 2), r)))))
         /\ Digits(t.hour, 2) \in Tokens /\ Digits(t.minute, 2) \in Tokens
         /\ Digits(t.second, 2) \in Tokens
<1> DEFINE F == WriteFraction(t.nanos, "None")  f == "None"
<1>1. F = <<>>
  BY DEF WriteFraction, FractionDigits
<1> HIDE DEF F
<1>2. F \in Text /\ Glue(F, r) = r
  BY <1>1, NoneText
<1>3. WriteFraction(t.nanos, f) \in Text /\ r = Glue(WriteFraction(t.nanos, f), r)
  BY <1>2, Zenon DEF F
<1> HIDE DEF f
<1>4. /\ WriteTime(t, f) \in Text
      /\ Glue(WriteTime(t, f), r)
              = Cons(Digits(t.hour, 2), Cons(Char(":"), Cons(Digits(t.minute, 2),
                  Cons(Char(":"), Cons(Digits(t.second, 2), r)))))
      /\ Digits(t.hour, 2) \in Tokens /\ Digits(t.minute, 2) \in Tokens
      /\ Digits(t.second, 2) \in Tokens
  BY <1>3, TimeIsWritten
<1> QED  BY <1>4, Zenon DEF f

LEMMA ClockRead ==
  ASSUME NEW t \in TimesOfDay, NEW r \in Text, NEW g1,
         NEW g2, g2 = Append(g1, t.hour), NEW g3, g3 = Append(g2, t.minute),
         NEW g4, g4 = Append(g3, t.second)
  PROVE  Gives(ScanClock(Here(g1, Glue(WriteTime(t, "None"), r))), Here(g4, r))
<1> DEFINE b == Char(":")  H == Digits(t.hour, 2)  M == Digits(t.minute, 2)  S == Digits(t.second, 2)
           u1 == Cons(S, r)  u2 == Cons(b, u1)  u3 == Cons(M, u2)  u4 == Cons(b, u3)  w == Cons(H, u4)
           a == OneOrTwo  c == Colon
           s0 == Here(g1, w)  s1 == Here(g2, u4)  s2 == Here(g2, u3)  s3 == Here(g3, u2)
           s4 == Here(g3, u1)  s5 == Here(g4, r)
<1>1. Glue(WriteTime(t, "None"), r) = w /\ H \in Tokens /\ M \in Tokens /\ S \in Tokens
  BY NoFraction, Zenon
<1>2. u1 \in Text
  BY <1>1, GlueText
<1>3. Reads(s4, a, s5)
  BY <1>1, OneOrTwoReads
<1> HIDE DEF u1
<1>4. u2 \in Text /\ NextIs(u2, {":"}) /\ Reads(s3, c, s4)
  BY <1>2, ColonReads
<1> HIDE DEF u2
<1>5. u3 \in Text
  BY <1>1, <1>4, GlueText
<1>6. Reads(s2, a, s3)
  BY <1>1, <1>4, OneOrTwoReads
<1> HIDE DEF u3
<1>7. u4 \in Text /\ Reads(s1, c, s2)
  BY <1>5, ColonReads
<1> HIDE DEF u4
<1>8. Reads(s0, a, s1)
  BY <1>1, <1>7, OneOrTwoReads
<1>9. s3.rest = u2
  BY HereFields
<1> HIDE DEF w, a, c, s0, s1, s2, s4, s5
<1>10. ReadsAll(s0, <<a, c, a>>, s3)
  <2> HIDE DEF s3
  <2> QED  BY <1>6, <1>7, <1>8, ReadsThree
<1>11. ScanOptional(s3, {":"}, <<c, a>>) = {s5}
  <2>1. ReadsAll(s3, <<c, a>>, s5)
    <3> HIDE DEF s3
    <3> QED  BY <1>3, <1>4, ReadsTwo
  <2> DEFINE p == <<c, a>>
  <2> HIDE DEF p
  <2>2. ScanOptional(Here(g3, u2), {":"}, p) = {s5}
    <3>1. ReadsAll(Here(g3, u2), p, s5)
      BY <2>1, Zenon DEF p
    <3> DEFINE bytes == {":"}
    <3>2. NextIs(u2, bytes)
      BY <1>4
    <3> HIDE DEF bytes
    <3>3. ScanOptional(Here(g3, u2), bytes, p) = {s5}
      BY <3>1, <3>2, OptionalRead
    <3> QED  BY <3>3, Zenon DEF bytes
  <2> QED  BY <2>2, Zenon DEF p
<1> DEFINE Q == Scan(s0, <<a, c, a>>)  F(q) == ScanOptional(q, {":"}, <<c, a>>)
<1>12. ScanClock(s0) = UNION {F(q) : q \in Q}
  BY Zenon DEF ScanClock, OneOrTwo, a, c
<1>13. Q = {s3}
  BY <1>10, Zenon DEF ReadsAll
<1>14. F(s3) = {s5}
  BY <1>11, Zenon
<1> HIDE DEF Q, F, s3
<1>15. ScanClock(s0) = {s5}
  BY <1>12, <1>13, <1>14
<1> QED  BY <1>1, <1>15, Zenon DEF Gives, s0, s5

LEMMA TimeTailRead ==
  ASSUME NEW t \in TimesOfDay, NEW z \in Text, NEW T, T = Glue(WriteTime(t, "None"), Cons(Blank, z))
  PROVE  /\ TimeTail(t, z) \in Text /\ ~NextIs(TimeTail(t, z), Nine) /\ ~NextIs(TimeTail(t, z), {":"})
         /\ SkipSpaces(TimeTail(t, z)) = T
<1> DEFINE r == Cons(Blank, z)  H == Digits(t.hour, 2)
           u == Cons(Char(":"), Cons(Digits(t.minute, 2), Cons(Char(":"), Cons(Digits(t.second, 2), r))))
<1>1. r \in Text /\ T \in Text
  BY TimeTailIsText, Zenon
<1> HIDE DEF r
<1>2. T = Cons(H, u) /\ H \in Tokens /\ u \in Text
  <2>1. /\ Glue(WriteTime(t, "None"), r) = Cons(H, u)
        /\ H \in Tokens /\ Digits(t.minute, 2) \in Tokens /\ Digits(t.second, 2) \in Tokens
    BY <1>1, NoFraction, Zenon
  <2> DEFINE x == Cons(Digits(t.second, 2), r)  y == Cons(Digits(t.minute, 2), Cons(Char(":"), x))
  <2>2. x \in Text
    BY <1>1, <2>1, GlueText
  <2> HIDE DEF x
  <2>3. y \in Text
    <3>1. Cons(Char(":"), x) \in Text
      BY <2>2, ColonReads
    <3> QED  BY <2>1, <3>1, GlueText
  <2> HIDE DEF y
  <2>4. Cons(Char(":"), y) \in Text
    BY <2>3, ColonReads
  <2> QED  BY <2>1, <2>4, Zenon DEF x, y, r
<1>3. ~NextIs(T, Spaces)
  <2>1. H.byte = "9"
    BY Zenon DEF Digits
  <2> HIDE DEF H, u
  <2> QED  BY <1>2, <2>1, NextFrom DEF Spaces
<1> HIDE DEF H, u
<1> DEFINE w == Cons(Blank, T)
<1>4. w \in Text /\ ~NextIs(w, Nine) /\ ~NextIs(w, {":"})
  BY <1>1, BlankIsSpace, GlueText, NextFrom DEF Nine
<1>5. SkipSpaces(w) = T
  BY <1>1, <1>3, BlankIsSpace, SpaceSkipped
<1> QED  BY <1>4, <1>5, Zenon DEF w, TimeTail, r

-----------------------------------------------------------------------------
(* RFC 2822 dates.                                                         *)

LEMMA ZoneRead ==
  ASSUME NEW o \in Offsets, NEW g, NEW h, h = Append(g, WholeMinutes(o))
  PROVE  /\ Gives(ScanZone(Here(g, Cons(Blank, MailOffset(o)))), Here(h, ExtraSeconds(SecondsOf(o))))
         /\ MailOffset(o) \in Text
<1> DEFINE z == MailOffset(o)  w == Cons(Blank, z)  s == Here(g, w)  p == Here(h, ExtraSeconds(SecondsOf(o)))
<1>1. z \in Text /\ ~NextIs(z, Spaces) /\ NextIs(z, {"+", "-"}) /\ OffsetScans(Here(g, z), p)
  BY MailOffsetIsScanned, Zenon
<1> HIDE DEF z, p
<1>2. SkipSpaces(w) = z
  BY <1>1, BlankIsSpace, SpaceSkipped
<1>3. s.rest = w /\ [s EXCEPT !.rest = z] = Here(g, z)
  <2>1. s = Here(g, w)
    OBVIOUS
  <2> HIDE DEF s
  <2> QED  BY <2>1, RestLeft
<1> HIDE DEF s, w
<1>4. ScanZone(s) = ScanOffset(Here(g, z))
  BY <1>1, <1>2, <1>3, Zenon DEF ScanZone
<1> QED  BY <1>1, <1>4, Zenon DEF Gives, OffsetScans, s, w, z, p

LEMMA YearTailRead ==
  ASSUME NEW y \in Int, Magnitude(y) \in 0..Pow(9) - 1, NEW u \in Text,
         NEW Y, Y = Glue(YearText(y), u)
  PROVE  /\ YearTail(y, u) \in Text /\ ~NextIs(YearTail(y, u), Letters)
         /\ SkipSpaces(YearTail(y, u)) = Y
         /\ y < 0 => Y \in Text /\ ~NextIs(Y, Nine)
         /\ ~(y < 0) => \E k \in 4..9 : /\ Digits(y, k) \in Tokens /\ (y < Pow(4) <=> k = 4)
                                       /\ Y = Cons(Digits(y, k), u)
<1> DEFINE m == Magnitude(y)  b == Char("-")
<1>1. PICK k \in 4..9 : /\ Digits(m, k) \in Tokens /\ (m < Pow(4) <=> k = 4)
                        /\ Y = IF y < 0 THEN Cons(b, Cons(Digits(m, k), u)) ELSE Cons(Digits(m, k), u)
  BY YearIsWritten
<1> DEFINE D == Digits(m, k)  n == Cons(D, u)
<1>2. D.byte = "9"
  BY Zenon DEF Digits
<1>3. b \in Tokens /\ b.byte = "-"
  BY DashAhead
<1>4. D \in Tokens
  BY <1>1
<1> HIDE DEF D, b
<1>5. n \in Text
  BY <1>4, GlueText
<1>6. Y \in Text /\ ~NextIs(Y, Spaces) /\ (y < 0 => ~NextIs(Y, Nine))
  <2>1. CASE y < 0
    <3>1. Y = Cons(b, n)
      BY <1>1, <2>1, Zenon DEF D
    <3> HIDE DEF n
    <3>2. b.byte \notin Spaces /\ b.byte \notin Nine
      BY <1>3 DEF Spaces, Nine
    <3>3. Y \in Text
      BY <1>3, <1>5, <3>1, GlueText
    <3>4. ~NextIs(Y, Spaces) /\ ~NextIs(Y, Nine)
      BY <1>3, <1>5, <3>1, <3>2, NextFrom
    <3> QED  BY <3>3, <3>4
  <2>2. CASE ~(y < 0)
    <3>1. Y = Cons(D, u)
      BY <1>1, <2>2, Zenon DEF D
    <3> HIDE DEF n
    <3>2. D.byte \notin Spaces
      BY <1>2 DEF Spaces
    <3>3. Y \in Text
      BY <1>4, <3>1, GlueText
    <3>4. ~NextIs(Y, Spaces)
      BY <1>4, <3>1, <3>2, NextFrom
    <3> QED  BY <2>2, <3>3, <3>4
  <2> QED  BY <2>1, <2>2
<1> DEFINE w == Cons(Blank, Y)
<1>7. w \in Text /\ ~NextIs(w, Letters)
  BY <1>6, BlankIsSpace, GlueText, NextFrom, LettersKnown
<1>8. SkipSpaces(w) = Y
  BY <1>6, BlankIsSpace, SpaceSkipped
<1>9. YearTail(y, u) = w
  BY Zenon DEF YearTail
<1>10. ASSUME ~(y < 0)
       PROVE  Digits(y, k) \in Tokens /\ (y < Pow(4) <=> k = 4) /\ Y = Cons(Digits(y, k), u)
  <2>1. m = y
    BY <1>10 DEF Magnitude
  <2> QED  BY <1>1, <1>10, <2>1, Zenon
<1> HIDE DEF w
<1> QED  BY <1>6, <1>7, <1>8, <1>9, <1>10

DaysGot(S)   == UNION {ScanDay(s) : s \in S}
MonthsGot(S) == UNION {ScanMonth(s) : s \in S}
YearsGot(S)  == UNION {ScanYear(s) : s \in S}
ClocksGot(S) == UNION {ScanClock(s) : s \in S}
ZonesGot(S)  == UNION {ScanZone(s) : s \in S}
MailValue(s) == {Placement(InstantOf(c, s.got[8]), s.got[8]) : c \in Fields2822(s)}

LEMMA MailUnfolded ==
  ASSUME NEW w
  PROVE  ReadZoned2822(w)
           = UNION {MailValue(s) : s \in
               Ended(ZonesGot(ClocksGot(YearsGot(MonthsGot(DaysGot(ScanWeekday(w)))))))}
<1> DEFINE S == ZonesGot(ClocksGot(YearsGot(MonthsGot(DaysGot(ScanWeekday(w))))))
           E == UNION {IF AtEnd(s) THEN Ok(s) ELSE Err : s \in S}
<1>1. ReadZoned2822(w) = UNION {MailValue(s) : s \in E}
  BY DEF ReadZoned2822, Then, MailValue, Placement, DaysGot, MonthsGot, YearsGot, ClocksGot, ZonesGot
<1> HIDE DEF S
<1>2. E = Ended(S)
  BY DEF Ended, Ok, Err
<1> QED  BY <1>1, <1>2, Zenon DEF S

LEMMA OneGot ==
  ASSUME NEW s
  PROVE  /\ DaysGot({s}) = ScanDay(s) /\ MonthsGot({s}) = ScanMonth(s) /\ YearsGot({s}) = ScanYear(s)
         /\ ClocksGot({s}) = ScanClock(s) /\ ZonesGot({s}) = ScanZone(s)
BY DEF DaysGot, MonthsGot, YearsGot, ClocksGot, ZonesGot

LEMMA NoneGot ==
  /\ DaysGot({}) = {} /\ MonthsGot({}) = {} /\ YearsGot({}) = {}
  /\ ClocksGot({}) = {} /\ ZonesGot({}) = {} /\ Ended({}) = {}
BY DEF DaysGot, MonthsGot, YearsGot, ClocksGot, ZonesGot, Ended

MailWeek(d) == WeekdayOfDays(d)
MailHead(d) == <<MailWeek(d), CivilFromDays(d).day, CivilFromDays(d).month>>
YearOn(d, t, z) == Glue(YearText(CivilFromDays(d).year), TimeTail(t, z))

LEMMA YearReached ==
  ASSUME NEW d \in Date, NEW t \in TimesOfDay, NEW z \in Text
  PROVE  MonthsGot(DaysGot(ScanWeekday(WeekdayTail(MailWeek(d), MailTail(d, t, z)))))
           = {Here(MailHead(d), YearOn(d, t, z))}
<1> DEFINE c == CivilFromDays(d)  v == MailWeek(d)  u4 == TimeTail(t, z)  Y == YearOn(d, t, z)
           u3 == YearTail(c.year, u4)  u2 == MonthTail(c.month, u3)  u1 == DayTail(c.day, u2)
           w == WeekdayTail(v, u1)
           q0 == Named(v, Cons(Char(","), u1))  n2 == Cons(Name("month", c.month), u3)
           q1 == Here(<<v, c.day>>, n2)  q2 == Here(MailHead(d), Y)
<1>1. /\ c.year \in Int /\ Magnitude(c.year) \in 0..Pow(9) - 1 /\ c.day \in 1..31
      /\ Name("weekday", v) \in Tokens /\ Name("month", c.month) \in Tokens
  BY DateParts, Zenon DEF MailWeek
<1>2. u4 \in Text
  BY TimeTailIsText
<1>3. u3 \in Text /\ ~NextIs(u3, Letters) /\ SkipSpaces(u3) = Y
  <2> HIDE DEF u4, c
  <2> DEFINE y == c.year  X == Glue(YearText(y), u4)
  <2>1. y \in Int /\ Magnitude(y) \in 0..Pow(9) - 1
    BY <1>1
  <2> HIDE DEF y, X
  <2>2. YearTail(y, u4) \in Text /\ ~NextIs(YearTail(y, u4), Letters) /\ SkipSpaces(YearTail(y, u4)) = X
    BY <1>2, <2>1, YearTailRead DEF X
  <2>3. X = Y
    BY Zenon DEF X, YearOn, y, c, u4
  <2> QED  BY <2>2, <2>3, Zenon DEF y
<1> HIDE DEF u3, u4, Y
<1>4. u2 \in Text /\ ~NextIs(u2, Nine) /\ n2 \in Text /\ SkipSpaces(u2) = n2
  <2> DEFINE m == c.month
  <2>1. Name("month", m) \in Tokens
    BY <1>1
  <2> HIDE DEF m
  <2>2. /\ MonthTail(m, u3) \in Text /\ ~NextIs(MonthTail(m, u3), Nine)
        /\ Cons(Name("month", m), u3) \in Text
        /\ SkipSpaces(MonthTail(m, u3)) = Cons(Name("month", m), u3)
    BY <1>3, <2>1, MonthTailRead
  <2> QED  BY <2>2, Zenon DEF m
<1>5. Gives(ScanMonth(q1), q2)
  <2> DEFINE m == c.month  g == <<v, c.day>>  h == MailHead(d)
  <2>1. h = Append(g, m)
    <3> DEFINE e == c.day
    <3>1. h = <<v, e, m>>
      BY Zenon DEF MailHead
    <3> HIDE DEF e, m, v
    <3>2. Append(<<v, e>>, m) = <<v, e, m>>
      BY Append3
    <3> QED  BY <3>1, <3>2, Zenon DEF e
  <2>2. Name("month", m) \in Tokens
    BY <1>1
  <2> HIDE DEF m, g, h
  <2>3. Gives(ScanMonth(Here(g, Cons(Name("month", m), u3))), Here(h, Y))
    BY <1>3, <2>1, <2>2, MonthRead
  <2> QED  BY <2>3, Zenon DEF m, g, h
<1>6. u1 \in Text /\ Gives(ScanDay(q0), q1)
  <2> DEFINE e == c.day
  <2>1. e \in 1..31
    BY <1>1
  <2> HIDE DEF e, u2, n2, v
  <2>2. Gives(ScanDay(Named(v, Cons(Char(","), DayTail(e, u2)))), Here(<<v, e>>, n2))
    BY <1>4, <2>1, DayRead
  <2>3. DayTail(e, u2) \in Text
    BY <1>4, <2>1, BeforeDay
  <2> QED  BY <2>2, <2>3, Zenon DEF e
<1> HIDE DEF u1
<1>7. Gives(ScanWeekday(w), q0)
  <2> HIDE DEF v
  <2> QED  BY <1>1, <1>6, WeekdayRead
<1>8. w = WeekdayTail(MailWeek(d), MailTail(d, t, z))
  BY Zenon DEF MailTail, u1, u2, u3, u4
<1> HIDE DEF w, q0, q1, q2
<1>9. DaysGot(ScanWeekday(w)) = {q1}
  BY <1>6, <1>7, OneGot, Zenon DEF Gives
<1>10. MonthsGot(DaysGot(ScanWeekday(w))) = {q2}
  BY <1>5, <1>9, OneGot, Zenon DEF Gives
<1> QED  BY <1>8, <1>10, Zenon DEF q2, Y

ClockGot(g, t) == Append(Append(Append(g, t.hour), t.minute), t.second)

LEMMA ClockReached ==
  ASSUME NEW d \in Date, NEW t \in TimesOfDay, NEW z \in Text, NEW g,
         NEW y, y = CivilFromDays(d).year
  PROVE  ClocksGot(YearsGot({Here(g, YearOn(d, t, z))}))
           = IF y \in 0..Pow(4) - 1 THEN {Here(ClockGot(Append(g, y), t), Cons(Blank, z))} ELSE {}
<1> DEFINE u == TimeTail(t, z)  Y == YearOn(d, t, z)  T == Glue(WriteTime(t, "None"), Cons(Blank, z))
           s == Here(g, Y)  q == Here(Append(g, y), T)
           p == Here(ClockGot(Append(g, y), t), Cons(Blank, z))
<1>1. /\ y \in Int /\ Magnitude(y) \in 0..Pow(9) - 1 /\ Pow(4) \in Nat
  <2>1. y \in Int /\ Magnitude(y) \in 0..Pow(9) - 1
    BY DateParts, Zenon
  <2>2. Pow(4) \in Nat
    BY PowersKnown
  <2> QED  BY <2>1, <2>2
<1>2. u \in Text /\ ~NextIs(u, Nine) /\ ~NextIs(u, {":"}) /\ SkipSpaces(u) = T
  BY TimeTailRead
<1>3. Cons(Blank, z) \in Text
  BY BlankIsSpace, GlueText
<1>4. Y = Glue(YearText(y), u)
  BY Zenon DEF YearOn
<1> HIDE DEF u
<1>5. /\ y < 0 => Y \in Text /\ ~NextIs(Y, Nine)
      /\ ~(y < 0) => \E k \in 4..9 : /\ Digits(y, k) \in Tokens /\ (y < Pow(4) <=> k = 4)
                                    /\ Y = Cons(Digits(y, k), u)
  <2> HIDE DEF Y
  <2> QED  BY <1>1, <1>2, <1>4, YearTailRead
<1> HIDE DEF Y
<1>6. CASE y < 0
  <2>1. ScanYear(s) = {}
    BY <1>5, <1>6, YearMissed
  <2> HIDE DEF s
  <2>2. YearsGot({s}) = {}
    BY <2>1, OneGot
  <2>3. ClocksGot(YearsGot({s})) = {}
    BY <2>2, NoneGot, Zenon
  <2>4. y \notin 0..Pow(4) - 1
    BY <1>1, <1>6
  <2> QED  BY <2>3, <2>4, Zenon DEF s, Y
<1>7. CASE ~(y < 0)
  <2>1. PICK k \in 4..9 : /\ Digits(y, k) \in Tokens /\ (y < Pow(4) <=> k = 4)
                          /\ Y = Cons(Digits(y, k), u)
    BY <1>5, <1>7
  <2>2. CASE k = 4
    <3>1. y \in 0..Pow(4) - 1
      BY <1>1, <1>7, <2>1, <2>2
    <3>2. Gives(ScanYear(s), q)
      <4> DEFINE h == Append(g, y)
      <4> HIDE DEF h, T
      <4>1. Digits(y, 4) \in Tokens /\ Y = Cons(Digits(y, 4), u)
        BY <2>1, <2>2, Zenon
      <4>2. Gives(ScanYear(Here(g, Cons(Digits(y, 4), u))), Here(h, T))
        BY <1>2, <4>1, YearRead DEF h
      <4> QED  BY <4>1, <4>2, Zenon DEF h
    <3>3. Gives(ScanClock(q), p)
      <4> DEFINE g1 == Append(g, y)  g2 == Append(g1, t.hour)  g3 == Append(g2, t.minute)
                 g4 == Append(g3, t.second)  r == Cons(Blank, z)
      <4>1. r \in Text /\ g2 = Append(g1, t.hour) /\ g3 = Append(g2, t.minute) /\ g4 = Append(g3, t.second)
        BY <1>3, Zenon
      <4>2. ClockGot(g1, t) = g4
        BY Zenon DEF ClockGot
      <4> HIDE DEF g1, g2, g3, g4, r
      <4>3. Gives(ScanClock(Here(g1, Glue(WriteTime(t, "None"), r))), Here(g4, r))
        BY <4>1, ClockRead
      <4> QED  BY <4>2, <4>3, Zenon DEF g1, r
    <3> HIDE DEF s, p, q
    <3>4. YearsGot({s}) = {q}
      BY <3>2, OneGot, Zenon DEF Gives
    <3>5. ClocksGot(YearsGot({s})) = {p}
      BY <3>3, <3>4, OneGot, Zenon DEF Gives
    <3> QED  BY <3>1, <3>5, Zenon DEF s, p, Y
  <2>3. CASE k # 4
    <3> DEFINE D == Digits(y, k)
    <3>1. y \notin 0..Pow(4) - 1
      BY <1>1, <1>7, <2>1, <2>3
    <3>2. D \in Tokens /\ D.byte \in Nine /\ D.digits = k
      BY <2>1, Zenon DEF Digits, Nine
    <3>3. D.digits > 4
      BY <2>3, <3>2
    <3> HIDE DEF D
    <3>4. \A x \in ScanYear(Here(g, Cons(D, u))) : ScanClock(x) = {}
      BY <1>2, <3>2, <3>3, YearTooLong
    <3>5. s = Here(g, Cons(D, u))
      BY <2>1, Zenon DEF D
    <3> HIDE DEF s
    <3>6. YearsGot({s}) = ScanYear(s)
      BY OneGot
    <3> DEFINE S == ScanYear(s)
    <3>7. \A x \in S : ScanClock(x) = {}
      BY <3>4, <3>5, Zenon
    <3> HIDE DEF S
    <3>8. ClocksGot(S) = {}
      BY <3>7 DEF ClocksGot
    <3> QED  BY <3>1, <3>6, <3>8, Zenon DEF s, S, Y
  <2> QED  BY <2>2, <2>3
<1> QED  BY <1>1, <1>6, <1>7

FourDigits(y) == y \in 0..Pow(4) - 1

LEMMA MailFields ==
  ASSUME NEW d \in Date, NEW t \in TimesOfDay, NEW x, NEW p, x = CivilFromDays(d),
         p.got[1] = MailWeek(d), p.got[2] = x.day, p.got[3] = x.month, p.got[4] = x.year,
         p.got[5] = t.hour, p.got[6] = t.minute, p.got[7] = t.second
  PROVE  Fields2822(p) = {Civil(d, WithNanos(t, 0))}
<1> DEFINE y == WithNanos(t, 0)  A == FromYmd(p.got[4], p.got[3], p.got[2])
           B == FromHmsNano(p.got[5], p.got[6], p.got[7], 0)  P(c) == p.got[1] \in {-1, WeekdayOfDays(c.date)}
<1>1. A = {d}
  BY AccessorsTakenBack, Zenon
<1>2. B = {y}
  <2>1. FromHmsNano(t.hour, t.minute, t.second, 0) = {WithNanos(t, 0)}
    BY TimeAccepted
  <2> QED  BY <2>1, Zenon
<1>3. Fields2822(p) = {c \in [date : A, time : B] : P(c)}
  BY Zenon DEF Fields2822
<1>4. P(Civil(d, y))
  <2>1. Civil(d, y).date = d
    BY CivilFieldsOf, Zenon
  <2>2. p.got[1] = WeekdayOfDays(Civil(d, y).date)
    BY <2>1, Zenon DEF MailWeek
  <2> QED  BY <2>2, Zenon
<1> HIDE DEF A, B, y, P
<1>5. [date : A, time : B] = {Civil(d, y)}
  <2>1. ASSUME NEW c \in [date : A, time : B]
        PROVE  c = Civil(d, y)
    BY <1>1, <1>2, <2>1 DEF Civil
  <2>2. Civil(d, y) \in [date : A, time : B]
    BY <1>1, <1>2 DEF Civil
  <2> QED  BY <2>1, <2>2, Zenon
<1> DEFINE S == [date : A, time : B]  e == Civil(d, y)
<1> HIDE DEF S, e
<1>6. {c \in S : P(c)} = {e}
  <2>1. S = {e} /\ P(e)
    BY <1>4, <1>5, Zenon DEF S, e
  <2> QED  BY <2>1
<1> QED  BY <1>3, <1>6, Zenon DEF S, e, y

LEMMA MailTextReads ==
  ASSUME NEW d \in Date, NEW t \in TimesOfDay, NEW o \in Offsets
  PROVE  ReadZoned2822(WriteRfc2822(Civil(d, t), o))
           = IF FourDigits(CivilFromDays(d).year) /\ SecondsOf(o) = 0
             THEN {Placement(InstantOf(Civil(d, WithNanos(t, 0)), o), o)} ELSE {}
<1> DEFINE x == CivilFromDays(d)  z == MailOffset(o)  w == WriteRfc2822(Civil(d, t), o)  y == x.year
           g == MailHead(d)  q == Here(g, YearOn(d, t, z))
           G == ClockGot(Append(g, y), t)  p == Here(G, Cons(Blank, z))
           h == Append(G, WholeMinutes(o))  r == ExtraSeconds(SecondsOf(o))  a == Here(h, r)
           c == Civil(d, WithNanos(t, 0))
           C == ClocksGot(YearsGot(MonthsGot(DaysGot(ScanWeekday(w)))))  E == Ended(ZonesGot(C))
<1>1. z \in Text /\ Gives(ScanZone(p), a)
  BY ZoneRead, Zenon
<1> HIDE DEF z
<1>2. MonthsGot(DaysGot(ScanWeekday(w))) = {q}
  <2>1. w = WeekdayTail(MailWeek(d), MailTail(d, t, z))
    BY MailIsWritten, Zenon DEF MailWeek, z
  <2>2. MonthsGot(DaysGot(ScanWeekday(WeekdayTail(MailWeek(d), MailTail(d, t, z))))) = {q}
    BY <1>1, YearReached
  <2> QED  BY <2>1, <2>2, Zenon
<1>3. C = IF FourDigits(y) THEN {p} ELSE {}
  <2>1. ClocksGot(YearsGot({q})) = IF y \in 0..Pow(4) - 1 THEN {p} ELSE {}
    BY <1>1, ClockReached
  <2> QED  BY <1>2, <2>1, Zenon DEF FourDigits
<1>4. ReadZoned2822(w) = UNION {MailValue(s) : s \in E}
  BY MailUnfolded, Zenon
<1>5. CASE ~FourDigits(y)
  <2>1. C = {}
    BY <1>3, <1>5, Zenon
  <2> HIDE DEF C
  <2>2. E = {}
    BY <2>1, NoneGot, Zenon
  <2> HIDE DEF E, w
  <2>3. ReadZoned2822(w) = {}
    BY <1>4, <2>2
  <2> QED  BY <1>5, <2>3, Zenon DEF w
<1>6. CASE FourDigits(y)
  <2>1. C = {p}
    BY <1>3, <1>6, Zenon
  <2> HIDE DEF C, p
  <2>2. ZonesGot(C) = {a}
    BY <1>1, <2>1, OneGot, Zenon DEF Gives
  <2>3. AtEnd(a) <=> SecondsOf(o) = 0
    <3>1. SecondsOf(o) \in 0..59
      BY OffsetFields
    <3>2. r = <<>> <=> SecondsOf(o) = 0
      BY <3>1, ExtraIsText
    <3>3. a.rest = r
      BY HereFields
    <3> QED  BY <3>2, <3>3, Zenon DEF AtEnd
  <2>4. a.got = h
    BY HereFields
  <2> HIDE DEF a, w
  <2>5. CASE SecondsOf(o) # 0
    <3>1. E = {}
      BY <2>2, <2>3, <2>5 DEF Ended
    <3> HIDE DEF E
    <3>2. ReadZoned2822(w) = {}
      BY <1>4, <3>1
    <3> QED  BY <2>5, <3>2, Zenon DEF w
  <2>6. CASE SecondsOf(o) = 0
    <3>1. E = {a}
      BY <2>2, <2>3, <2>6 DEF Ended
    <3> HIDE DEF E
    <3>2. WholeMinutes(o) = o
      BY <2>6, WholeIsHms, Zenon
    <3>3. a.got = <<MailWeek(d), x.day, x.month, y, t.hour, t.minute, t.second, o>>
      <4> DEFINE wd == MailWeek(d)  e == x.day  m == x.month  hh == t.hour  mi == t.minute  se == t.second
                 g1 == <<wd, e, m>>  g2 == <<wd, e, m, y>>  g3 == <<wd, e, m, y, hh>>
                 g4 == <<wd, e, m, y, hh, mi>>  g5 == <<wd, e, m, y, hh, mi, se>>
                 g6 == <<wd, e, m, y, hh, mi, se, o>>
      <4>1. g = g1
        BY Zenon DEF MailHead
      <4>2. h = Append(Append(Append(Append(Append(g1, y), hh), mi), se), o)
        BY <3>2, <4>1, Zenon DEF ClockGot
      <4> HIDE DEF wd, e, m, hh, mi, se, y
      <4>3. Append(g1, y) = g2
        BY Append4, Zenon
      <4>4. Append(g2, hh) = g3
        BY Append5, Zenon
      <4>5. Append(g3, mi) = g4
        BY Append6, Zenon
      <4>6. Append(g4, se) = g5
        BY Append7, ZenonT(60)
      <4>7. Append(g5, o) = g6
        BY Append8, ZenonT(60)
      <4> HIDE DEF g1, g2, g3, g4, g5, g6, h
      <4>8. a.got = g6
        BY <2>4, <4>2, <4>3, <4>4, <4>5, <4>6, <4>7, Zenon
      <4> QED  BY <4>8, Zenon DEF g6, wd, e, m, hh, mi, se
    <3>4. /\ a.got[1] = MailWeek(d) /\ a.got[2] = x.day /\ a.got[3] = x.month /\ a.got[4] = y
          /\ a.got[5] = t.hour /\ a.got[6] = t.minute /\ a.got[7] = t.second /\ a.got[8] = o
      <4> HIDE DEF x, y
      <4> QED  BY <3>3
    <3>5. Fields2822(a) = {c}
      <4>1. x = CivilFromDays(d) /\ a.got[4] = x.year
        BY <3>4, Zenon
      <4> HIDE DEF x, c, y
      <4>2. Fields2822(a) = {Civil(d, WithNanos(t, 0))}
        BY <3>4, <4>1, MailFields
      <4> QED  BY <4>2, Zenon DEF c
    <3> DEFINE v == Placement(InstantOf(c, o), o)
    <3>6. MailValue(a) = {v}
      <4> HIDE DEF c
      <4> QED  BY <3>4, <3>5 DEF MailValue
    <3> HIDE DEF v
    <3>7. ReadZoned2822(w) = {v}
      BY <1>4, <3>1, <3>6
    <3> QED  BY <1>6, <2>6, <3>7, Zenon DEF v, c, w
  <2> QED  BY <2>5, <2>6
<1> QED  BY <1>5, <1>6

LEMMA WeekdayMissing ==
  ASSUME NEW w \in Text, ~NextIs(w, Letters), ~NextIs(w, {","}), ~NextIs(w, Spaces)
  PROVE  DaysGot(ScanWeekday(w))
           = {Here(<<-1, n.value>>, SkipSpaces(n.rest)) : n \in ReadNumber(w, 1, 2)}
<1> DEFINE q == Named(-1, w)
<1>1. ScanWeekday(w) = {q}
  <2>1. w = <<>> \/ ~IsName(w[1])
    BY Zenon DEF NextIs, IsName
  <2> QED  BY <2>1, Zenon DEF ScanWeekday, Named, Ok
<1>2. q.value = -1 /\ q.rest = w
  BY NamedFields
<1> HIDE DEF q
<1>3. SkipComma(w) = w
  <2>1. SkipSpaces(w) = w
    BY SpacesSkipped
  <2> QED  BY <2>1, Zenon DEF SkipComma
<1>4. ScanDay(q) = {Here(<<-1, n.value>>, SkipSpaces(n.rest)) : n \in ReadNumber(w, 1, 2)}
  BY <1>2, <1>3, Zenon DEF ScanDay, Here
<1> QED  BY <1>1, <1>4, OneGot, Zenon

(* No reader of mail finds a month behind the digits of such an instant.   *)
LEMMA NanosAreNoMail ==
  ASSUME NEW t, NEW r \in Text
  PROVE  ReadZoned2822(Glue(WriteNanos(t), r)) = {}
<1> DEFINE w == Glue(WriteNanos(t), r)  v == NanosText(r)  N == ReadNumber(w, 1, 2)
           F(n) == Here(<<-1, n.value>>, SkipSpaces(n.rest))
           M == MonthsGot(DaysGot(ScanWeekday(w)))
           p == Digits(1, 2)  x == Cons(Digits(0, 9), r)  b == Char("-")
<1>1. /\ v \in Text /\ NextIs(v, Nine) /\ w = IF t.day < 0 THEN Cons(b, v) ELSE v
  BY NanosAreWritten, Zenon
<1>2. b \in Tokens /\ b.byte = "-"
  BY DashAhead, Zenon
<1>3. p \in Tokens /\ p.byte = "9" /\ p.digits = 2 /\ x \in Text /\ NextIs(x, Nine) /\ v = Cons(p, x)
  <2>1. Digits(0, 9) \in Tokens /\ Digits(1, 2) \in Tokens
    <3>1. 1 \in 0..Pow(2) - 1 /\ 0 \in 0..Pow(9) - 1 /\ 2 \in 1..9 /\ 9 \in 1..9
      BY PowValues
    <3> QED  BY <3>1, NumeralIsToken
  <2>2. Digits(0, 9).byte = "9" /\ p.byte = "9" /\ p.digits = 2
    BY Zenon DEF Digits
  <2> DEFINE e == Digits(0, 9)
  <2>3. e \in Tokens /\ e.byte \in Nine
    BY <2>1, <2>2, Zenon DEF Nine
  <2> HIDE DEF e
  <2>4. Cons(e, r) \in Text /\ NextIs(Cons(e, r), Nine)
    BY <2>3, GlueText, NextFrom
  <2> QED  BY <2>1, <2>2, <2>4, Zenon DEF e, NanosText
<1> HIDE DEF b, v, p, x
<1>4. w \in Text /\ ~NextIs(w, Letters) /\ ~NextIs(w, {","}) /\ ~NextIs(w, Spaces)
  <2>1. CASE t.day < 0
    <3>1. w = Cons(b, v)
      BY <1>1, <2>1, Zenon
    <3>2. b.byte \notin Letters /\ b.byte \notin {","} /\ b.byte \notin Spaces
      BY <1>2, LettersKnown DEF Spaces
    <3> HIDE DEF w
    <3>3. w \in Text
      BY <1>1, <1>2, <3>1, GlueText
    <3>4. \A bytes : NextIs(w, bytes) <=> b.byte \in bytes
      BY <1>1, <1>2, <3>1, NextFrom
    <3> QED  BY <3>2, <3>3, <3>4, Zenon
  <2>2. CASE ~(t.day < 0)
    <3>1. w = Cons(p, x)
      BY <1>1, <1>3, <2>2, Zenon
    <3>2. p.byte \notin Letters /\ p.byte \notin {","} /\ p.byte \notin Spaces
      BY <1>3, LettersKnown DEF Spaces
    <3> HIDE DEF w
    <3> QED  BY <1>3, <3>1, <3>2, GlueText, NextFrom
  <2> QED  BY <2>1, <2>2
<1>5. DaysGot(ScanWeekday(w)) = {F(n) : n \in N}
  <2> HIDE DEF w
  <2> QED  BY <1>4, WeekdayMissing
<1>6. M = {}
  <2>1. CASE t.day < 0
    <3>1. w = Cons(b, v)
      BY <1>1, <2>1, Zenon
    <3>2. ~NextIs(w, Nine)
      <4>1. b.byte \notin Nine
        BY <1>2 DEF Nine
      <4> HIDE DEF w
      <4> QED  BY <1>1, <1>2, <3>1, <4>1, NextFrom
    <3> HIDE DEF w
    <3>3. N = {}
      <4>1. 1 \in Nat /\ 2 \in Nat /\ 1 > 0 /\ 2 > 0
        OBVIOUS
      <4> QED  BY <1>4, <3>2, <4>1, NumberMissed
    <3> HIDE DEF N, F
    <3> DEFINE E == {}
    <3>4. DaysGot(ScanWeekday(w)) = E
      BY <1>5, <3>3
    <3> QED  BY <3>4, NoneGot, Zenon
  <2>2. CASE ~(t.day < 0)
    <3> DEFINE n == [value |-> p.value, digits |-> p.digits, rest |-> x]  s == F(n)
    <3>1. w = Cons(p, x)
      BY <1>1, <1>3, <2>2, Zenon
    <3> HIDE DEF w
    <3>2. N = {n}
      <4>1. 1 \in Nat /\ 2 \in Nat /\ 1 <= p.digits /\ p.digits <= 2 /\ p.digits = 2 /\ p.byte \in Nine
        BY <1>3 DEF Nine
      <4> QED  BY <1>3, <3>1, <4>1, NumberTaken
    <3>3. s = Here(<<-1, p.value>>, x)
      <4>1. n.value = p.value /\ n.rest = x
        OBVIOUS
      <4>2. SkipSpaces(x) = x
        <5>1. ~NextIs(x, Spaces)
          BY <1>3 DEF NextIs, Nine, Spaces
        <5> QED  BY <1>3, <5>1, SpacesSkipped
      <4> HIDE DEF n
      <4> QED  BY <4>1, <4>2, Zenon
    <3>4. ScanMonth(Here(<<-1, p.value>>, x)) = {}
      <4>1. ~NextIs(x, Letters)
        BY <1>3, LettersKnown DEF NextIs, Nine
      <4> DEFINE g == <<-1, p.value>>
      <4> HIDE DEF g
      <4>2. ScanMonth(Here(g, x)) = {}
        BY <1>3, <4>1, MonthMissed
      <4> QED  BY <4>2, Zenon DEF g
    <3> HIDE DEF N, F, n
    <3>5. DaysGot(ScanWeekday(w)) = {s}
      BY <1>5, <3>2
    <3> HIDE DEF s
    <3> QED  BY <3>3, <3>4, <3>5, OneGot, Zenon
  <2> QED  BY <2>1, <2>2
<1> DEFINE E == Ended(ZonesGot(ClocksGot(YearsGot(M))))
<1>7. ReadZoned2822(w) = UNION {MailValue(s) : s \in E}
  BY MailUnfolded, Zenon
<1> HIDE DEF M
<1>8. E = {}
  BY <1>6, NoneGot, Zenon
<1> HIDE DEF E, w
<1>9. ReadZoned2822(w) = {}
  BY <1>7, <1>8
<1> QED  BY <1>9 DEF w

LEMMA MailWritten ==
  ASSUME NEW z, NEW S, S = CivilAt(z.ticks, z.offset)
  PROVE  /\ \A c : S = {c} => WriteZoned2822(z) = WriteRfc2822(c, z.offset)
         /\ S = {} => WriteZoned2822(z) = Glue(WriteNanos(z.ticks), WriteOffset(z.offset))
<1>1. WriteZoned2822(z)
        = IF S = {} THEN WriteNanos(z.ticks) \o WriteOffset(z.offset)
          ELSE WriteRfc2822(CHOOSE x \in S : TRUE, z.offset)
  BY DEF WriteZoned2822, WriteOr, Err
<1>2. ASSUME NEW c, S = {c}
      PROVE  WriteZoned2822(z) = WriteRfc2822(c, z.offset)
  <2>1. S # {} /\ (CHOOSE x \in S : TRUE) = c
    BY <1>2, ChosenOne, Zenon
  <2> QED  BY <1>1, <2>1, Zenon
<1>3. ASSUME S = {}
      PROVE  WriteZoned2822(z) = Glue(WriteNanos(z.ticks), WriteOffset(z.offset))
  BY <1>1, <1>3, Zenon DEF Glue
<1> QED  BY <1>2, <1>3, Zenon

LEMMA MailTicksWritten ==
  ASSUME NEW t, NEW S, S = CivilAt(t, 0)
  PROVE  /\ \A c : S = {c} => WriteTicks2822(t) = WriteRfc2822(c, 0)
         /\ S = {} => WriteTicks2822(t) = Glue(Glue(WriteNanos(t), One(Blank)), MailOffset(0))
<1>1. WriteTicks2822(t)
        = IF S = {} THEN WriteNanos(t) \o <<Char(" ")>> \o PushOffset(0, FALSE)
          ELSE WriteRfc2822(CHOOSE x \in S : TRUE, 0)
  BY DEF WriteTicks2822, WriteOr, Err
<1>2. ASSUME NEW c, S = {c}
      PROVE  WriteTicks2822(t) = WriteRfc2822(c, 0)
  <2>1. S # {} /\ (CHOOSE x \in S : TRUE) = c
    BY <1>2, ChosenOne, Zenon
  <2> QED  BY <1>1, <2>1, Zenon
<1>3. ASSUME S = {}
      PROVE  WriteTicks2822(t) = Glue(Glue(WriteNanos(t), One(Blank)), MailOffset(0))
  BY <1>1, <1>3, Zenon DEF Glue, One, Blank, MailOffset
<1> QED  BY <1>2, <1>3, Zenon

LEMMA WholeMinute ==
  ASSUME NEW o \in Offsets
  PROVE  o % 60 = 0 <=> SecondsOf(o) = 0
<1>1. o \in Int
  BY OffsetIsShort
<1>2. Magnitude(o) % 60 = 0 <=> o % 60 = 0
  BY <1>1 DEF Magnitude
<1> QED  BY <1>2, Zenon DEF SecondsOf

NoNanos(t) == [t EXCEPT !.nanos = 0]
Sendable(t, o) ==
  o % 60 = 0 /\ \A c \in CivilAt(t, o) : FourDigits(CivilFromDays(c.date).year)

LEMMA MailAndPlace ==
  ASSUME NEW t \in Instants, NEW o \in Offsets
  PROVE  \/ CivilAt(t, o) = {}
         \/ \E c : /\ CivilAt(t, o) = {c}
                   /\ ReadZoned2822(WriteRfc2822(c, o))
                        = IF Sendable(t, o) THEN {Placement(NoNanos(t), o)} ELSE {}
<1> DEFINE d == LocalDay(t, o)  x == LocalTime(t, o)  c == Civil(d, x)  S == CivilAt(t, o)
           W == ReadZoned2822(WriteRfc2822(c, o))  p == Placement(NoNanos(t), o)
<1>1. S = IF d \in Date THEN {c} ELSE {}
  BY CivilAtIs, Zenon
<1>2. InstantOf(Civil(d, WithNanos(x, 0)), o) = NoNanos(t) /\ x \in TimesOfDay
  BY InstantTakenBack, Zenon DEF NoNanos
<1>3. c.date = d
  BY CivilFieldsOf, Zenon
<1> HIDE DEF d, x, c
<1>4. CASE d \in Date
  <2>1. S = {c}
    BY <1>1, <1>4, Zenon
  <2>2. W = IF FourDigits(CivilFromDays(d).year) /\ SecondsOf(o) = 0
             THEN {Placement(InstantOf(Civil(d, WithNanos(x, 0)), o), o)} ELSE {}
    BY <1>2, <1>4, MailTextReads DEF c
  <2>3. Sendable(t, o) <=> FourDigits(CivilFromDays(d).year) /\ SecondsOf(o) = 0
    <3> HIDE DEF S
    <3>1. (\A e \in S : FourDigits(CivilFromDays(e.date).year)) <=> FourDigits(CivilFromDays(d).year)
      BY <1>3, <2>1, Zenon
    <3> QED  BY <3>1, WholeMinute, Zenon DEF Sendable, S
  <2>4. W = IF Sendable(t, o) THEN {p} ELSE {}
    BY <1>2, <2>2, <2>3, Zenon
  <2> QED  BY <2>1, <2>4, Zenon
<1>5. CASE d \notin Date
  BY <1>1, <1>5, Zenon
<1> QED  BY <1>4, <1>5

(* An RFC 2822 date is read back without its fraction, if its year has four*)
(* digits and its offset no seconds; others are not read.                  *)
LEMMA MailReadsBack ==
  ASSUME NEW t \in Instants, NEW o \in Offsets, NEW z, z = Placement(t, o)
  PROVE  ReadZoned2822(WriteZoned2822(z))
           = IF CivilAt(t, o) # {} /\ Sendable(t, o) THEN {Placement(NoNanos(t), o)} ELSE {}
<1> DEFINE S == CivilAt(t, o)  w == WriteZoned2822(z)
<1>1. z.ticks = t /\ z.offset = o
  BY DEF Placement
<1>2. /\ \A c : S = {c} => w = WriteRfc2822(c, o)
      /\ S = {} => w = Glue(WriteNanos(t), WriteOffset(o))
  BY <1>1, MailWritten, Zenon
<1>3. CASE S = {}
  <2>1. WriteOffset(o) \in Text
    BY OffsetText
  <2>2. ReadZoned2822(w) = {}
    BY <1>2, <1>3, <2>1, NanosAreNoMail, Zenon
  <2> QED  BY <1>3, <2>2, Zenon
<1>4. CASE S # {}
  <2>1. PICK c : /\ S = {c}
                 /\ ReadZoned2822(WriteRfc2822(c, o))
                      = IF Sendable(t, o) THEN {Placement(NoNanos(t), o)} ELSE {}
    BY <1>4, MailAndPlace, Zenon
  <2> QED  BY <1>2, <1>4, <2>1, Zenon
<1> QED  BY <1>3, <1>4

LEMMA UtcIsOffset == 0 \in Offsets
<1> DEFINE N == SecondsPerDay
<1>1. N \in Nat /\ N > 0
  BY DEF SecondsPerDay
<1> HIDE DEF N
<1>2. 0 \in -(N - 1)..(N - 1)
  BY <1>1
<1> QED  BY <1>2, Zenon DEF Offsets, N

(* An instant is read back from an RFC 2822 date the same way, at UTC.     *)
LEMMA MailTicksReadBack ==
  ASSUME NEW t \in Instants
  PROVE  ReadTicks2822(WriteTicks2822(t))
           = IF CivilAt(t, 0) # {} /\ Sendable(t, 0) THEN {NoNanos(t)} ELSE {}
<1> DEFINE S == CivilAt(t, 0)  w == WriteTicks2822(t)  R == ReadZoned2822(w)  p == Placement(NoNanos(t), 0)
<1>1. 0 \in Offsets
  BY UtcIsOffset
<1>2. /\ \A c : S = {c} => w = WriteRfc2822(c, 0)
      /\ S = {} => w = Glue(Glue(WriteNanos(t), One(Blank)), MailOffset(0))
  BY MailTicksWritten, Zenon
<1>3. p.ticks = NoNanos(t)
  BY DEF Placement
<1>4. ReadTicks2822(w) = {z.ticks : z \in R}
  BY Zenon DEF ReadTicks2822
<1>5. R = IF S # {} /\ Sendable(t, 0) THEN {p} ELSE {}
  <2>1. CASE S = {}
    <3> DEFINE n == WriteNanos(t)  z == MailOffset(0)  r == Cons(Blank, z)
    <3>1. z \in Text
      BY <1>1, MailOffsetIsScanned
    <3>2. n \in Text
      <4> DEFINE e == <<>>
      <4>1. e \in Text
        BY NoTextAhead
      <4> HIDE DEF e
      <4>2. WriteNanos(t) \in Text
        BY <4>1, NanosAreWritten
      <4> QED  BY <4>2
    <3> HIDE DEF n, z
    <3>3. Glue(Glue(n, One(Blank)), z) = Glue(n, r) /\ r \in Text
      BY <3>1, <3>2, BlankIsSpace, GlueOne, GlueText
    <3> HIDE DEF r
    <3>4. ReadZoned2822(Glue(n, r)) = {}
      BY <3>3, NanosAreNoMail DEF n
    <3> QED  BY <1>2, <2>1, <3>3, <3>4, Zenon DEF n, z
  <2>2. CASE S # {}
    <3>1. PICK c : /\ S = {c}
                   /\ ReadZoned2822(WriteRfc2822(c, 0))
                        = IF Sendable(t, 0) THEN {p} ELSE {}
      BY <1>1, <2>2, MailAndPlace, Zenon
    <3> QED  BY <1>2, <2>2, <3>1, Zenon
  <2> QED  BY <2>1, <2>2
<1>6. ReadTicks2822(w) = IF S # {} /\ Sendable(t, 0) THEN {NoNanos(t)} ELSE {}
  <2> HIDE DEF R, p
  <2>1. CASE S # {} /\ Sendable(t, 0)
    <3>1. R = {p}
      BY <1>5, <2>1, Zenon
    <3> QED  BY <1>3, <1>4, <2>1, <3>1, Zenon
  <2>2. CASE ~(S # {} /\ Sendable(t, 0))
    <3>1. R = {}
      BY <1>5, <2>2, Zenon
    <3>2. ReadTicks2822(w) = {}
      BY <1>4, <3>1
    <3> QED  BY <2>2, <3>2, Zenon
  <2> QED  BY <2>1, <2>2
<1> QED  BY <1>6

-----------------------------------------------------------------------------
(* Tasks.                                                                  *)

(* What is done for the kind of a task.                                    *)
LEMMA OneTextKinds ==
  ASSUME NEW k, NEW f
  PROVE  /\ k.kind = "date" =>
              /\ Write(k, f) = WriteDate(k.value)
              /\ \A t : Read(k, f, t) = ReadDate(t)
         /\ k.kind = "offset" =>
              /\ Write(k, f) = WriteOffset(k.value)
              /\ \A t : Read(k, f, t) = ReadOffset(t)
         /\ k.kind = "zone" =>
              /\ Write(k, f) = WriteZone(k.value)
              /\ \A t : Read(k, f, t) = ReadZone(t)
BY Zenon DEF Write, Read

LEMMA FractionalKinds ==
  ASSUME NEW k, NEW f
  PROVE  /\ k.kind = "time" =>
              /\ Write(k, f) = WriteTime(k.value, k.fraction)
              /\ \A t : Read(k, f, t) = ReadTime(t)
         /\ k.kind = "civil" =>
              /\ Write(k, f) = WriteCivil(k.value, k.fraction)
              /\ \A t : Read(k, f, t) = ReadCivil(t)
         /\ k.kind = "ticks" =>
              /\ Write(k, f) = WriteTicks(k.value, k.fraction)
              /\ \A t : Read(k, f, t) = ReadTicks(t)
         /\ k.kind = "zoned" =>
              /\ Write(k, f) = WriteZoned(k.value, k.fraction)
              /\ \A t : Read(k, f, t) = ReadZoned(t)
BY Zenon DEF Write, Read

LEMMA MailKinds ==
  ASSUME NEW k, NEW f
  PROVE  /\ k.kind = "mail" =>
              /\ Write(k, f) = WriteZoned2822(k.value)
              /\ \A t : Read(k, f, t) = ReadZoned2822(t)
         /\ k.kind = "mail ticks" =>
              /\ Write(k, f) = WriteTicks2822(k.value)
              /\ \A t : Read(k, f, t) = ReadTicks2822(t)
BY Zenon DEF Write, Read

LEMMA ValuesOfKinds ==
  ASSUME NEW kind
  PROVE  /\ kind = "date" => ValuesOf(kind) = Date
         /\ kind = "time" => ValuesOf(kind) = TimesOfDay
         /\ kind = "civil" => ValuesOf(kind) = [date : Date, time : TimesOfDay]
         /\ kind = "ticks" => ValuesOf(kind) = Instants
         /\ kind = "mail ticks" => ValuesOf(kind) = Instants
         /\ kind = "zoned" => ValuesOf(kind) = [ticks : Instants, offset : Offsets]
         /\ kind = "mail" => ValuesOf(kind) = [ticks : Instants, offset : Offsets]
         /\ kind = "offset" => ValuesOf(kind) = Offsets
         /\ kind = "zone" => ValuesOf(kind) = Offsets
BY Zenon DEF ValuesOf

CutCivil(c, f)  == [c EXCEPT !.time = Cut(@, f)]
CutZoned(z, f)  == [z EXCEPT !.ticks = Cut(@, f)]
MailCut(z)      == [z EXCEPT !.ticks.nanos = 0]

LEMMA ExpectedOfKinds ==
  ASSUME NEW k
  PROVE  /\ k.kind \in {"date", "offset", "zone"} => Expected(k) = Ok(k.value)
         /\ k.kind = "time"  => Expected(k) = Ok(Cut(k.value, k.fraction))
         /\ k.kind = "civil" => Expected(k) = Ok(CutCivil(k.value, k.fraction))
         /\ k.kind = "ticks" => Expected(k) = Shown(AtUtc(k.value), Ok(Cut(k.value, k.fraction)))
         /\ k.kind = "zoned" => Expected(k) = Shown(k.value, Ok(CutZoned(k.value, k.fraction)))
         /\ k.kind = "mail"  =>
              Expected(k) = IF Mailable(k.value) THEN Shown(k.value, Ok(MailCut(k.value))) ELSE Err
         /\ k.kind = "mail ticks" =>
              Expected(k) = IF Mailable(AtUtc(k.value))
                            THEN Shown(AtUtc(k.value), Ok(NoNanos(k.value))) ELSE Err
BY Zenon DEF Expected, CutCivil, CutZoned, MailCut, NoNanos

LEMMA ZonedParts ==
  ASSUME NEW z \in [ticks : Instants, offset : Offsets]
  PROVE  /\ z.ticks \in Instants /\ z.offset \in Offsets
         /\ z = Placement(z.ticks, z.offset)
BY SMT DEF Placement

LEMMA PlacementFields ==
  ASSUME NEW x, NEW o
  PROVE  /\ Placement(x, o).ticks = x /\ Placement(x, o).offset = o
         /\ AtUtc(x) = Placement(x, 0)
BY SMT DEF Placement, AtUtc

LEMMA PlacementCut ==
  ASSUME NEW t, NEW o, NEW f
  PROVE  /\ CutZoned(Placement(t, o), f) = Placement(Cut(t, f), o)
         /\ MailCut(Placement(t, o)) = Placement(NoNanos(t), o)
<1> DEFINE x == Cut(t, f)  y == NoNanos(t)  p == Placement(t, o)
<1>1. p.ticks = t
  BY PlacementFields
<1>2. CutZoned(p, f) = [p EXCEPT !.ticks = x]
  BY <1>1, Zenon DEF CutZoned
<1>3. MailCut(p) = [p EXCEPT !.ticks = y]
  BY <1>1, Zenon DEF MailCut, NoNanos
<1> HIDE DEF x, y
<1>4. [p EXCEPT !.ticks = x] = Placement(x, o) /\ [p EXCEPT !.ticks = y] = Placement(y, o)
  BY SMT DEF Placement
<1> QED  BY <1>2, <1>3, <1>4, Zenon DEF x, y

LEMMA FourDigitYears ==
  ASSUME NEW y
  PROVE  y \in MailYears <=> FourDigits(y)
<1> DEFINE n == 9999
<1>1. Pow(4) - 1 = n
  BY Powers, SMT DEF Pow
<1> HIDE DEF n
<1>2. y \in 0..n <=> FourDigits(y)
  BY <1>1, Zenon DEF FourDigits
<1>3. MailYears = 0..n
  BY DEF MailYears, n
<1> QED  BY <1>2, <1>3, Zenon

LEMMA MailableIs ==
  ASSUME NEW t, NEW o
  PROVE  Mailable(Placement(t, o)) <=> Sendable(t, o)
<1> DEFINE p == Placement(t, o)
<1>1. p.ticks = t /\ p.offset = o
  BY PlacementFields
<1> HIDE DEF p
<1>2. \A c : CivilFromDays(c.date).year \in MailYears <=> FourDigits(CivilFromDays(c.date).year)
  BY FourDigitYears, Zenon
<1>3. Mailable(p) <=> Sendable(t, o)
  BY <1>1, <1>2, Zenon DEF Mailable, Sendable
<1> QED  BY <1>3, Zenon DEF p

LEMMA ShownIs ==
  ASSUME NEW t, NEW o, NEW x
  PROVE  Shown(Placement(t, o), x) = IF CivilAt(t, o) = {} THEN {} ELSE x
BY PlacementFields, Zenon DEF Shown, Err

LEMMA CivilParts ==
  ASSUME NEW v \in [date : Date, time : TimesOfDay]
  PROVE  v.date \in Date /\ v.time \in TimesOfDay /\ v = Civil(v.date, v.time)
BY SMT DEF Civil

LEMMA CivilCut ==
  ASSUME NEW d, NEW t, NEW f
  PROVE  CutCivil(Civil(d, t), f) = Civil(d, Cut(t, f))
<1> DEFINE x == Cut(t, f)  p == Civil(d, t)
<1>1. p.time = t
  BY CivilFieldsOf
<1>2. CutCivil(p, f) = [p EXCEPT !.time = x]
  BY <1>1, Zenon DEF CutCivil
<1> HIDE DEF x
<1>3. [p EXCEPT !.time = x] = Civil(d, x)
  BY SMT DEF Civil
<1> QED  BY <1>2, <1>3, Zenon DEF x

LEMMA TimeCut ==
  ASSUME NEW t \in TimesOfDay, NEW f
  PROVE  Cut(t, f) = WithNanos(t, CutOf(t, f))
<1> DEFINE n == CutOf(t, f)
<1>1. Cut(t, f) = [t EXCEPT !.nanos = n]
  BY Zenon DEF Cut, CutOf
<1> HIDE DEF n
<1>2. [t EXCEPT !.nanos = n] = WithNanos(t, n)
  BY NanosReplaced
<1> QED  BY <1>1, <1>2, Zenon DEF n

ReadsAsWritten(k, f) == Read(k, f, Write(k, f)) = Expected(k)

LEMMA OneTextReadsBack ==
  ASSUME NEW k, NEW f, k.kind \in {"date", "offset", "zone"}, k.value \in ValuesOf(k.kind)
  PROVE  ReadsAsWritten(k, f)
<1> DEFINE v == k.value
<1>1. Expected(k) = {v}
  BY ExpectedOfKinds, Zenon DEF Ok
<1>2. CASE k.kind = "date"
  <2>1. v \in Date
    BY <1>2, ValuesOfKinds, Zenon
  <2>2. Read(k, f, Write(k, f)) = ReadDate(WriteDate(v))
    BY <1>2, OneTextKinds, Zenon
  <2> QED  BY <1>1, <2>1, <2>2, DateReadsBack, Zenon DEF ReadsAsWritten
<1>3. CASE k.kind = "offset"
  <2>1. v \in Offsets
    BY <1>3, ValuesOfKinds, Zenon
  <2>2. Read(k, f, Write(k, f)) = ReadOffset(WriteOffset(v))
    BY <1>3, OneTextKinds, ZenonT(60)
  <2> QED  BY <1>1, <2>1, <2>2, OffsetReadsBack, Zenon DEF ReadsAsWritten
<1>4. CASE k.kind = "zone"
  <2>1. v \in Offsets
    BY <1>4, ValuesOfKinds, Zenon
  <2>2. Read(k, f, Write(k, f)) = ReadZone(WriteZone(v))
    BY <1>4, OneTextKinds, Zenon
  <2> QED  BY <1>1, <2>1, <2>2, ZoneReadsBack, Zenon DEF ReadsAsWritten
<1> QED  BY <1>2, <1>3, <1>4

LEMMA CutTextReadsBack ==
  ASSUME NEW k, NEW f, k.kind \in Fractional, k.value \in ValuesOf(k.kind), k.fraction \in Fractions
  PROVE  ReadsAsWritten(k, f)
<1> DEFINE v == k.value  d == k.fraction
<1>1. CASE k.kind = "time"
  <2>1. v \in TimesOfDay
    BY <1>1, ValuesOfKinds, Zenon
  <2>2. Read(k, f, Write(k, f)) = ReadTime(WriteTime(v, d))
    BY <1>1, FractionalKinds
  <2>2e. Expected(k) = {Cut(v, d)}
    BY <1>1, ExpectedOfKinds, Zenon DEF Ok
  <2>3. Cut(v, d) = WithNanos(v, CutOf(v, d))
    BY <2>1, TimeCut, Zenon
  <2> QED  BY <2>1, <2>2, <2>2e, <2>3, TimeReadsBack, Zenon DEF ReadsAsWritten
<1>2. CASE k.kind = "civil"
  <2>1. v \in [date : Date, time : TimesOfDay]
    BY <1>2, ValuesOfKinds, Zenon
  <2> DEFINE x == v.date  t == v.time
  <2>2. x \in Date /\ t \in TimesOfDay /\ v = Civil(x, t)
    BY <2>1, CivilParts
  <2>3. Read(k, f, Write(k, f)) = ReadCivil(WriteCivil(v, d))
    BY <1>2, FractionalKinds
  <2>3e. Expected(k) = {CutCivil(v, d)}
    BY <1>2, ExpectedOfKinds, Zenon DEF Ok
  <2> HIDE DEF x, t
  <2>4. CutCivil(v, d) = Civil(x, Cut(t, d)) /\ Cut(t, d) = WithNanos(t, CutOf(t, d))
    BY <2>2, CivilCut, TimeCut, ZenonT(60)
  <2>5. ReadCivil(WriteCivil(Civil(x, t), d)) = {Civil(x, WithNanos(t, CutOf(t, d)))}
    BY <2>2, CivilReadsBack
  <2> QED  BY <2>2, <2>3, <2>3e, <2>4, <2>5, Zenon DEF ReadsAsWritten
<1>3. CASE k.kind = "ticks"
  <2>1. v \in Instants
    BY <1>3, ValuesOfKinds, Zenon
  <2>2. Read(k, f, Write(k, f)) = ReadTicks(WriteTicks(v, d))
    BY <1>3, FractionalKinds
  <2>2e. Expected(k) = Shown(AtUtc(v), {Cut(v, d)})
    BY <1>3, ExpectedOfKinds, Zenon DEF Ok
  <2> DEFINE S == {Cut(v, d)}
  <2> HIDE DEF S
  <2>3. AtUtc(v) = Placement(v, 0)
    BY PlacementFields
  <2>3s. Shown(Placement(v, 0), S) = IF CivilAt(v, 0) = {} THEN {} ELSE S
    BY ShownIs
  <2>4. ReadTicks(WriteTicks(v, d)) = IF CivilAt(v, 0) = {} THEN {} ELSE S
    BY <2>1, TicksReadBack DEF S
  <2> QED  BY <2>2, <2>2e, <2>3, <2>3s, <2>4, Zenon DEF ReadsAsWritten, S
<1>4. CASE k.kind = "zoned"
  <2>1. v \in [ticks : Instants, offset : Offsets]
    BY <1>4, ValuesOfKinds, Zenon
  <2> DEFINE t == v.ticks  o == v.offset  S == {Placement(Cut(t, d), o)}
  <2>2. t \in Instants /\ o \in Offsets /\ v = Placement(t, o)
    BY <2>1, ZonedParts
  <2> HIDE DEF t, o
  <2>3. Read(k, f, Write(k, f)) = ReadZoned(WriteZoned(v, d))
    BY <1>4, FractionalKinds
  <2>3e. Expected(k) = Shown(v, {CutZoned(v, d)})
    BY <1>4, ExpectedOfKinds, Zenon DEF Ok
  <2>4. CutZoned(v, d) = Placement(Cut(t, d), o)
    BY <2>2, PlacementCut, Zenon
  <2>5. ReadZoned(WriteZoned(v, d)) = IF CivilAt(t, o) = {} THEN {} ELSE S
    BY <2>2, ZonedReadsBack
  <2> HIDE DEF S
  <2>6. Shown(Placement(t, o), S) = IF CivilAt(t, o) = {} THEN {} ELSE S
    BY ShownIs
  <2> QED  BY <2>2, <2>3, <2>3e, <2>4, <2>5, <2>6, Zenon DEF ReadsAsWritten, S
<1> QED  BY <1>1, <1>2, <1>3, <1>4, Zenon DEF Fractional

LEMMA MailTextReadsBack ==
  ASSUME NEW k, NEW f, k.kind = "mail", k.value \in ValuesOf(k.kind)
  PROVE  ReadsAsWritten(k, f)
<1> DEFINE v == k.value
<1>1. v \in [ticks : Instants, offset : Offsets]
  BY ValuesOfKinds, Zenon
<1> DEFINE t == v.ticks  o == v.offset  S == {Placement(NoNanos(t), o)}
<1>2. t \in Instants /\ o \in Offsets /\ v = Placement(t, o)
  BY <1>1, ZonedParts
<1> HIDE DEF t, o
<1>3. Read(k, f, Write(k, f)) = ReadZoned2822(WriteZoned2822(v))
  BY MailKinds, Zenon
<1>4. MailCut(v) = Placement(NoNanos(t), o) /\ (Mailable(v) <=> Sendable(t, o))
  BY <1>2, PlacementCut, MailableIs, Zenon
<1>5. Expected(k) = IF Mailable(v) THEN Shown(v, S) ELSE {}
  BY <1>4, ExpectedOfKinds, Zenon DEF Ok, Err
<1>6. ReadZoned2822(WriteZoned2822(v)) = IF CivilAt(t, o) # {} /\ Sendable(t, o) THEN S ELSE {}
  BY <1>2, MailReadsBack
<1> HIDE DEF S
<1>7. Shown(Placement(t, o), S) = IF CivilAt(t, o) = {} THEN {} ELSE S
  BY ShownIs
<1> QED  BY <1>2, <1>3, <1>4, <1>5, <1>6, <1>7, Zenon DEF ReadsAsWritten

IsMailTicks(k) == k.kind = "mail ticks"

LEMMA MailTicksTextReadsBack ==
  ASSUME NEW k, NEW f, IsMailTicks(k), k.value \in ValuesOf(k.kind)
  PROVE  ReadsAsWritten(k, f)
<1> DEFINE v == k.value  S == {NoNanos(v)}
<1>1. v \in Instants
  BY ValuesOfKinds, Zenon DEF IsMailTicks
<1>2. Read(k, f, Write(k, f)) = ReadTicks2822(WriteTicks2822(v))
  BY MailKinds, Zenon DEF IsMailTicks
<1>3. Expected(k) = IF Mailable(AtUtc(v)) THEN Shown(AtUtc(v), S) ELSE {}
  BY ExpectedOfKinds, Zenon DEF Ok, Err, IsMailTicks
<1>4. AtUtc(v) = Placement(v, 0)
  BY PlacementFields
<1>5. Mailable(Placement(v, 0)) <=> Sendable(v, 0)
  BY MailableIs
<1>6. ReadTicks2822(WriteTicks2822(v)) = IF CivilAt(v, 0) # {} /\ Sendable(v, 0) THEN S ELSE {}
  BY <1>1, MailTicksReadBack
<1> HIDE DEF S
<1>7. Shown(Placement(v, 0), S) = IF CivilAt(v, 0) = {} THEN {} ELSE S
  BY ShownIs
<1> QED  BY <1>2, <1>3, <1>4, <1>5, <1>6, <1>7, Zenon DEF ReadsAsWritten

(* What the reader of a task makes of what its writer wrote is what        *)
(* WritersReadBack says, for every value of the kind.                      *)
LEMMA TaskReadsBack ==
  ASSUME NEW k \in Tasks, NEW f, k.kind # "strftime"
  PROVE  ReadsAsWritten(k, f)
<1>1. /\ k.kind \in TextKinds /\ k.value \in ValuesOf(k.kind)
      /\ k.kind \in Fractional => k.fraction \in Fractions
  BY TaskAssumption, Zenon DEF Fractions
<1>2. CASE k.kind \in Fractional
  BY <1>1, <1>2, CutTextReadsBack, Zenon
<1>3. CASE k.kind \in {"date", "offset", "zone"}
  BY <1>1, <1>3, OneTextReadsBack
<1>4. CASE k.kind = "mail"
  BY <1>1, <1>4, MailTextReadsBack, Zenon
<1>5. CASE IsMailTicks(k)
  BY <1>1, <1>5, MailTicksTextReadsBack, Zenon
<1> QED  BY <1>1, <1>2, <1>3, <1>4, <1>5, Zenon DEF TextKinds, IsMailTicks

LEMMA PartsInvert ==
  ASSUME task \in Tasks
  PROVE  OffsetPartsInvert
<1> SUFFICES ASSUME task.kind = "offset" PROVE OffsetPartsInvert
  BY DEF OffsetPartsInvert
<1> DEFINE o == task.value  hms == AsHms(o)
<1>1. o \in Offsets
  BY TaskAssumption, ValuesOfKinds, Zenon
<1>2. FromHms(hms.hours, hms.minutes, hms.seconds) = {InParts(o)}
  BY <1>1, HmsTakenBack
<1> HIDE DEF hms
<1> QED  BY <1>2, Zenon DEF OffsetPartsInvert, InParts, hms

(* What was read of a text that nobody edited is what its reader makes of  *)
(* what its writer wrote, of one value and one format.                     *)
TextInv ==
  /\ task \in Tasks /\ edits \in Nat
  /\ written /\ edits = 0 => result = Read(task, format, Write(task, format))

(* TextInv holds before anything is written.                               *)
THEOREM TextInvInitially == Init => TextInv
BY SMT DEF Init, TextInv

(* Writing reads what was written; an edit is counted.                     *)
THEOREM TextInvPreserved == TextInv /\ [Next]_vars => TextInv'
<1> SUFFICES ASSUME TextInv, [Next]_vars PROVE TextInv'
  OBVIOUS
<1>1. CASE WriteText
  <2>1. task' = task /\ edits' = edits /\ text' = Write(task, format')
        /\ result' = Read(task, format', text')
    BY <1>1, Zenon DEF WriteText
  <2> QED  BY <2>1, Zenon DEF TextInv
<1>2. CASE EditText
  <2>1. task' = task /\ edits' = edits + 1
    BY <1>2, Zenon DEF EditText
  <2>2. edits' \in Nat /\ edits' # 0
    BY <2>1 DEF TextInv
  <2> QED  BY <2>1, <2>2, Zenon DEF TextInv
<1>3. CASE UNCHANGED vars
  BY <1>3, Zenon DEF vars, TextInv
<1> QED  BY <1>1, <1>2, <1>3, Zenon DEF Next

(* In every reachable state, a text that nobody has edited reads as the    *)
(* value that was written, cut to the fraction shown; the only exceptions  *)
(* are the ones WritersReadBack names. So it is for every date in range and*)
(* every year of up to nine digits, every time, instant, offset and zone.  *)
THEOREM TextsReadBack == Spec => []WritersReadBack
<1>1. TextInv => WritersReadBack
  <2> SUFFICES ASSUME TextInv PROVE WritersReadBack
    OBVIOUS
  <2>1. written /\ edits = 0 /\ task.kind # "strftime" => result = Expected(task)
    BY TaskReadsBack, Zenon DEF TextInv, ReadsAsWritten
  <2>2. OffsetPartsInvert
    BY PartsInvert, Zenon DEF TextInv
  <2> QED  BY <2>1, <2>2, Zenon DEF WritersReadBack
<1> QED  BY TextInvInitially, TextInvPreserved, <1>1, PTL DEF Spec

-----------------------------------------------------------------------------
(* The sink.                                                               *)
SinkBytes  == {"old", "a", "lead", "tail"}
Pieces == Slices \cup {Fault}
SinkTexts  == Seq({"a", "lead", "tail"})

-----------------------------------------------------------------------------
(* The written bytes, one by one.                                          *)
WholeUpTo(bytes, n) ==
  \A i \in 1..n :
    /\ bytes[i] = "lead" => i < n /\ bytes[i + 1] = "tail"
    /\ bytes[i] = "tail" => i > 1 /\ bytes[i - 1] = "lead"

LEMMA Prefix ==
  ASSUME NEW bytes \in Seq(SinkBytes), NEW n \in 0..Len(bytes)
  PROVE  /\ SubSeq(bytes, 1, n) \in Seq(SinkBytes)
         /\ Len(SubSeq(bytes, 1, n)) = n
         /\ \A i \in 1..n : SubSeq(bytes, 1, n)[i] = bytes[i]
<1>1. \A i \in 1..n : bytes[i] \in SinkBytes
  BY ElementOfSeq
<1>2. n \in Nat /\ 1 \in Int
  BY LenProperties
<1> QED  BY <1>1, <1>2, SubSeqProperties

LEMMA WholeIsUtf8 ==
  ASSUME NEW bytes \in Seq(SinkBytes), NEW n \in 0..Len(bytes), WholeUpTo(bytes, n)
  PROVE  IsUtf8(SubSeq(bytes, 1, n))
<1> DEFINE s == SubSeq(bytes, 1, n)
<1>1. /\ s \in Seq(SinkBytes) /\ Len(s) = n
      /\ \A i \in 1..n : s[i] = bytes[i]
  BY Prefix
<1> HIDE DEF s
<1>2. DOMAIN s = 1..n
  BY <1>1, LenProperties
<1>3. ASSUME NEW i \in 1..n
      PROVE  /\ s[i] = "lead" => i < n /\ s[i + 1] = "tail"
             /\ s[i] = "tail" => i > 1 /\ s[i - 1] = "lead"
  <2>0. n \in Nat /\ i \in Nat
    BY LenProperties
  <2>1. CASE s[i] = "lead"
    <3>1. i < n /\ bytes[i + 1] = "tail"
      BY <1>1, <2>1 DEF WholeUpTo
    <3>2. i + 1 \in 1..n
      BY <2>0, <3>1
    <3> QED  BY <1>1, <2>1, <3>1, <3>2
  <2>2. CASE s[i] = "tail"
    <3>1. i > 1 /\ bytes[i - 1] = "lead"
      BY <1>1, <2>2 DEF WholeUpTo
    <3>2. i - 1 \in 1..n
      BY <2>0, <3>1
    <3> QED  BY <1>1, <2>2, <3>1, <3>2
  <2> QED  BY <2>1, <2>2
<1> QED  BY <1>1, <1>2, <1>3 DEF IsUtf8, s

-----------------------------------------------------------------------------
(* What write_bytes does to the bytes: the piece behind the first n, the   *)
(* rest as before.                                                         *)
LEMMA BytesWritten ==
  ASSUME NEW bytes \in Seq(SinkBytes), NEW n \in 0..Len(bytes), NEW piece \in SinkTexts,
         NEW r \in WriteBytes(bytes, n, piece)
  PROVE  /\ IsUtf8(piece) /\ n + Len(piece) <= Len(bytes)
         /\ r.len = n + Len(piece)
         /\ r.bytes \in Seq(SinkBytes) /\ Len(r.bytes) = Len(bytes)
         /\ \A i \in 1..n : r.bytes[i] = bytes[i]
         /\ \A k \in 1..Len(piece) : r.bytes[n + k] = piece[k]
<1> DEFINE b == [i \in 1..Len(bytes) |->
                   IF i \in n+1..n+Len(piece) THEN piece[i - n] ELSE bytes[i]]
<1>0. Len(bytes) \in Nat /\ DOMAIN bytes = 1..Len(bytes) /\ Len(piece) \in Nat
        /\ n \in Nat /\ n <= Len(bytes)
  BY LenProperties DEF SinkTexts
<1>1. /\ IsUtf8(piece) /\ n + Len(piece) <= Len(bytes)
      /\ r \in Copied(bytes, n, piece)
  BY DEF WriteBytes
<1>2. r = [len |-> n + Len(piece), bytes |-> b]
  BY <1>0, <1>1 DEF Copied
<1>3. ASSUME NEW i \in 1..Len(bytes)
      PROVE  (IF i \in n+1..n+Len(piece) THEN piece[i - n] ELSE bytes[i]) \in SinkBytes
  <2>1. CASE i \in n+1..n+Len(piece)
    <3>1. i - n \in 1..Len(piece)
      BY <1>0, <2>1
    <3>2. piece[i - n] \in {"a", "lead", "tail"}
      BY <3>1, ElementOfSeq DEF SinkTexts
    <3> QED  BY <2>1, <3>2 DEF SinkBytes
  <2>2. CASE i \notin n+1..n+Len(piece)
    BY <2>2, ElementOfSeq
  <2> QED  BY <2>1, <2>2
<1>4. b \in [1..Len(bytes) -> SinkBytes]
  BY <1>3
<1>5. b \in Seq(SinkBytes) /\ Len(b) = Len(bytes)
  BY <1>0, <1>4
<1>6. \A i \in 1..n : b[i] = bytes[i]
  BY <1>0
<1>7. \A k \in 1..Len(piece) : b[n + k] = piece[k]
  BY <1>0, <1>1
<1> HIDE DEF b
<1> QED  BY <1>1, <1>2, <1>5, <1>6, <1>7

(* Behind whole characters, a whole piece leaves whole characters.         *)
LEMMA WrittenIsWhole ==
  ASSUME NEW bytes \in Seq(SinkBytes), NEW n \in 0..Len(bytes), NEW piece \in SinkTexts,
         WholeUpTo(bytes, n), NEW r \in WriteBytes(bytes, n, piece)
  PROVE  WholeUpTo(r.bytes, r.len)
<1> DEFINE b == r.bytes
<1>0. n \in Nat /\ Len(piece) \in Nat /\ DOMAIN piece = 1..Len(piece)
  BY LenProperties DEF SinkTexts
<1>1. /\ IsUtf8(piece) /\ r.len = n + Len(piece)
      /\ \A i \in 1..n : b[i] = bytes[i]
      /\ \A k \in 1..Len(piece) : b[n + k] = piece[k]
  BY BytesWritten
<1> HIDE DEF b
<1>2. ASSUME NEW i \in 1..n + Len(piece)
      PROVE  /\ b[i] = "lead" => i < n + Len(piece) /\ b[i + 1] = "tail"
             /\ b[i] = "tail" => i > 1 /\ b[i - 1] = "lead"
  <2>1. CASE i \in 1..n
    <3>1. b[i] = bytes[i]
      BY <1>1, <2>1
    <3>2. CASE b[i] = "lead"
      <4>1. i < n /\ bytes[i + 1] = "tail"
        BY <2>1, <3>1, <3>2 DEF WholeUpTo
      <4>2. i + 1 \in 1..n /\ i < n + Len(piece)
        BY <1>0, <4>1
      <4> QED  BY <1>1, <3>2, <4>1, <4>2
    <3>3. CASE b[i] = "tail"
      <4>1. i > 1 /\ bytes[i - 1] = "lead"
        BY <2>1, <3>1, <3>3 DEF WholeUpTo
      <4>2. i - 1 \in 1..n
        BY <1>0, <2>1, <4>1
      <4> QED  BY <1>1, <3>3, <4>1, <4>2
    <3> QED  BY <3>2, <3>3
  <2>2. CASE i \notin 1..n
    <3> DEFINE k == i - n
    <3>1. k \in 1..Len(piece) /\ i = n + k
      BY <1>0, <2>2
    <3> HIDE DEF k
    <3>2. b[i] = piece[k]
      BY <1>1, <3>1
    <3>3. CASE b[i] = "lead"
      <4>1. k < Len(piece) /\ piece[k + 1] = "tail"
        BY <1>0, <1>1, <3>1, <3>2, <3>3 DEF IsUtf8
      <4>2. k + 1 \in 1..Len(piece) /\ i + 1 = n + (k + 1)
        BY <1>0, <3>1, <4>1
      <4>3. b[n + (k + 1)] = piece[k + 1]
        BY <1>1, <4>2
      <4> QED  BY <1>0, <3>1, <3>3, <4>1, <4>2, <4>3
    <3>4. CASE b[i] = "tail"
      <4>1. k > 1 /\ piece[k - 1] = "lead"
        BY <1>0, <1>1, <3>1, <3>2, <3>4 DEF IsUtf8
      <4>2. k - 1 \in 1..Len(piece) /\ i - 1 = n + (k - 1)
        BY <1>0, <3>1, <4>1
      <4>3. b[n + (k - 1)] = piece[k - 1]
        BY <1>1, <4>2
      <4> QED  BY <1>0, <3>1, <3>4, <4>1, <4>2, <4>3
    <3> QED  BY <3>3, <3>4
  <2> QED  BY <2>1, <2>2
<1> QED  BY <1>1, <1>2 DEF WholeUpTo, b

-----------------------------------------------------------------------------
(* The inductive invariant: beside what is claimed, a formatter that is    *)
(* still running has laid out what it has written, and one that failed     *)
(* failed at its next piece.                                               *)
SinkTypeInv ==
  /\ storage \in Seq(SinkBytes) /\ len \in 0..Len(storage)
  /\ user \in {"caller", "formatter", "ok", "err"}
  /\ job \in Seq(Pieces) /\ done \in 0..Len(job)
  /\ \A i \in 1..Len(job) : IsUtf8(job[i])

Stopped == job[done + 1] = Fault \/ len + Len(job[done + 1]) > Len(storage)

SinkInv ==
  /\ SinkTypeInv
  /\ WholeUpTo(storage, len)
  /\ user # "caller" => LaidOut(done)
  /\ user = "ok" => done = Len(job)
  /\ user = "err" => Stopped

LEMMA SinkInvInitially == SinkInit => SinkInv
<1> SUFFICES ASSUME SinkInit PROVE SinkInv
  OBVIOUS
<1>1. PICK n \in Capacities : storage = [i \in 1..n |-> "old"]
  BY DEF SinkInit
<1>2. n \in Nat
  BY ArgumentAssumption
<1>3. storage \in [1..n -> SinkBytes]
  BY <1>1 DEF SinkBytes
<1>4. storage \in Seq(SinkBytes)
  BY <1>2, <1>3
<1>5. 0 \in 0..Len(storage)
  BY <1>4, LenProperties
<1>6. <<>> \in Seq(Pieces) /\ Len(<<>>) = 0 /\ 0 \in 0..0 /\ 1..0 = {}
  BY EmptySeq
<1>7. WholeUpTo(storage, 0)
  BY <1>6 DEF WholeUpTo
<1> QED  BY <1>4, <1>5, <1>6, <1>7 DEF SinkInit, SinkInv, SinkTypeInv

(* One more piece behind the others.                                       *)
LEMMA PieceIsLaidOut ==
  ASSUME SinkInv, user = "formatter", done < Len(job), job' = job, done' = done + 1,
         job[done + 1] \in SinkTexts,
         NEW r \in WriteBytes(storage, len, job[done + 1]), Put(r)
  PROVE  LaidOut(done)'
<1> DEFINE piece == job[done + 1]
           n == done + 1
<1>0. /\ storage \in Seq(SinkBytes) /\ len \in 0..Len(storage) /\ Len(storage) \in Nat
      /\ done \in Nat /\ Len(piece) \in Nat /\ len \in Nat
  BY LenProperties DEF SinkInv, SinkTypeInv, SinkTexts
<1>1. /\ len' = len + Len(piece)
      /\ \A i \in 1..len : storage'[i] = storage[i]
      /\ \A k \in 1..Len(piece) : storage'[len + k] = piece[k]
  BY <1>0, BytesWritten DEF Put
<1> HIDE DEF piece
<1>2. PICK ends \in [0..done -> 0..len] :
        /\ ends[0] = 0 /\ ends[done] = len
        /\ \A i \in 1..done :
             /\ ends[i] = ends[i - 1] + Len(job[i])
             /\ \A k \in 1..Len(job[i]) : storage[ends[i - 1] + k] = job[i][k]
  BY DEF SinkInv, LaidOut
<1> DEFINE ext == [i \in 0..n |-> IF i = n THEN len' ELSE ends[i]]
<1>3. ext \in [0..n -> 0..len']
  BY <1>0, <1>1
<1>4. ext[0] = 0 /\ ext[n] = len' /\ ext[done] = len
  BY <1>0, <1>2
<1>5. ASSUME NEW i \in 1..n
      PROVE  /\ ext[i] = ext[i - 1] + Len(job[i])
             /\ \A k \in 1..Len(job[i]) : storage'[ext[i - 1] + k] = job[i][k]
  <2>1. CASE i = n
    BY <1>0, <1>1, <1>4, <2>1 DEF piece
  <2>2. CASE i # n
    <3>1. i \in 1..done /\ i - 1 \in 0..done /\ i \in 0..done
      BY <1>0, <2>2
    <3>2. ext[i] = ends[i] /\ ext[i - 1] = ends[i - 1]
      BY <1>0, <3>1
    <3>3. ends[i] \in 0..len /\ ends[i - 1] \in 0..len
      BY <3>1
    <3>4. Len(job[i]) \in Nat
      <4>1. job[i] \in Pieces
        BY <3>1, <1>0, LenProperties, ElementOfSeq DEF SinkInv, SinkTypeInv
      <4>2. Len(Fault) \in Nat /\ \A s \in SinkTexts : Len(s) \in Nat
        BY LenProperties DEF Fault, SinkTexts
      <4> QED  BY <4>1, <4>2, ArgumentAssumption DEF Pieces, SinkTexts
    <3> HIDE DEF ext
    <3>5. ends[i] = ends[i - 1] + Len(job[i])
      BY <1>2, <3>1
    <3>6. ASSUME NEW k \in 1..Len(job[i])
          PROVE  storage'[ends[i - 1] + k] = job[i][k]
      <4>1. storage[ends[i - 1] + k] = job[i][k]
        BY <1>2, <3>1
      <4>2. ends[i - 1] + k \in 1..len
        <5> DEFINE a == ends[i - 1]
                   b == ends[i]
                   m == Len(job[i])
        <5>1. a \in Int /\ 0 <= a /\ b \in Int /\ b <= len /\ m \in Nat /\ b = a + m
          BY <1>0, <3>3, <3>4, <3>5
        <5>2. k \in 1..m
          OBVIOUS
        <5> HIDE DEF a, b, m
        <5>3. a + k \in 1..len
          BY <1>0, <5>1, <5>2
        <5> QED  BY <5>3 DEF a
      <4> QED  BY <1>1, <4>1, <4>2
    <3> QED  BY <3>2, <3>5, <3>6
  <2> QED  BY <2>1, <2>2
<1> HIDE DEF ext
<1>6. \E e \in [0..n -> 0..len'] :
        /\ e[0] = 0 /\ e[n] = len'
        /\ \A i \in 1..n :
             /\ e[i] = e[i - 1] + Len(job[i])
             /\ \A k \in 1..Len(job[i]) : storage'[e[i - 1] + k] = job[i][k]
  BY <1>3, <1>4, <1>5
<1> QED  BY <1>0, <1>6 DEF LaidOut

LEMMA LaidOutStays ==
  ASSUME LaidOut(done), UNCHANGED <<storage, len, job, done>>
  PROVE  LaidOut(done)'
BY ZenonT(60) DEF LaidOut

LEMMA SinkInvPreserved == SinkInv /\ [SinkNext]_sinkVars => SinkInv'
<1> SUFFICES ASSUME SinkInv, [SinkNext]_sinkVars PROVE SinkInv'
  OBVIOUS
<1>0. SinkTypeInv /\ Len(storage) \in Nat /\ Len(job) \in Nat /\ done \in Nat
  BY LenProperties DEF SinkInv, SinkTypeInv
<1>1. ASSUME NEW n \in {0}
      PROVE  WholeUpTo(storage, n) /\ n \in 0..Len(storage)
  BY <1>0 DEF WholeUpTo
<1>2. CASE NewBuf
  <2>1. <<>> \in Seq(Pieces) /\ Len(<<>>) = 0 /\ 0 \in 0..0 /\ 1..0 = {}
    BY EmptySeq
  <2>2. SinkTypeInv' /\ WholeUpTo(storage, len)'
    BY <1>0, <1>1, <1>2, <2>1 DEF NewBuf, SinkTypeInv, WholeUpTo
  <2> QED  BY <1>2, <2>2 DEF NewBuf, SinkInv
<1>3. CASE WriteSlice
  <2>1. PICK slice \in Slices : \E r \in WriteBytes(storage, len, slice) : Put(r)
    BY <1>3 DEF WriteSlice
  <2>2. PICK r \in WriteBytes(storage, len, slice) : Put(r)
    BY <2>1
  <2>3. slice \in SinkTexts
    BY ArgumentAssumption DEF SinkTexts
  <2>4. storage' = r.bytes /\ len' = r.len /\ user = "caller"
          /\ user' = user /\ job' = job /\ done' = done
    BY <1>3, <2>2 DEF Put, WriteSlice
  <2>5. storage' \in Seq(SinkBytes) /\ Len(storage') = Len(storage)
          /\ len' = len + Len(slice) /\ len + Len(slice) <= Len(storage)
    BY <1>0, <2>3, <2>4, BytesWritten DEF SinkTypeInv
  <2>6. len' \in 0..Len(storage') 
    BY <1>0, <2>3, <2>5, LenProperties DEF SinkTypeInv, SinkTexts
  <2>7. WholeUpTo(storage', len')
    BY <1>0, <2>3, <2>4, WrittenIsWhole DEF SinkInv, SinkTypeInv
  <2>8. SinkTypeInv'
    BY <1>0, <2>4, <2>5, <2>6 DEF SinkTypeInv
  <2> QED  BY <2>4, <2>7, <2>8 DEF SinkInv, WholeUpTo
<1>4. CASE Clear
  <2>1. SinkTypeInv' /\ WholeUpTo(storage, len)'
    BY <1>0, <1>1, <1>4 DEF Clear, SinkTypeInv, WholeUpTo
  <2> QED  BY <1>4, <2>1 DEF Clear, SinkInv
<1>5. CASE WithBuf
  <2>1. /\ user' = "formatter" /\ job' \in Formatters /\ done' = 0 /\ len' = 0
        /\ storage' = storage
    BY <1>5 DEF WithBuf
  <2>2. job' \in Seq(Pieces) /\ \A i \in DOMAIN job' : IsUtf8(job'[i])
    BY <2>1, ArgumentAssumption, WholePieces DEF Pieces
  <2>3. Len(job') \in Nat /\ DOMAIN job' = 1..Len(job')
    BY <2>2, LenProperties
  <2>4. SinkTypeInv' /\ WholeUpTo(storage, len)'
    BY <1>0, <1>1, <2>1, <2>2, <2>3 DEF SinkTypeInv, WholeUpTo
  <2>5. LaidOut(0)'
    <3> DEFINE ends == [i \in 0..0 |-> 0]
    <3>1. ends \in [0..0 -> 0..len'] /\ ends[0] = 0 /\ 1..0 = {}
      BY <2>1
    <3> QED  BY <2>1, <3>1 DEF LaidOut
  <2> QED  BY <2>1, <2>4, <2>5 DEF SinkInv, LaidOut
<1>6. CASE WriteNext
  <2> DEFINE piece == job[done + 1]
  <2>1. /\ user = "formatter" /\ done < Len(job) /\ done' = done + 1
        /\ user' = user /\ job' = job
    BY <1>6 DEF WriteNext
  <2>2. PICK r \in Written : Put(r)
    BY <1>6 DEF WriteNext
  <2>3. piece # Fault /\ r \in WriteBytes(storage, len, piece)
    BY <2>2 DEF Written
  <2>4. done + 1 \in 1..Len(job)
    BY <1>0, <2>1
  <2>5. piece \in SinkTexts
    BY <1>0, <2>3, <2>4, ElementOfSeq, ArgumentAssumption DEF SinkTypeInv, Pieces, SinkTexts
  <2>6. LaidOut(done)'
    BY <2>1, <2>2, <2>3, <2>5, PieceIsLaidOut
  <2> HIDE DEF piece
  <2>7. storage' = r.bytes /\ len' = r.len
    BY <2>2 DEF Put
  <2>8. storage' \in Seq(SinkBytes) /\ Len(storage') = Len(storage)
          /\ len' = len + Len(piece) /\ len + Len(piece) <= Len(storage)
    BY <1>0, <2>3, <2>5, <2>7, BytesWritten DEF SinkTypeInv
  <2>9. len' \in 0..Len(storage')
    BY <1>0, <2>5, <2>8, LenProperties DEF SinkTypeInv, SinkTexts
  <2>10. WholeUpTo(storage', len')
    BY <1>0, <2>3, <2>5, <2>7, WrittenIsWhole DEF SinkInv, SinkTypeInv
  <2>11. SinkTypeInv'
    BY <1>0, <2>1, <2>4, <2>8, <2>9 DEF SinkTypeInv
  <2>12. WholeUpTo(storage, len)'
    BY <2>10 DEF WholeUpTo
  <2> QED  BY <2>1, <2>6, <2>11, <2>12 DEF SinkInv
<1>7. CASE Fail
  <2> DEFINE piece == job[done + 1]
  <2>1. /\ user = "formatter" /\ done < Len(job) /\ Written = {} /\ user' = "err"
        /\ UNCHANGED <<storage, len, job, done>>
    BY <1>7 DEF Fail
  <2>2. done + 1 \in 1..Len(job)
    BY <1>0, <2>1
  <2>3. piece \in Pieces /\ IsUtf8(piece)
    BY <1>0, <2>2, ElementOfSeq DEF SinkTypeInv
  <2>4. Stopped
    <3>1. CASE piece = Fault
      BY <3>1 DEF Stopped
    <3>2. CASE piece # Fault
      <4>1. piece \in SinkTexts /\ WriteBytes(storage, len, piece) = {}
        BY <2>1, <2>3, <3>2, ArgumentAssumption DEF Written, Pieces, SinkTexts
      <4>2. ~(len + Len(piece) <= Len(storage))
        BY <2>3, <4>1 DEF WriteBytes, Copied
      <4>3. len \in Int /\ Len(piece) \in Nat
        BY <1>0, <4>1, LenProperties DEF SinkTypeInv, SinkTexts
      <4> QED  BY <1>0, <4>2, <4>3 DEF Stopped
    <3> QED  BY <3>1, <3>2
  <2>5. Stopped'
    BY <2>1, <2>4 DEF Stopped
  <2>6. LaidOut(done)'
    BY <2>1, LaidOutStays DEF SinkInv
  <2>7. SinkTypeInv' /\ WholeUpTo(storage, len)'
    BY <2>1 DEF SinkInv, SinkTypeInv, WholeUpTo
  <2> QED  BY <2>1, <2>5, <2>6, <2>7 DEF SinkInv
<1>8. CASE Return
  <2>1. /\ user = "formatter" /\ done = Len(job) /\ user' = "ok"
        /\ UNCHANGED <<storage, len, job, done>>
    BY <1>8 DEF Return
  <2>2. LaidOut(done)'
    BY <2>1, LaidOutStays DEF SinkInv
  <2>3. SinkTypeInv' /\ WholeUpTo(storage, len)'
    BY <2>1 DEF SinkInv, SinkTypeInv, WholeUpTo
  <2> QED  BY <2>1, <2>2, <2>3 DEF SinkInv
<1>9. CASE UNCHANGED sinkVars
  BY <1>9 DEF sinkVars, SinkInv, SinkTypeInv, Stopped, WholeUpTo, LaidOut
<1> QED  BY <1>2, <1>3, <1>4, <1>5, <1>6, <1>7, <1>8, <1>9 DEF SinkNext

(* Every reachable state satisfies the inductive invariant.                *)
THEOREM SinkInvAlways == SinkSpec => []SinkInv
BY SinkInvInitially, SinkInvPreserved, PTL DEF SinkSpec

(* The expect of Buf::as_str never fires, for storage of every length and  *)
(* whatever slices are written, refused and written over.                  *)
THEOREM AsStrIsSafe == SinkSpec => []AsStrNeverPanics
<1>1. SinkInv => AsStrNeverPanics
  <2> SUFFICES ASSUME SinkInv PROVE AsStrNeverPanics
    OBVIOUS
  <2>1. storage \in Seq(SinkBytes) /\ len \in 0..Len(storage) /\ Len(storage) \in Nat
    BY LenProperties DEF SinkInv, SinkTypeInv
  <2>2. IsUtf8(SubSeq(storage, 1, len))
    BY <2>1, WholeIsUtf8 DEF SinkInv
  <2> QED  BY <2>1, <2>2 DEF AsStrNeverPanics, AsBytes
<1> QED  BY <1>1, SinkInvAlways, PTL

(* with_buf writes all of a text or fails at the first piece that does not *)
(* fit, for every formatter.                                               *)
THEOREM FormatterNeverSkips == SinkSpec => []FormatterIsAllOrPrefix
<1>1. SinkInv => FormatterIsAllOrPrefix
  BY DEF SinkInv, FormatterIsAllOrPrefix, Stopped
<1> QED  BY <1>1, SinkInvAlways, PTL

=============================================================================
