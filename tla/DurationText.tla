---------------------------- MODULE DurationText ----------------------------
(***************************************************************************)
(* The ISO 8601 text of a Duration (format.rs): the writer                 *)
(* format_duration_iso_into and the reader parse_duration_iso.             *)
(*                                                                         *)
(* A text is a sequence of tokens, each a number and the byte that follows *)
(* it.  A number is what its digits say: the value and the count of the    *)
(* digits before and after the point.  NoNumber stands for whatever bytes  *)
(* hold no number, none at all included.                                   *)
(***************************************************************************)
EXTENDS DurationOps, SequencesExt

CONSTANTS
  MaxIntDigits,    \* digits_opt gives up on one digit more
  MaxFracDigits,   \* fraction gives up on one digit more
  Numbers          \* the numbers of the texts that are read

UnitOf ==
  [W |-> NsPerWeek, D |-> NsPerDay, H |-> NsPerHour, M |-> NsPerMin, S |-> NsPerSec]

DateUnits == {"W", "D"}
TimeUnits == {"H", "M", "S"}

(* The last one is any other byte, or the end of the text.                 *)
Bytes == {"-", "P", "T"} \cup DateUnits \cup TimeUnits \cup {"?"}

NoNumber == [int |-> 0, intDigits |-> 0, frac |-> 0, fracDigits |-> 0]

Tokens  == [number : Numbers \cup {NoNumber}, byte : Bytes]
Byte(b) == [number |-> NoNumber, byte |-> b]

MaxInt == 10^MaxIntDigits - 1

(* How many digits an i128 may have.                                       *)
Widths == 1..39

ASSUME DigitAssumption ==
  /\ MaxIntDigits \in Widths /\ MaxFracDigits \in Widths
  /\ NsPerSec = 10^MaxFracDigits
  /\ \A n \in Numbers :
       /\ n \in [int : Nat, intDigits : Nat, frac : Nat, fracDigits : Nat]
       /\ n.int < 10^n.intDigits /\ n.frac < 10^n.fracDigits

(* What arithmetic says of the powers of ten the digits stand for.         *)
ASSUME PowerAssumption ==
  /\ \A digits \in {MaxIntDigits, MaxFracDigits} : \A k \in 0..digits :
       10^k \in 1..10^digits /\ 10^k * 10^(digits - k) = 10^digits
  /\ \E k \in Widths : InstMax < 10^k /\ \A j \in 1..k : 10^j \in Nat

(* Two dates and three times of the longest number are within an i128.     *)
ASSUME RoomAssumption ==
  (MaxInt + 1) * (NsPerWeek + NsPerDay + NsPerHour + NsPerMin + NsPerSec) <= InstMax

(* The hours of a day, the minutes of an hour and the seconds of a minute  *)
(* are numbers of no more digits than are read.                            *)
ASSUME DesignatorAssumption ==
  /\ NsPerDay  <= (MaxInt + 1) * NsPerHour
  /\ NsPerHour <= (MaxInt + 1) * NsPerMin
  /\ NsPerMin  <= (MaxInt + 1) * NsPerSec

-----------------------------------------------------------------------------
(* Numbers as they are written: no leading zero before the point, and no   *)
(* trailing one after it.                                                  *)
DigitCount(n) == CHOOSE k \in Widths : n < 10^k /\ \A j \in 1..k-1 : 10^j <= n

Whole(n) == [int |-> n, intDigits |-> DigitCount(n), frac |-> 0, fracDigits |-> 0]

(* Mutant: the zeros that lead the fraction are trimmed too.               *)
WithFractionUnpadded(n, subsec) ==
  [Whole(n) EXCEPT !.frac = subsec, !.fracDigits = DigitCount(subsec)]

WithFraction(n, subsec) ==
  LET trimmed == Max({k \in 0..MaxFracDigits : subsec % 10^k = 0})
  IN  [Whole(n) EXCEPT !.frac = subsec \div 10^trimmed,
                       !.fracDigits = MaxFracDigits - trimmed]

(* A component that is written only when it is not zero.                   *)
Part(n, unit) == IF n > 0 THEN <<[number |-> Whole(n), byte |-> unit]>> ELSE <<>>

TimeText(rem) ==
  LET seconds == (rem % NsPerMin) \div NsPerSec
      subsec  == rem % NsPerSec
  IN  Part(rem \div NsPerHour, "H")
        \o Part((rem % NsPerHour) \div NsPerMin, "M")
        \o IF subsec > 0
           THEN <<[number |-> WithFraction(seconds, subsec), byte |-> "S"]>>
           ELSE Part(seconds, "S")

Format(d) ==
  LET abs == UnsignedAbs(d)
      rem == abs % NsPerDay
  IN  (IF d < 0 THEN <<Byte("-"), Byte("P")>> ELSE <<Byte("P")>>)
        \o Part(abs \div NsPerDay, "D")
        \o IF rem > 0 THEN <<Byte("T")>> \o TimeText(rem)
           ELSE IF abs = 0 THEN <<Byte("T"), [number |-> Whole(0), byte |-> "S"]>>
           ELSE <<>>

-----------------------------------------------------------------------------
(* The reader.  `last` is the unit read last, or "P" or "T"; `closed` says *)
(* that its number had a fraction, which only the final one may have.      *)
Start ==
  [at |-> "sign", negative |-> FALSE, total |-> 0, last |-> "P", closed |-> FALSE]

(* In this order, and each one at most once.                               *)
Order == <<"H", "M", "S">>
Place(unit) == CHOOSE i \in DOMAIN Order : Order[i] = unit

ReadMinus(s, token) ==
  IF token = Byte("-") /\ s.at = "sign"
  THEN Ok([s EXCEPT !.at = "P", !.negative = TRUE])
  ELSE Err

ReadP(s, token) ==
  IF token = Byte("P") /\ s.at \in {"sign", "P"}
  THEN Ok([s EXCEPT !.at = "date"])
  ELSE Err

ReadT(s, token) ==
  IF token = Byte("T") /\ s.at = "date" /\ s.last # "W" /\ ~s.closed
  THEN Ok([s EXCEPT !.at = "time", !.last = "T"])
  ELSE Err

(* An empty number before the point will do if the fraction is not zero.   *)
IsNumber(n) ==
  /\ n.intDigits <= MaxIntDigits
  /\ n.fracDigits <= MaxFracDigits
  /\ n.intDigits = 0 => n.frac > 0

(* Mutant: a time unit may be repeated.                                    *)
MayFollowAgain(unit, s) ==
  \/ s.at = "date" /\ unit \in DateUnits /\ s.last = "P"
  \/ /\ s.at = "time" /\ unit \in TimeUnits
     /\ s.last \in TimeUnits => Place(s.last) <= Place(unit)

MayFollow(unit, s) ==
  \/ s.at = "date" /\ unit \in DateUnits /\ s.last = "P"
  \/ /\ s.at = "time" /\ unit \in TimeUnits
     /\ s.last \in TimeUnits => Place(s.last) < Place(unit)

(* Mutant: a fraction is one of a second, whatever the unit.               *)
AddComponentOfSeconds(total, n, unit) ==
  UNION {CheckedInst(v + TruncDiv(n.frac * NsPerSec, 10^n.fracDigits)) :
           v \in CheckedInst(total + n.int * unit)}

(* The whole units and the fraction are added one after the other.         *)
AddComponent(total, n, unit) ==
  UNION {CheckedInst(v + TruncDiv(n.frac * unit, 10^n.fracDigits)) :
           v \in CheckedInst(total + n.int * unit)}

ReadComponent(s, token) ==
  IF ~s.closed /\ IsNumber(token.number) /\ MayFollow(token.byte, s)
  THEN {[s EXCEPT !.total  = v,
                  !.last   = token.byte,
                  !.closed = token.number.fracDigits > 0] :
          v \in AddComponent(s.total, token.number, UnitOf[token.byte])}
  ELSE Err

ReadToken(s, token) ==
  ReadMinus(s, token) \cup ReadP(s, token)
    \cup ReadT(s, token) \cup ReadComponent(s, token)

(* The end of the text: some component was read, and one after a T.        *)
Finish(s) ==
  IF s.at \in {"date", "time"} /\ s.last \notin {"P", "T"}
  THEN Ok(IF s.negative THEN -s.total ELSE s.total)
  ELSE Err

(* The text from left to right, from the state of the reader, if it has    *)
(* not refused yet.                                                        *)
ReadOne(r, token) == UNION {ReadToken(s, token) : s \in r}

ReadAll(r, text) ==
  LET upto[i \in 0..Len(text)] ==
        IF i = 0 THEN r ELSE ReadOne(upto[i - 1], text[i])
  IN  upto[Len(text)]

Parse(text) == UNION {Finish(s) : s \in ReadAll(Ok(Start), text)}

=============================================================================
