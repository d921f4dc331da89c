---------------------------- MODULE DurationRead ----------------------------
(***************************************************************************)
(* parse_duration_iso (format.rs) on every text, token by token: `text` is *)
(* what was read so far, `scan` the state of the reader, Err once it has   *)
(* refused.  At any point the text may end, and another one is read.       *)
(***************************************************************************)
EXTENDS DurationText

VARIABLES text, scan

readerVars == <<text, scan>>

ReaderInit == text = <<>> /\ scan = Ok(Start)

ReadOn ==
  \E token \in Tokens, s \in scan :
    /\ text' = Append(text, token)
    /\ scan' = ReadToken(s, token)

AnotherText == text # <<>> /\ text' = <<>> /\ scan' = Ok(Start)

ReaderNext == ReadOn \/ AnotherText

ReaderSpec == ReaderInit /\ [][ReaderNext]_readerVars

(* What the caller gets when the text ends here.                           *)
Result == UNION {Finish(s) : s \in scan}

-----------------------------------------------------------------------------
Rank == [W |-> 6, D |-> 5, T |-> 4, H |-> 3, M |-> 2, S |-> 1]

(* The grammar of the doc comment on parse_duration_iso, as a condition on *)
(* a whole text: a sign and a P, then designators from the longest to the  *)
(* shortest with T on its place among them, weeks alone or none at all,    *)
(* and a fraction on the last number only.                                 *)
IsDuration(t) ==
  \E p \in 1..2 :
    LET body == p+1..Len(t)
    IN  /\ body # {} /\ t[p] = Byte("P") /\ (p = 2 => t[1] = Byte("-"))
        /\ \A i \in body :
             /\ t[i].byte \in DOMAIN Rank
             /\ IF t[i].byte = "T" THEN i < Len(t) /\ t[i].number = NoNumber
                ELSE IsNumber(t[i].number)
             /\ t[i].byte = "W" => Len(t) = p + 1
             /\ t[i].byte \in TimeUnits => \E j \in body : t[j].byte = "T"
        /\ \A i, j \in body :
             i < j => Rank[t[i].byte] > Rank[t[j].byte] /\ t[i].number.fracDigits = 0

(* The reader, with its flags and its look at the next byte, accepts       *)
(* exactly the grammar.  It never refuses such a text for its size.        *)
AcceptsExactlyIso == Result # Err <=> IsDuration(text)

(* What the components of a text add up to, shifted so far that the digits *)
(* of its fractions are whole.                                             *)
Shifted(token) ==
  LET n == token.number
  IN  IF token.byte \in DOMAIN UnitOf
      THEN UnitOf[token.byte] *
             (n.int * 10^MaxFracDigits + n.frac * 10^(MaxFracDigits - n.fracDigits))
      ELSE 0

Sum(t) ==
  LET upto[i \in 0..Len(t)] == IF i = 0 THEN 0 ELSE upto[i - 1] + Shifted(t[i])
  IN  upto[Len(t)]

(* A text means the sum of its components, exactly, fractions of minutes,  *)
(* hours, days and weeks included, under one sign: add_duration_component  *)
(* divides, but never with a remainder.                                    *)
ValueIsExact ==
  \A d \in Result :
    /\ d \in Inst
    /\ d * 10^MaxFracDigits = IF text[1].byte = "-" THEN -Sum(text) ELSE Sum(text)

(* What was read and is written again reads as the same duration, unless   *)
(* its days have more digits than the reader takes: weeks, or hours next   *)
(* to days, can add up to so many.                                         *)
RewritingReadsBack ==
  \A d \in Result :
    Parse(Format(d)) = IF UnsignedAbs(d) \div NsPerDay <= MaxInt THEN Ok(d) ELSE Err

(* README.md of the crate: "Durations are signed and round-trip ISO 8601   *)
(* exactly."  Not so beyond the digits a number may have.                  *)
RoundTripsExactly == \A d \in Result : Parse(Format(d)) = Ok(d)

=============================================================================
