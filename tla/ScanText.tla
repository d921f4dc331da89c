------------------------------ MODULE ScanText ------------------------------
(***************************************************************************)
(* Texts and the Scanner that reads them (format.rs, shared with           *)
(* strftime.rs).                                                           *)
(*                                                                         *)
(* A text is a sequence of tokens: a single byte, a name, or some digits   *)
(* with the number they spell.  Digits that follow one another in a text   *)
(* are one run for a reader, and so are names, wherever the tokens begin.  *)
(* A reader of the code moves a position along the bytes; here it goes     *)
(* from a scan, the values got and the text left, to the next one.         *)
(***************************************************************************)
EXTENDS DateOps, SequencesExt

Char(b)       == [byte |-> b, value |-> 0, digits |-> 0]
Name(kind, v) == [byte |-> kind, value |-> v, digits |-> 0]
Digits(v, n)  == [byte |-> "9", value |-> v, digits |-> n]

(* A name is known to a reader by what it names: a day of the week, a month, *)
(* a zone of RFC 2822 by its offset.  "UTC" is that zone's name in every     *)
(* reader, a "word" is no name; some letters are bytes of their own.       *)
Letters == {"weekday", "month", "zone", "UTC", "word",
            "T", "t", "Z", "z", "a", "p", "m"}

IsDigits(token) == token.byte = "9"
IsName(token)   == token.byte \in Letters

DigitCount(n) ==
  IF n = 0 THEN 1 ELSE CHOOSE k \in 1..10 : 10^(k - 1) <= n /\ n \div 10^(k - 1) < 10

(* write_padded: zeros up to a width, and the digits it takes beyond.       *)
WritePadded(n, width) == <<Digits(n, Max({width, DigitCount(n)}))>>

-----------------------------------------------------------------------------
NextIs(text, bytes) == text # <<>> /\ text[1].byte \in bytes

(* How many tokens at the head of the text have one of the bytes.          *)
LeadOf(text, bytes) ==
  CHOOSE n \in 0..Len(text) :
    /\ \A i \in 1..n : text[i].byte \in bytes
    /\ n < Len(text) => text[n + 1].byte \notin bytes

SkipSpaces(text) == SubSeq(text, LeadOf(text, {" "}) + 1, Len(text))

DigitsAhead(text) ==
  LET run == LeadOf(text, {"9"})
      upto[i \in 0..run] == IF i = 0 THEN 0 ELSE upto[i - 1] + text[i].digits
  IN  upto[run]

(* As many digits of a run as there are, up to `max`.                      *)
NoDigits == [value |-> 0, digits |-> 0, rest |-> <<>>]

TakeToken(n, token, max) ==
  LET k    == Lesser(max - n.digits, token.digits)
      left == token.digits - k
  IN  [value  |-> n.value * 10^k + token.value \div 10^left,
       digits |-> n.digits + k,
       rest   |-> IF left = 0 THEN n.rest
                  ELSE Append(n.rest, Digits(token.value % 10^left, left))]

TakeDigits(text, max) ==
  LET run == LeadOf(text, {"9"})
      upto[i \in 0..run] ==
        IF i = 0 THEN NoDigits ELSE TakeToken(upto[i - 1], text[i], max)
  IN  [upto[run] EXCEPT !.rest = @ \o SubSeq(text, run + 1, Len(text))]

ReadNumber(text, min, max) ==
  {n \in {TakeDigits(text, max)} : n.digits >= min}

(* The next name, a whole run of letters, if it is one of the kind.         *)
ReadName(text, kind) ==
  IF LeadOf(text, Letters) = 1 /\ text[1].byte = kind
  THEN Ok([value |-> text[1].value, rest |-> Tail(text)])
  ELSE Err

-----------------------------------------------------------------------------
(* What a reader expects next: one of some bytes, or digits.               *)
Expect(bytes)    == [bytes |-> bytes, min |-> 0, max |-> 0]
Number(min, max) == [bytes |-> {}, min |-> min, max |-> max]

Two      == Number(2, 2)
Colon    == Expect({":"})
Start(t) == [got |-> <<>>, rest |-> t]

ScanItem(s, item) ==
  IF item.max > 0
  THEN {[got |-> Append(s.got, n.value), rest |-> n.rest] :
          n \in ReadNumber(s.rest, item.min, item.max)}
  ELSE IF NextIs(s.rest, item.bytes)
       THEN Ok([s EXCEPT !.rest = Tail(@)])
       ELSE Err

(* The items of a pattern one after the other, on all that was read.       *)
ScanAll(result, item) == UNION {ScanItem(q, item) : q \in result}

Scan(s, pattern) ==
  LET upto[i \in 0..Len(pattern)] ==
        IF i = 0 THEN Ok(s) ELSE ScanAll(upto[i - 1], pattern[i])
  IN  upto[Len(pattern)]

(* A part that is read if it starts with one of the bytes; if not, its      *)
(* value is 0.                                                             *)
ScanOptional(s, bytes, pattern) ==
  IF NextIs(s.rest, bytes) THEN Scan(s, pattern)
  ELSE Ok([s EXCEPT !.got = Append(@, 0)])

=============================================================================
