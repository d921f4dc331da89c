---------------------------- MODULE StrftimeText ----------------------------
(***************************************************************************)
(* The strftime engine (strftime.rs) on texts: how a format string lays    *)
(* out what its directives write, side by side and padded, and where the   *)
(* reader of each directive stops.  What is written and what becomes of a  *)
(* value that was read is StrftimeOps, here Engine.                        *)
(*                                                                         *)
(* A format is a sequence of items: directives with a padding modifier and *)
(* a width, and literals.                                                  *)
(***************************************************************************)
EXTENDS Rfc2822

Engine == INSTANCE StrftimeOps

Directive(d, pad, width) == [directive |-> d, pad |-> pad, width |-> width]
Plain(d)   == Directive(d, "0", 0)
Literal(b) == Directive("literal", b, 0)
Exactly(b) == Directive("exact", b, 0)

(* Directives that differ from another one in layout or not at all.        *)
Same == [e |-> "d", k |-> "H", l |-> "I", P |-> "p", A |-> "a", B |-> "b", h |-> "b"]

BaseOf(d) == IF d \in DOMAIN Same THEN Same[d] ELSE d

(* The digits a directive writes at least and reads at most.               *)
Layout ==
  [Y |-> <<4, 9>>, G |-> <<4, 9>>, C |-> <<2, 2>>, y |-> <<2, 2>>, m |-> <<2, 2>>,
   d |-> <<2, 2>>, j |-> <<3, 3>>, H |-> <<2, 2>>, I |-> <<2, 2>>, M |-> <<2, 2>>,
   S |-> <<2, 2>>, f |-> <<9, 9>>, g |-> <<2, 2>>, V |-> <<2, 2>>, u |-> <<1, 1>>,
   w |-> <<1, 1>>, U |-> <<2, 2>>, W |-> <<2, 2>>, s |-> <<1, 18>>]

Signed == {"Y", "G", "s"}

PadOf(item) ==
  IF item.directive \in {"e", "k", "l"} THEN "_"
  ELSE IF item.directive = "f" THEN "0" ELSE item.pad

WidthOf(item) ==
  IF item.directive \in {"Y", "G"} THEN Max({4, item.width})
  ELSE Layout[BaseOf(item.directive)][1]

(* The composite directives hand their padding down.                       *)
Expand(item) ==
  LET D(d) == [item EXCEPT !.directive = d]
  IN  CASE item.directive = "F" ->
             <<D("Y"), Exactly("-"), D("m"), Exactly("-"), D("d")>>
        [] item.directive \in {"D", "x"} ->
             <<D("m"), Exactly("/"), D("d"), Exactly("/"), D("y")>>
        [] item.directive = "R" -> <<D("H"), Exactly(":"), D("M")>>
        [] item.directive \in {"T", "X"} ->
             <<D("H"), Exactly(":"), D("M"), Exactly(":"), D("S")>>
        [] item.directive = "r" ->
             <<D("I"), Exactly(":"), D("M"), Exactly(":"), D("S"), Exactly(" "), D("p")>>
        [] OTHER -> <<item>>

Items(format) == FlattenSeq([i \in DOMAIN format |-> Expand(format[i])])

-----------------------------------------------------------------------------
(* What one item writes of a value, given its View.                        *)
Kinds == [a |-> "weekday", b |-> "month"]

WriteValue(item, v) ==
  LET d == BaseOf(item.directive)
  IN  CASE d \in DOMAIN Kinds  -> <<Name(Kinds[d], v)>>
        [] d = "p"             -> <<Char(IF v THEN "p" ELSE "a"), Char("m")>>
        [] d = "Z"             -> <<Name("UTC", v)>>
        [] d = "z"             -> PushOffset(v, FALSE)
        [] d = ":z"            -> PushOffset(v, TRUE)
        [] OTHER               -> EmitSigned(v, WidthOf(item), PadOf(item))

WriteItem(item, view) ==
  CASE item.directive \in {"literal", "exact"} -> <<Char(item.pad)>>
    [] item.directive = ".f" ->
         IF item.width = 0 THEN WriteFraction(view.time.nanos, "Auto")
         ELSE <<Char("."), Digits(view.time.nanos \div 10^(9 - item.width), item.width)>>
    [] item.directive = "+" ->
         EmitSigned(view.year, 4, item.pad) \o <<Char("-")>>
           \o PadNum(view.month, 2, item.pad) \o <<Char("-")>>
           \o PadNum(view.day, 2, item.pad) \o <<Char("T")>>
           \o PadNum(view.time.hour, 2, item.pad) \o <<Char(":")>>
           \o PadNum(view.time.minute, 2, item.pad) \o <<Char(":")>>
           \o PadNum(view.time.second, 2, item.pad)
           \o WriteFraction(view.time.nanos, "Auto")
           \o WriteOr(view.offset, LAMBDA o : PushOffset(o, TRUE), <<Char("Z")>>)
    [] OTHER ->
         WriteOr(Engine!Written(BaseOf(item.directive), view),
                 LAMBDA v : WriteValue(item, v), <<>>)

WriteItems(items, view) ==
  FlattenSeq([i \in DOMAIN items |-> WriteItem(items[i], view)])

-----------------------------------------------------------------------------
(* The reader: ParsedParts and the text left.                              *)
Found(d, n, pp) == {[pp |-> p, rest |-> n.rest] : p \in Engine!Read(d, n.value, pp)}

(* Mutant: the reader of a year takes the digits of the width only.        *)
ReadDigitsNarrow(item, text, pp) ==
  LET d    == BaseOf(item.directive)
      sign == IF d \in Signed /\ NextIs(text, {"-"}) THEN -1 ELSE 1
      body == IF d \in Signed /\ NextIs(text, {"-", "+"}) THEN Tail(text) ELSE text
  IN  UNION {Found(d, [n EXCEPT !.value = sign * @], pp) :
               n \in ReadNumber(IF PadOf(item) = "_" THEN SkipSpaces(body) ELSE body,
                                IF d = "f" THEN 9 ELSE 1, Layout[d][1])}

ReadDigits(item, text, pp) ==
  LET d    == BaseOf(item.directive)
      sign == IF d \in Signed /\ NextIs(text, {"-"}) THEN -1 ELSE 1
      body == IF d \in Signed /\ NextIs(text, {"-", "+"}) THEN Tail(text) ELSE text
  IN  UNION {Found(d, [n EXCEPT !.value = sign * @], pp) :
               n \in ReadNumber(IF PadOf(item) = "_" THEN SkipSpaces(body) ELSE body,
                                IF d = "f" THEN 9 ELSE 1, Layout[d][2])}

(* No letters at all take the field away; letters must be a name.          *)
ReadNamed(d, text, pp) ==
  IF text = <<>> \/ ~IsName(text[1])
  THEN Ok([pp |-> Engine!ReadNoName(d, pp), rest |-> text])
  ELSE UNION {Found(d, n, pp) : n \in ReadName(text, Kinds[d])}

(* Mutant: a word that does not match leaves the text as it is.            *)
EatCiWhole(text, word) ==
  LET matched == Len(word) <= Len(text) /\ \A i \in DOMAIN word : text[i].byte = word[i]
  IN  [matched |-> matched,
       rest    |-> IF matched THEN SubSeq(text, Len(word) + 1, Len(text)) ELSE text]

(* A text too short is left alone, but of one that is long enough the      *)
(* letters that do match are gone even if the whole word does not.         *)
EatCi(text, word) ==
  LET Matches(k) == \A i \in 1..k : text[i].byte = word[i]
      k == IF Len(text) < Len(word) THEN 0
           ELSE Max({n \in 0..Len(word) : Matches(n)})
  IN  [matched |-> k = Len(word), rest |-> SubSeq(text, k + 1, Len(text))]

ReadHalf(text, pp) ==
  LET am == EatCi(text, <<"a", "m">>)
      pm == EatCi(am.rest, <<"p", "m">>)
  IN  IF am.matched THEN Found("p", [value |-> FALSE, rest |-> am.rest], pp)
      ELSE IF pm.matched THEN Found("p", [value |-> TRUE, rest |-> pm.rest], pp)
      ELSE Err

ReadFraction(item, text, pp) ==
  IF item.width = 0
  THEN IF NextIs(text, {"."})
       THEN UNION {Found(".f", [value |-> s.got[1], rest |-> s.rest], pp) :
                     s \in ScanFraction(Start(text))}
       ELSE Err
  ELSE UNION {Found(".f", [value |-> s.got[1] * 10^(9 - item.width), rest |-> s.rest], pp) :
                s \in Scan(Start(text), <<Expect({"."}), Number(item.width, item.width)>>)}

(* `%+` is an RFC 3339 text up to the end.                                 *)
Timestamped(pp, ymd, t, offset) ==
  [pp EXCEPT !.year = {ymd.year}, !.month = {ymd.month}, !.day = {ymd.day},
             !.hour = {t.hour}, !.minute = {t.minute}, !.second = {t.second},
             !.nanos = {t.nanos}, !.offset = {offset}]

ReadTimestamp(text, pp) ==
  UNION {{[pp |-> Timestamped(pp, CivilFromDays(c.date), c.time, s.got[8]),
           rest |-> <<>>] : c \in CivilOf(s)} : s \in ScanIso(text, TRUE, TRUE)}

ReadItem(item, text, pp) ==
  LET d == BaseOf(item.directive)
      Kept(rest) == Ok([pp |-> pp, rest |-> rest])
  IN  CASE d = "literal" /\ item.pad = " " -> Kept(SkipSpaces(text))
        [] d \in {"literal", "exact"} /\ ~(d = "literal" /\ item.pad = " ") ->
             IF NextIs(text, {item.pad}) THEN Kept(Tail(text)) ELSE Err
        [] d = "+"             -> ReadTimestamp(text, pp)
        [] d = ".f"            -> ReadFraction(item, text, pp)
        [] d \in DOMAIN Kinds  -> ReadNamed(d, text, pp)
        [] d = "p"             -> ReadHalf(text, pp)
        [] d = "Z"             ->
             UNION {Found("Z", n, pp) : n \in ReadName(text, "UTC") \cup ReadName(text, "Z")}
        [] d \in {"z", ":z"}   ->
             UNION {Found(":z", [value |-> s.got[1], rest |-> s.rest], pp) :
                      s \in ScanOffset(Start(text))}
        [] d \in DOMAIN Layout -> ReadDigits(item, text, pp)

ReadItems(items, text) ==
  {s.pp : s \in {q \in
     FoldLeft(LAMBDA r, item : UNION {ReadItem(item, s.rest, s.pp) : s \in r},
              Ok([pp |-> Engine!Empty, rest |-> text]), items) : q.rest = <<>>}}

=============================================================================
