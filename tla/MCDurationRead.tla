--------------------------- MODULE MCDurationRead ---------------------------
(***************************************************************************)
(* DurationRead with numbers of one digit and fractions of two: 100        *)
(* nanoseconds in a second, 3 seconds, 2 minutes and 2 hours in the units  *)
(* above.  Ten days are more than one digit can say.                       *)
(***************************************************************************)
EXTENDS DurationRead

MCInstMin == -131072
MCInstMax == 131071
MCLongMin == -4

Integer(n, digits) == [int |-> n, intDigits |-> digits, frac |-> 0, fracDigits |-> 0]
Decimal(n, digits, frac, fracDigits) ==
  [int |-> n, intDigits |-> digits, frac |-> frac, fracDigits |-> fracDigits]

(* 0, 1, 9, 10, 0.00, .5, 2.05, 9.99, 1.50 and 1.001                       *)
MCNumbers ==
  {Integer(0, 1), Integer(1, 1), Integer(9, 1), Integer(10, 2),
   Decimal(0, 1, 0, 2), Decimal(0, 0, 5, 1), Decimal(2, 1, 5, 2),
   Decimal(9, 1, 99, 2), Decimal(1, 1, 50, 2), Decimal(1, 1, 1, 3)}

=============================================================================
