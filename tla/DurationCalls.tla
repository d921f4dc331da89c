--------------------------- MODULE DurationCalls ----------------------------
(***************************************************************************)
(* A caller that holds one Duration and keeps replacing it by the result   *)
(* of a call.  A method that returns Err leaves the caller with what it    *)
(* had, so its action is disabled.                                         *)
(***************************************************************************)
EXTENDS DurationOps

CONSTANTS
  Spans,          \* arguments that are durations
  Counts,         \* arguments that are counts of a unit (i64)
  Factors         \* arguments that are factors and divisors (i128)

ASSUME ArgumentAssumption ==
  Spans \subseteq Inst /\ Counts \subseteq Long /\ Factors \subseteq Inst

VARIABLE span

Init == span = 0

Return(result) == span' \in result

Units  == {UnitSizes[i] : i \in DOMAIN UnitSizes}
Scaled == {NsPerMicro, NsPerMilli}

-----------------------------------------------------------------------------
(* The constructors from a count; nanoseconds, microseconds and            *)
(* milliseconds take any i128.                                             *)
Build ==
  \/ \E n \in Counts, unit \in Units \ Scaled : Return(Ok(FromUnits(n, unit)))
  \/ \E n \in Counts \cup Spans, unit \in Scaled :
       Return(Ok(FromScaled(n, unit))) \/ Return(CheckedFromScaled(n, unit))
  \/ \E d \in Spans : Return(Ok(d))

(* The core::time::Durations at either end of the seconds and of the       *)
(* nanoseconds.                                                            *)
BuildStd ==
  \E secs \in {0, ULongMax}, nanos \in {0, NsPerSec - 1} :
    Return(Ok(FromStd([secs |-> secs, nanos |-> nanos])))

ChangeSign == Return(CheckedAbs(span)) \/ Return(CheckedNeg(span))

Combine ==
  \E d \in Spans :
    \/ Return(CheckedAdd(span, d))        \/ Return(CheckedSub(span, d))
    \/ Return(Ok(SaturatingAdd(span, d))) \/ Return(Ok(SaturatingSub(span, d)))

Scale ==
  \E k \in Factors :
    \/ Return(CheckedMul(span, k)) \/ Return(Ok(SaturatingMul(span, k)))
    \/ Return(CheckedDiv(span, k))

Next == Build \/ BuildStd \/ ChangeSign \/ Combine \/ Scale

Spec == Init /\ [][Next]_span

-----------------------------------------------------------------------------
(* The type invariant: a Duration is an i128.                              *)
TypeOK == span \in Inst

(* Truncation composes: the count of a coarse unit is the truncated count  *)
(* of the finer counts, for negative spans too, and a coarse accessor      *)
(* (num_weeks) never fails where a finer one (num_days) succeeds.          *)
UnitsNest ==
  \A i \in DOMAIN UnitSizes, j \in DOMAIN UnitSizes :
    i <= j =>
      \A n \in NumUnits(span, UnitSizes[i]) :
        NumUnits(span, UnitSizes[j]) = Ok(TruncDiv(n, UnitSizes[j] \div UnitSizes[i]))

(* checked_mul, checked_div and checked_div_duration are consistent: what  *)
(* a product succeeds in is divided back exactly, by the factor and by the *)
(* duration, and what is divided first comes back no longer than it was,   *)
(* never overflowing and short by less than the divisor.                   *)
ProductsDivideBack ==
  \A k \in Factors :
    /\ \A product \in CheckedMul(span, k) :
         /\ k # 0 => CheckedDiv(product, k) = Ok(span)
         /\ span # 0 => CheckedDivDuration(product, span) = Ok(k)
    /\ \A quotient \in CheckedDiv(span, k) :
         \E back \in CheckedMul(quotient, k) :
           /\ UnsignedAbs(back) <= UnsignedAbs(span)
           /\ UnsignedAbs(span - back) < UnsignedAbs(k)

(* A core::time::Duration exists exactly for spans of no negative length   *)
(* with a u64 of seconds, and keeps every nanosecond of them.              *)
StdKeepsSpan ==
  /\ ToStd(span) # Err <=> span \in 0..(ULongMax + 1) * NsPerSec - 1
  /\ \A s \in ToStd(span) : s.nanos \in 0..NsPerSec-1 /\ FromStd(s) = span

=============================================================================
