CONSTANTS
  InstMin <- MCInstMin
  InstMax <- MCInstMax
  LongMin <- MCLongMin
  LongMax = 3
  ULongMax = 7
  NsPerMicro = 2
  NsPerMilli = 6
  NsPerSec = 12
  NsPerMin = 24
  NsPerHour = 48
  NsPerDay = 192
  Spans <- MCSpans
  Counts <- MCCounts
  Factors <- MCFactors

SPECIFICATION Spec

INVARIANT TypeOK
INVARIANT UnitsNest
INVARIANT ProductsDivideBack
INVARIANT StdKeepsSpan
