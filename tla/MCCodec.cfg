CONSTANTS
  DateMin <- MCDateMin
  DateMax <- MCDateMax
  YearMin <- MCDateMin
  YearMax <- MCDateMax
  InstMin <- MCInstMin
  InstMax <- MCInstMax
  LongMin <- MCLongMin
  LongMax = 3
  ULongMax = 7
  NsPerMicro = 5
  NsPerMilli = 20
  NsPerSec = 100
  NsPerMin = 300
  NsPerHour = 600
  NsPerDay = 1200
  MaxIntDigits = 1
  MaxFracDigits = 2
  Numbers = {}
  Samples <- MCSamples
  ForeignWires <- MCForeignWires

SPECIFICATION Spec

INVARIANT OnlyValuesDecode
PROPERTY ValuesSurvive
