CONSTANTS
  HoursPerDay = 2
  MinutesPerHour = 3
  SecondsPerMinute = 2
  MillisPerSecond = 2
  NsPerMilli = 2
  InstMin <- MCInstMin
  InstMax <- MCInstMax
  LongMin <- MCLongMin
  LongMax = 3
  Durations <- MCDurations
  DaysBound = 4

SPECIFICATION Spec

INVARIANT TypeOK
INVARIANT LedgerBalances
