CONSTANTS
  DateMin <- MCDateMin
  DateMax <- MCDateMax
  YearMin = 1900
  YearMax = 2000
  InstMin <- MCInstMin
  InstMax <- MCInstMax
  LongMin <- MCLongMin
  LongMax <- MCLongMax
  NsPerSec = 3
  SecsPerDay = 2
  NsPerDay = 6
  Durations   <- MCDurations
  DayCounts   <- MCDayCounts
  MonthCounts <- MCMonthCounts
  YearCounts  <- MCYearCounts
  Marks       <- MCMarks
  StampUnits  = {1, 2, 3}

SPECIFICATION Spec

INVARIANT TypeOK
INVARIANT ReadingsAnchorBack
INVARIANT CivilArithmeticAgrees
INVARIANT SaturationKeepsOrder
INVARIANT DifferencesRecover
INVARIANT TimestampsIdentifyInstant
PROPERTY ReadingsFollowInstants
PROPERTY ImplementsWallClock
