CONSTANTS
  \* 1999-12-16, a Thursday, to 2001-02-20, a Tuesday
  DateMin = 10941
  DateMax = 11373
  YearMin = 1999
  YearMax = 2002
  NsPerDay = 4
  DayCounts   <- MCDayCounts
  SignedDays  <- MCSignedDays
  MonthCounts <- MCMonthCounts
  YearCounts  <- MCYearCounts
  DurationsNs <- MCDurations
  Years       <- MCYears
  MonthNumbers <- MCMonthNumbers
  DayNumbers   <- MCDayNumbers
  ChainBound = 13

SPECIFICATION Spec

INVARIANT TypeOK
INVARIANT ChainKeepsMonth
INVARIANT ChainNeverAhead
INVARIANT MonthStepsKeepOrder
INVARIANT SearchesFindNearest
INVARIANT DurationsDriftBackwards
INVARIANT AccessorsIdentifyDate
