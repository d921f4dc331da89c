CONSTANTS
  DateMin <- MCDateMin
  DateMax <- MCDateMax
  YearMin <- MCDateMin
  YearMax <- MCDateMax
  NsPerDay = 4
  Tasks <- MCTasks
  MaxItems = 3

SPECIFICATION Spec

INVARIANT WritersReadBack
INVARIANT ReadsExactlyIso
INVARIANT MailReadsOneDate
INVARIANT PackedFormatsReadBack
INVARIANT HalvesAreRead

CHECK_DEADLOCK FALSE
