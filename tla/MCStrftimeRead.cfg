CONSTANTS
  DateMin <- MCDateMin
  DateMax <- MCDateMax
  YearMin <- MCDateMin
  YearMax <- MCDateMax
  NsPerDay = 4
  Kits <- MCKits

SPECIFICATION Spec

INVARIANT OnlyTheseFail
INVARIANT DateIsRecovered
INVARIANT TimeIsRecovered
INVARIANT InstantIsRecovered
INVARIANT ResolvedDateShowsFields
PROPERTY MoreIsNeverLess
