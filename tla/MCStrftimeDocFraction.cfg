CONSTANTS
  DateMin <- MCDateMin
  DateMax <- MCDateMax
  YearMin <- MCDateMin
  YearMax <- MCDateMax
  NsPerDay = 4
  Kits <- MCFractionKits

SPECIFICATION Spec

INVARIANT DirectivesReadTheirText
