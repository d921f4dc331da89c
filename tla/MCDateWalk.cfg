CONSTANTS
  DateMin <- MCDateMin
  DateMax <- MCDateMax
  YearMin <- MCYearMin
  YearMax <- MCYearMax
  NsPerDay = 4
  Walks <- MCWalks
  KnownFaces <- MCKnownFaces

SPECIFICATION WalkSpec

PROPERTY ImplementsOdometer
