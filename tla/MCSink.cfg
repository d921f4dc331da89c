CONSTANTS
  Capacities = {0, 1, 4, 5}
  Slices <- MCSlices
  Formatters <- MCFormatters

SPECIFICATION SinkSpec

INVARIANT AsStrNeverPanics
INVARIANT FormatterIsAllOrPrefix
