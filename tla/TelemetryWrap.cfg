CONSTANTS
  IntervalSecs = 1
  TickWidth = 11
SPECIFICATION Spec
PROPERTY SnapshotsEvenlySpaced
