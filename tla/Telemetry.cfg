CONSTANTS
  IntervalSecs = 1
  TickWidth = 11
SPECIFICATION Spec
INVARIANT TypeOK
INVARIANT SnapshotsNeverLate
PROPERTY EarlySnapshotOnlyAtWrap
