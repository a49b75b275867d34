SPECIFICATION FairSpec
CONSTANTS
  None = None
  DefaultSamples = 3
  MinAcceptedSamples = 2
  MaxRTT = 2
  MaxTrip = 3
  Diffs <- Apart
  MaxSteps = 2
INVARIANT TypeOK
INVARIANT OffsetIsClose
INVARIANT SkewsAddUp
INVARIANT FallbackIsSynced
PROPERTY SyncConverges
CHECK_DEADLOCK FALSE
