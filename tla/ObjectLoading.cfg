SPECIFICATION FairSpec
CONSTANTS
  Objects = {chair, lamp}
  HitSets <- AnyAlignment
  MaxTimers = 2
  MaxPlacements = 2
INVARIANTS
  TypeOK
  OneLoadAtATime
  NeverLoadedTwice
  LoadOwnsTheScreen
  MenuMirrorsLoaded
  CalmNeverCrashes
  ControlsAreOwed
PROPERTY ControlsComeBack
CHECK_DEADLOCK FALSE
