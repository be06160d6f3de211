SPECIFICATION Spec
CONSTANTS
  Objects = {chair}
  HitSets <- OneAlignment
  MaxTimers = 2
  MaxPlacements = 2
  Troubles = {"excessiveMotion", "relocalizing"}
INVARIANTS
  TypeOK
  AdviceFitsTracking
  HideTimerFitsMessage
  ControlsReachable
  HintOnlyWithoutSurface
  BlurIsExplained
  PlacedIsVisible
CHECK_DEADLOCK FALSE
