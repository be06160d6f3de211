SPECIFICATION Spec
CONSTANTS
  Objects = {chair, lamp}
  HitSets <- AnyAlignment
  MaxTimers = 2
  MaxPlacements = 2
SYMMETRY Symmetry
INVARIANT RestartStaysDisabled
CHECK_DEADLOCK FALSE
