SPECIFICATION Spec
CONSTANTS
  Objects = {chair}
  HitSets <- OneAlignment
  MaxTimers = 1
  MaxPlacements = 1
  RaycastIds = {r1, r2}
  AnchorIds = {a1, a2}
  MaxQueue = 2
  None = None
SYMMETRY Symmetry
INVARIANTS
  TypeOK
  OneAnchorPerObject
  AnchorsHoldObjects
CONSTRAINT NotAbandoned
CHECK_DEADLOCK FALSE
