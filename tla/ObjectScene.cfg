SPECIFICATION Spec
CONSTANTS
  Objects = {chair, lamp}
  HitSets <- OneAlignment
  MaxTimers = 1
  MaxPlacements = 1
  RaycastIds = {r1, r2, r3}
  AnchorIds = {a1, a2, a3}
  MaxQueue = 1
  None = None
SYMMETRY Symmetry
INVARIANTS
  SceneShowsLoaded
  RaycastsAreOwned
  GesturesActOnLoaded
PROPERTY AnchorsAskedForLoaded
CONSTRAINT CalmOneDragRemoved
VIEW WithoutPositions
CHECK_DEADLOCK FALSE
