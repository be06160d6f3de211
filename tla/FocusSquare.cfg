SPECIFICATION Spec
CONSTANTS
  Planes = {floor}
  MaxBlocks = 2
  UpdateEvery = 3
INVARIANTS
  TypeOK
  SegmentsNeverDrift
  PulsesWhileOpen
  FlashesOnce
PROPERTIES
  SettlesOnSurface
  HiddenBehindObjects
