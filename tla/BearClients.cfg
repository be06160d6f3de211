SPECIFICATION Spec
CONSTANTS
  plain = plain
  fancy = fancy
  Forms = {plain, fancy}
  InitialBears <- OneBear
  Clients = {ann}
  Slots = {one, two}
  MaxId = 2
SYMMETRY Symmetry
CONSTRAINT Short
INVARIANTS
  TypeOK
  IdsIncrease
  InSync
PROPERTY ImplementsTable
