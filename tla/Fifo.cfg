CONSTANTS
  Data = {0, 1, 2}
  Filler = 2
  Depth = 4
SPECIFICATION Spec
INVARIANTS TypeOK PointersAgree
PROPERTY ImplementsQueue
