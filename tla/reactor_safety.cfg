CONSTANTS
  Handlers = {h1, h2}
  MaxFrames = 3
  Null = Null
SYMMETRY Symmetry
SPECIFICATION Spec
INVARIANTS
  TypeOK
  NoWakeupIsLost
CHECK_DEADLOCK FALSE
