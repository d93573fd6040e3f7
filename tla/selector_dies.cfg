CONSTANTS
  Handlers = {h1, h2}
  MaxFrames = 3
  Null = Null
SYMMETRY Symmetry
SPECIFICATION StaySpec
INVARIANT SelectorSurvives
CHECK_DEADLOCK FALSE
