CONSTANTS
  Handlers = {h1, h2}
  MaxFrames = 3
  Null = Null
SPECIFICATION StaySpec
PROPERTY EverythingQueuedIsWritten RefusedIsClosed
CHECK_DEADLOCK FALSE
