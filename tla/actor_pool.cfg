CONSTANTS
  h1 = h1
  h2 = h2
  h3 = h3
  t1 = t1
  t2 = t2
  Actors <- MCActors
  Threads <- MCThreads
  MaxTasks = 3
SPECIFICATION Spec
INVARIANTS
  TypeOK
  OneRunnablePerActor
  RunsInOrder
  WhoeverPlaysIsHeld
PROPERTIES
  EverythingRuns
  ImplementsMailbox
CHECK_DEADLOCK FALSE
