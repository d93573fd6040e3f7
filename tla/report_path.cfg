CONSTANTS
  Throws = Throws
  IntWidth = 4
  Plans <- MCPlans
  Readers <- OnlyBenzi
  Users <- MCUsers
  Joined <- BothJoined
  JoinedInOrder <- MeniFirst
  Files <- MCFiles
SPECIFICATION Spec
INVARIANTS
  TypeOK
  StoredReportsAreWhole
  SummaryTellsTheReports
  PlainReportsAreHarmless
  PlainReportsKeepTheConnection
  ReportsArrive
CHECK_DEADLOCK FALSE
