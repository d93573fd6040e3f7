CONSTANTS
  Alphabets <- MCAlphabets
  MaxLength <- MCMaxLength
  NumberBits = 4
  MaxExponent = 9
SPECIFICATION Spec
INVARIANTS
  AcceptedMeansItsValue
  RefusedIsNoDocument
  StacksAgree
CHECK_DEADLOCK FALSE
