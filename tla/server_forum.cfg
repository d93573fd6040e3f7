CONSTANTS
  Usernames = {u1, u2}
  Passcodes = {p1, p2}
  Channels = {germany_spain}
  SubscriptionIds = {i1, i2}
  MaxConnections = 3
  MaxMessages = 1
  Null = Null
  ReceiptIds = {r1}
  Receipts = {Null, r1}
  Requests <- MCRequests
SYMMETRY Symmetry
SPECIFICATION PoliteSpec
INVARIANTS
  ListsAreExact
  ConnectedUserHasASession
PROPERTY ImplementsForum
CHECK_DEADLOCK FALSE
