CONSTANTS
  Usernames = {u1, u2}
  Passcodes = {p1, p2}
  Channels = {germany_spain, brazil_peru}
  SubscriptionIds = {i1, i2}
  MaxConnections = 2
  MaxMessages = 1
  Null = Null
  ReceiptIds = {r1}
  Receipts = {Null, r1}
  Requests <- MCRequests
SYMMETRY Symmetry
SPECIFICATION Spec
INVARIANTS
  TypeOK
  SingleLogin
  UsersMatchSessions
  SubscribersAreListed
  SubscriptionIdLeadsToItsChannel
  ErrorsEndTheConnection
PROPERTIES
  ConnectionsDoNotInterfere
  EverySubscriberGetsTheReport
CHECK_DEADLOCK FALSE
