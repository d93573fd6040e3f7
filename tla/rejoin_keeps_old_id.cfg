CONSTANTS
  Usernames = {u1}
  Passcodes = {p1}
  Channels = {germany_spain, brazil_peru}
  MaxConnections = 2
  MaxMessages = 10
  MaxLines = 4
  Null = Null
  Sockets <- MCSockets
  SubscriptionIds <- MCSubscriptionIds
  ReceiptIds <- MCReceiptIds
  Lines <- MCLines
  Requests <- ClientRequests
SPECIFICATION Spec
INVARIANT JoinedIdIsKept
CHECK_DEADLOCK FALSE
