CONSTANTS
  c1 = c1
  c2 = c2
  c3 = c3
  u1 = u1
  u2 = u2
  Usernames = {u1, u2}
  Passcodes = {p1}
  Channels = {germany_spain}
  SubscriptionIds = {i1}
  ConnectionIds = {c1, c2}
  MaxMessages = 1
  Null = Null
  ReceiptIds = {}
  Requests <- MCRequests
  NameOf <- TwoNames
SPECIFICATION Spec
INVARIANT SingleLogin
CHECK_DEADLOCK FALSE
