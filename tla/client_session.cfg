CONSTANTS
  Usernames = {u1, u2}
  Passcodes = {p1}
  Channels = {germany_spain, brazil_peru}
  MaxConnections = 2
  MaxMessages = 10
  MaxLines = 4
  Null = Null
  Sockets <- MCSockets
  SubscriptionIds <- MCSubscriptionIds
  ReceiptIds <- MCReceiptIds
  Lines <- MCLines
  Requests <- ClientRequests
SPECIFICATION Spec
INVARIANTS
  TypeOK
  LoggedOutAtThePrompt
  ExitsLeaveOtherGames
  QuietSessionIsAlive
CHECK_DEADLOCK FALSE
PROPERTIES
  LogoutEndsTheSession
  ErrorEndsTheThreads
