------------------------------ MODULE ClientServer ------------------------------
(***************************************************************************)
(* The client of StompClient with the server of StompServer: the frames    *)
(* one writes reach the other in order.  A connection's socket stays up    *)
(* until one side closes it.                                               *)
(***************************************************************************)
EXTENDS StompClient

CONSTANTS MaxConnections, MaxMessages

ASSUME ConnectionsAssumption == Sockets = 0 .. MaxConnections - 1

ASSUME BoundsAssumption == MaxConnections \in Nat /\ MaxMessages \in Nat

ASSUME SocketsAssumption == Null \notin {"open", "closed"}

(* The frames the client makes of lines are among those the server may be sent. *)
ClientRequests ==
       {ConnectFrame(l) : l \in {k \in Lines : k.command = "login"}}
  \cup {WrongFrame}
  \cup {With(Frame("SEND", SendHeaders, Null), "destination", g) : g \in Channels}
  \cup {With(With(Frame("SUBSCRIBE", SubscribeHeaders, r), "destination", g), "id", i)
          : r \in ReceiptIds, g \in Channels, i \in SubscriptionIds}
  \cup {With(Frame("UNSUBSCRIBE", UnsubscribeHeaders, r), "id", i)
          : r \in ReceiptIds, i \in SubscriptionIds}
  \cup {Frame("DISCONNECT", {}, r) : r \in ReceiptIds}

ASSUME ClientRequestsAssumption == ClientRequests \subseteq Requests

VARIABLES
  connectionIdToConnectionHandler, connectionIdToUsername, channelToConnectionIdsList,
  nextMessageId, passcode, isConnected, subscriptionIdToChannel, channelToSubscriptionId,
  shouldTerminate, sent, nextConnectionId

Server == INSTANCE StompServer

serverVars ==
  <<connectionIdToConnectionHandler, connectionIdToUsername, channelToConnectionIdsList,
    nextMessageId, passcode, isConnected, subscriptionIdToChannel, channelToSubscriptionId,
    shouldTerminate, sent, nextConnectionId>>

vars == <<clientVars, serverVars>>

Init == ClientInit /\ Server!Init

-----------------------------------------------------------------------------
ServerIsOpen(c) == connectionIdToConnectionHandler[c] = "open"

(* The user types a line at the prompt.  A login connects, and the server accepts. *)
TypeAtPrompt(l) ==
  \/ /\ Server!Accept
     /\ LogIn(l, nextConnectionId)
  \/ /\ Quit(l)
     /\ UNCHANGED serverVars

(* The user types a line in the session. *)
TypeInSession(l) == GetLine(l) /\ UNCHANGED serverVars

Main     == MainStep /\ UNCHANGED serverVars
Keyboard == KeyboardStep(ServerIsOpen(connection)) /\ UNCHANGED serverVars
Listener == ReadFrame /\ UNCHANGED serverVars

(* What the server sends to the session arrives; other sockets are closed. *)
Deliver ==
  toClient' = [c \in Sockets |->
                 IF c = connection THEN toClient[c] \o sent'[c] ELSE toClient[c]]

notSocket == <<program, connection, keyboardVars, listener,
               keyBoardListenerShouldTerminate, protocolVars, typed>>

Receive(c) ==
  /\ toServer[c] # <<>>
  /\ Server!Receive(c, Head(toServer[c]))
  /\ toServer' = [toServer EXCEPT ![c] = Tail(@)]
  /\ Deliver
  /\ UNCHANGED notSocket

(* The server closes the socket: what it has not read is lost. *)
Close(c) ==
  /\ Server!LeaveLoop(c)
  /\ toServer' = [toServer EXCEPT ![c] = <<>>]
  /\ UNCHANGED <<notSocket, toClient>>

(* The client has closed the socket, and its last frame has been read. *)
EndOfStream(c) ==
  /\ c # connection
  /\ toServer[c] = <<>>
  /\ Server!ConnectionLost(c)
  /\ UNCHANGED clientVars

ServerThread(c) == Receive(c) \/ Close(c) \/ EndOfStream(c)

Next ==
  \/ \E l \in Lines : TypeAtPrompt(l) \/ TypeInSession(l)
  \/ Main \/ Keyboard \/ Listener
  \/ \E c \in Sockets : ServerThread(c)

(* Threads that can go on do; nobody makes the user type. *)
Fairness ==
  /\ WF_vars(Main) /\ WF_vars(Keyboard) /\ WF_vars(Listener)
  /\ \A c \in Sockets : WF_vars(ServerThread(c))

Spec == Init /\ [][Next]_vars /\ Fairness

-----------------------------------------------------------------------------
(* Properties *)

(* The variables hold values of their types: what is sent is a frame the server knows,
   and a session has a connection. *)
TypeOK ==
  /\ program \in {"prompt", "answer", "session", "ended"}
  /\ connection \in OrNull(Sockets)
  /\ connection # Null <=> program \in {"answer", "session"}
  /\ keyboard \in {"test", "getline", "process", "processed", "send", "write", "sleep", "done"}
  /\ line \in OrNull(Lines)
  /\ framesAsStringsQ \in Seq(Requests)
  /\ listener \in {"read", "done"}
  /\ keyBoardListenerShouldTerminate \in BOOLEAN
  /\ nextSubscriptionId \in 0 .. MaxLines /\ nextRecieptNumber \in 0 .. MaxLines
  /\ gameNameToSubscriptionId \in [Channels -> OrNull(SubscriptionIds)]
  /\ receiptIdToPrintMessage \in [ReceiptIds -> OrNull({Joined, Exited, LoggedOut})]
  /\ toServer \in [Sockets -> Seq(Requests)]
  /\ typed \in 0 .. MaxLines
  /\ Server!TypeOK

(* Back at the prompt the client is logged in on no connection: its two ways to end a
   session, the receipt of a logout and an ERROR, are read only when the server has
   ended it too (processFromServer, runServerListener; disconnectProcess,
   createRegularErrorFrameAndSendAndDisconnect). *)
LoggedOutAtThePrompt ==
  program \in {"prompt", "ended"} => \A c \in Sockets : connectionIdToUsername[c] = Null

(* An exit never ends the subscription to another game: the id the client keeps for a
   game is the server's id of that game or of none, whatever was joined, left, refused
   and logged in as before (stringToFrameFromKB, User.subscribe). *)
ExitsLeaveOtherGames ==
  \A g \in Channels :
    /\ program = "session"
    /\ connectionIdToUsername[connection] # Null
    /\ gameNameToSubscriptionId[g] # Null
    => subscriptionIdToChannel[connectionIdToUsername[connection]][gameNameToSubscriptionId[g]]
         \in {g, Null}

(* Both threads wait, nothing is under way. *)
Quiet ==
  /\ program = "session"
  /\ keyboard = "getline"
  /\ listener = "read"
  /\ ~keyBoardListenerShouldTerminate
  /\ toServer[connection] = <<>>
  /\ toClient[connection] = <<>>

(* A client that waits for its user is in a session: whenever the server ends one it
   tells the client so, in a frame that the client takes for the end
   (ConnectionHandler.cpp:223, shouldTerminate). *)
QuietSessionIsAlive ==
  Quiet => ServerIsOpen(connection) /\ connectionIdToUsername[connection] # Null

DisconnectSent ==
  /\ At("sleep")
  /\ framesAsStringsQ[1].command = "DISCONNECT"
  /\ receiptIdToPrintMessage[framesAsStringsQ[1].receipt_id] = LoggedOut

(* A logout ends the session: both threads stop, and main is back at the prompt.  The
   receipt's message must have survived the race on its map. *)
LogoutEndsTheSession == DisconnectSent ~> program # "session"

ErrorArrived ==
  /\ program = "session"
  /\ \E k \in DOMAIN toClient[connection] :
       /\ toClient[connection][k].command = "ERROR"
       /\ toClient[connection][k].message # AlreadyLoggedIn

(* An ERROR ends the session, but for a keyboard listener that waits in getline. *)
ErrorEndsTheThreads ==
  ErrorArrived ~>
    \/ program # "session"
    \/ /\ listener = "done"
       /\ keyBoardListenerShouldTerminate
       /\ keyboard \in {"getline", "done"}

-----------------------------------------------------------------------------
(* Statements of the source that the code does not keep *)

(* StompClientProtocol.cpp:99, beside emplace in join: "add the <game name,
   subscription_id of client>".  In a quiet session the id kept for a game the user is
   subscribed to is the one it was subscribed to under. *)
JoinedIdIsKept ==
  Quiet =>
    \A g \in Channels :
      LET i == channelToSubscriptionId[connectionIdToUsername[connection]][g]
      IN  i # Null => gameNameToSubscriptionId[g] = i
================================================================================
