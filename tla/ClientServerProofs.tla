--------------------------- MODULE ClientServerProofs ---------------------------
(***************************************************************************)
(* Invariants of ClientServer, for every set of users, games and lines and *)
(* any bound on them.                                                      *)
(*                                                                         *)
(* That both sides agree on the end of a session rests on the frames on    *)
(* their way: a receipt the client takes for a logout's answers a          *)
(* DISCONNECT (KnownFrame), the frame that ends a session is sent by the   *)
(* step of the server that ends it (EndsAreTrue), and a session the server *)
(* has ended is one whose client has been told, or is about to (Told).     *)
(* What a session has left behind is never handled (OthersAreSilent), so   *)
(* that the server's steps are those of one connection.                    *)
(***************************************************************************)
EXTENDS ClientServer, TLAPS

S == INSTANCE StompServerProofs

-----------------------------------------------------------------------------
(* The inductive invariant *)

Commands(q) == {f.command : f \in S!FramesOf(q)}

(* The server's two ways to have a session, or not *)
Alive(c) ==
  /\ connectionIdToUsername[c] # Null
  /\ ServerIsOpen(c)
  /\ ~shouldTerminate[c]

Ended(c) == connectionIdToUsername[c] = Null /\ shouldTerminate[c]

ClientTypes ==
  /\ program \in {"prompt", "answer", "session", "ended"}
  /\ connection \in OrNull(Sockets)
  /\ connection # Null <=> program \in {"answer", "session"}
  /\ connection # Null => connection < nextConnectionId
  /\ keyboard \in {"test", "getline", "process", "processed", "send", "write", "sleep", "done"}
  /\ line \in OrNull(Lines)
  /\ program = "session" /\ keyboard = "process" => line \in Lines
  /\ framesAsStringsQ \in Seq(Requests)
  /\ program = "session" /\ keyboard \in {"write", "sleep"} => framesAsStringsQ # <<>>
  /\ listener \in {"read", "done"}
  /\ keyBoardListenerShouldTerminate \in BOOLEAN
  /\ gameNameToSubscriptionId \in [Channels -> OrNull(SubscriptionIds)]
  /\ receiptIdToPrintMessage \in [ReceiptIds -> OrNull({Joined, Exited, LoggedOut})]
  /\ toServer \in [Sockets -> Seq(Requests)]
  /\ DOMAIN toClient = Sockets
  /\ \A c \in Sockets : S!IsSequence(toClient[c])

(* A line that is yet to be processed may take an id and a receipt. *)
Counters ==
  LET pending == IF program = "session" /\ keyboard = "process" THEN 1 ELSE 0 IN
  /\ typed \in 0 .. MaxLines
  /\ nextSubscriptionId \in Nat /\ nextSubscriptionId + pending <= typed
  /\ nextRecieptNumber \in Nat /\ nextRecieptNumber + pending <= typed

(* A connection that is not the session's is logged in as nobody, and what it has yet
   to read will not be handled; one that was never used has nothing on it. *)
OthersAreSilent ==
  \A c \in Sockets :
    /\ c # connection =>
         connectionIdToUsername[c] = Null /\ (shouldTerminate[c] \/ toServer[c] = <<>>)
    /\ c >= nextConnectionId =>
         ~shouldTerminate[c] /\ toServer[c] = <<>> /\ toClient[c] = <<>>

(* The id i was taken for the game g. *)
TakenFor(i, g) ==
  /\ i \in 0 .. nextSubscriptionId - 1
  /\ \A h \in Channels : gameNameToSubscriptionId[h] = i => h = g

(* What holds of a frame the session has made *)
KnownFrame(f) ==
  /\ S!Complete(f)
  /\ f.receipt_id # Null =>
       /\ f.receipt_id \in 0 .. nextRecieptNumber - 1
       /\ receiptIdToPrintMessage[f.receipt_id] = LoggedOut => f.command = "DISCONNECT"
  /\ f.command = "SUBSCRIBE" => TakenFor(f.id, f.destination)

FramesAreKnown ==
  connection # Null =>
    \A f \in S!FramesOf(framesAsStringsQ) \cup S!FramesOf(toServer[connection]) : KnownFrame(f)

(* The ids the client keeps, and those under which the session's user is subscribed;
   a receipt that was not asked for has no message. *)
IdsAgree ==
  /\ \A g \in Channels :
       gameNameToSubscriptionId[g] \in OrNull(Unknown .. nextSubscriptionId - 1)
  /\ connection # Null /\ connectionIdToUsername[connection] # Null =>
       \A i \in SubscriptionIds :
         LET g == subscriptionIdToChannel[connectionIdToUsername[connection]][i]
         IN  g # Null => TakenFor(i, g)
  /\ \A r \in nextRecieptNumber .. MaxLines - 1 : receiptIdToPrintMessage[r] = Null

(* The frames that end the listener *)
EndingError(f) == f.command = "ERROR" /\ f.message # AlreadyLoggedIn
EndingReceipt(f) ==
  f.command = "RECEIPT" /\ receiptIdToPrintMessage[f.receipt_id] = LoggedOut

(* The client is told the end of its session only once it has ended. *)
EndsAreTrue ==
  connection # Null =>
    /\ \A f \in S!FramesOf(toClient[connection]) :
         /\ (EndingError(f) \/ EndingReceipt(f)) => Ended(connection)
         /\ f.command = "RECEIPT" => f.receipt_id \in 0 .. nextRecieptNumber - 1
    /\ program = "session" /\ listener = "done" => Ended(connection)

(* The keyboard listener stops after the DISCONNECT it has sent. *)
Disconnecting ==
  \/ keyBoardListenerShouldTerminate
  \/ keyboard = "sleep" /\ Head(framesAsStringsQ).command = "DISCONNECT"

(* The client knows, or will find out, that its session has ended. *)
Told ==
  \/ listener = "done"
  \/ \E f \in S!FramesOf(toClient[connection]) : EndingError(f)
  \/ Disconnecting

SessionsAgree ==
  program = "session" =>
    /\ Alive(connection) \/ (Ended(connection) /\ Told)
    /\ "DISCONNECT" \in Commands(toServer[connection]) => Disconnecting

(* main waits for the answer to the one frame it has sent. *)
Answering ==
  program = "answer" =>
    /\ keyboard = "test" /\ framesAsStringsQ = <<>> /\ listener = "read"
    /\ \/ /\ Len(toServer[connection]) = 1
          /\ Head(toServer[connection]).command = "CONNECT"
          /\ toClient[connection] = <<>>
          /\ connectionIdToUsername[connection] = Null
          /\ ~shouldTerminate[connection]
       \/ /\ toServer[connection] = <<>>
          /\ toClient[connection] # <<>>
          /\ \/ Alive(connection) /\ toClient[connection] = <<ConnectedFrame>>
             \/ /\ connectionIdToUsername[connection] = Null
                /\ "CONNECTED" \notin Commands(toClient[connection])

IInv ==
  /\ S!IInv
  /\ ClientTypes
  /\ Counters
  /\ OthersAreSilent
  /\ FramesAreKnown
  /\ IdsAgree
  /\ EndsAreTrue
  /\ SessionsAgree
  /\ Answering
-----------------------------------------------------------------------------
(* The server's part *)

LEMMA ServerAssumptions ==
  S!NullAssumption /\ S!RequestsAssumption /\ S!BoundsAssumption /\ S!SocketsAssumption
BY NullAssumption, RequestsAssumption, BoundsAssumption, SocketsAssumption
   DEF S!NullAssumption, S!RequestsAssumption, S!BoundsAssumption, S!SocketsAssumption,
       ClientFrames, S!ClientFrames, OrNull, S!OrNull, ConnectHeaders, S!ConnectHeaders,
       SendHeaders, S!SendHeaders, SubscribeHeaders, S!SubscribeHeaders,
       UnsubscribeHeaders, S!UnsubscribeHeaders

LEMMA ServerSockets == S!ConnectionIds = Sockets /\ Server!ConnectionIds = Sockets
BY ConnectionsAssumption DEF S!ConnectionIds, Server!ConnectionIds

(* StompServer and its proofs are two instances of the same definitions. *)
LEMMA SameProcess ==
  ASSUME NEW c, NEW f, Server!process(c, f)
  PROVE  S!process(c, f)
BY DEF Server!process, S!process, Server!connectProcess, S!connectProcess,
       Server!login, S!login, Server!sendProcess, S!sendProcess,
       Server!subscribeProcess, S!subscribeProcess,
       Server!unsubscribeProcess, S!unsubscribeProcess,
       Server!disconnectProcess, S!disconnectProcess, Server!LoggedIn, S!LoggedIn,
       Server!Registered, S!Registered, Server!RefuseAndDisconnect, S!RefuseAndDisconnect,
       Server!RefuseMalformed, S!RefuseMalformed, Server!Disconnect, S!Disconnect,
       Server!EndSession, S!EndSession, Server!ForgetSubscriptions, S!ForgetSubscriptions,
       Server!Reply, S!Reply, Server!MustTerminate, S!MustTerminate,
       Server!MustStay, S!MustStay, Server!RequestedReceipt, S!RequestedReceipt,
       Server!connectionsVars, S!connectionsVars, Server!sharedVars, S!sharedVars,
       Server!userVars, S!userVars, Server!ChannelsOf, S!ChannelsOf,
       Server!Subscribe, S!Subscribe, Server!Unsubscribe, S!Unsubscribe,
       Server!Connect, S!Connect, Server!RegisterUser, S!RegisterUser,
       Server!Copies, S!Copies, Server!IsOpen, S!IsOpen, Server!Nothing, S!Nothing,
       Server!ConnectionIds, S!ConnectionIds,
       Server!messageValidityCheck, S!messageValidityCheck,
       Server!ConnectHeaders, S!ConnectHeaders, Server!SendHeaders, S!SendHeaders,
       Server!SubscribeHeaders, S!SubscribeHeaders,
       Server!UnsubscribeHeaders, S!UnsubscribeHeaders,
       Server!ErrorFrame, S!ErrorFrame, Server!ReceiptFrame, S!ReceiptFrame,
       Server!MessageFrame, S!MessageFrame, Server!ConnectedFrame, S!ConnectedFrame,
       Server!AlreadyLoggedIn, S!AlreadyLoggedIn

LEMMA SameSocketSteps ==
  /\ Server!Accept => S!Accept
  /\ \A c : Server!LeaveLoop(c) => S!LeaveLoop(c)
  /\ \A c : Server!ConnectionLost(c) => S!ConnectionLost(c)
  /\ \A c, f : Server!Receive(c, f) => S!Receive(c, f)
BY SameProcess
   DEF Server!Accept, S!Accept, Server!LeaveLoop, S!LeaveLoop,
       Server!ConnectionLost, S!ConnectionLost, Server!Receive, S!Receive,
       Server!AddClient, S!AddClient, Server!CloseHandler, S!CloseHandler,
       Server!Nothing, S!Nothing, Server!ConnectionIds, S!ConnectionIds,
       Server!sharedVars, S!sharedVars, Server!userVars, S!userVars,
       Server!IsOpen, S!IsOpen

LEMMA SameInit == Server!Init => S!Init
BY DEF Server!Init, S!Init, Server!ConnectionsInit, S!ConnectionsInit,
       Server!Nothing, S!Nothing, Server!ConnectionIds, S!ConnectionIds

LEMMA SameTypes == S!TypeOK => Server!TypeOK
BY DEF Server!TypeOK, S!TypeOK, Server!ConnectionsTypeOK, S!ConnectionsTypeOK,
       Server!ConnectionIds, S!ConnectionIds, Server!OrNull, S!OrNull

(* The server's invariant, of its part of the state *)
LEMMA ServerInit == Server!Init => S!IInv
BY SameInit, S!InitIInv, ServerAssumptions

LEMMA ServerKeepsIInv == S!IInv /\ (S!Next \/ UNCHANGED serverVars) => S!IInv'
<1>1. UNCHANGED serverVars => UNCHANGED S!vars
  BY DEF serverVars, S!vars, S!connectionsVars, S!protocolVars, S!sharedVars, S!userVars
<1>2. S!IInv /\ [S!Next]_(S!vars) => S!IInv'
  BY S!NextIInv, ServerAssumptions
<1>3. QED
  BY <1>1, <1>2

-----------------------------------------------------------------------------
(* Sequences of frames *)

LEMMA FramesOfSequence ==
  ASSUME NEW T, NEW q \in Seq(T)
  PROVE  S!IsSequence(q) /\ S!FramesOf(q) \subseteq T
BY S!SequenceOf, ServerAssumptions

LEMMA FramesOfFew ==
  /\ S!FramesOf(<<>>) = {} /\ S!IsSequence(<<>>)
  /\ \A e : S!FramesOf(<<e>>) = {e} /\ S!IsSequence(<<e>>)
<1>1. ASSUME NEW e
      PROVE  /\ S!FramesOf(<<>>) = {} /\ <<>> \in Seq({e})
             /\ S!FramesOf(<<e>>) = {e} /\ <<e>> \in Seq({e})
  BY S!FewFrames, ServerAssumptions
<1>2. QED
  BY <1>1, FramesOfSequence

LEMMA FramesOfConcat ==
  ASSUME NEW q, NEW r, S!IsSequence(q), S!IsSequence(r)
  PROVE  S!IsSequence(q \o r) /\ S!FramesOf(q \o r) = S!FramesOf(q) \cup S!FramesOf(r)
BY S!ConcatSequences, ServerAssumptions

LEMMA FramesOfTail ==
  ASSUME NEW q, S!IsSequence(q), q # <<>>
  PROVE  /\ S!IsSequence(Tail(q))
         /\ S!FramesOf(Tail(q)) \subseteq S!FramesOf(q)
         /\ Head(q) \in S!FramesOf(q)
         /\ S!FramesOf(q) = {Head(q)} \cup S!FramesOf(Tail(q))
<1> DEFINE T == S!FramesOf(q)
<1>1. q \in Seq(T)
  BY DEF S!IsSequence
<1>2. DOMAIN q = 1 .. Len(q) /\ Len(q) \in Nat /\ Len(q) # 0
  <2> HIDE DEF T
  <2>1. QED
    BY <1>1
<1>3. /\ Tail(q) \in Seq(T) /\ DOMAIN Tail(q) = 1 .. Len(q) - 1
      /\ \A i \in 1 .. Len(q) - 1 : Tail(q)[i] = q[i + 1]
      /\ Head(q) = q[1]
  <2> HIDE DEF T
  <2>1. QED
    BY <1>1, <1>2
<1>4. Head(q) \in T
  BY <1>2, <1>3 DEF S!FramesOf
<1>5. S!IsSequence(Tail(q)) /\ S!FramesOf(Tail(q)) \subseteq T
  <2> HIDE DEF T
  <2>1. QED
    BY <1>3, FramesOfSequence
<1>6. ASSUME NEW i \in DOMAIN q
      PROVE  q[i] \in {Head(q)} \cup S!FramesOf(Tail(q))
  <2>1. CASE i = 1
    BY <1>3, <2>1
  <2>2. CASE i # 1
    <3>1. i - 1 \in DOMAIN Tail(q) /\ (i - 1) + 1 = i
      BY <1>2, <1>3, <2>2
    <3>2. Tail(q)[i - 1] = q[i]
      BY <1>3, <3>1
    <3>3. QED
      BY <3>1, <3>2 DEF S!FramesOf
  <2>3. QED
    BY <2>1, <2>2
<1>7. QED
  BY <1>4, <1>5, <1>6 DEF S!FramesOf

LEMMA FramesOfAppend ==
  ASSUME NEW T, NEW q \in Seq(T), NEW e \in T
  PROVE  S!FramesOf(Append(q, e)) = S!FramesOf(q) \cup {e}
<1>1. DOMAIN q = 1 .. Len(q) /\ Len(q) \in Nat
  OBVIOUS
<1>2. /\ DOMAIN Append(q, e) = 1 .. Len(q) + 1
      /\ \A i \in 1 .. Len(q) : Append(q, e)[i] = q[i]
      /\ Append(q, e)[Len(q) + 1] = e
  OBVIOUS
<1>3. QED
  BY <1>1, <1>2 DEF S!FramesOf

-----------------------------------------------------------------------------
(* The frames the client makes *)

LEMMA FrameFields ==
  ASSUME NEW command, NEW headers, NEW r
  PROVE  /\ DOMAIN Frame(command, headers, r) = {"command", "headers", "receipt_id", "receipt"}
         /\ Frame(command, headers, r).command = command
         /\ Frame(command, headers, r).headers = headers
         /\ Frame(command, headers, r).receipt_id = r
BY DEF Frame

LEMMA WithFields ==
  ASSUME NEW frame, NEW header, NEW value
  PROVE  /\ DOMAIN With(frame, header, value) = DOMAIN frame \cup {header}
         /\ With(frame, header, value)[header] = value
         /\ \A h \in DOMAIN frame : h # header => With(frame, header, value)[h] = frame[h]
BY DEF With

SendFrame(g) == With(Frame("SEND", SendHeaders, Null), "destination", g)
SubscribeFrame(r, g, i) ==
  With(With(Frame("SUBSCRIBE", SubscribeHeaders, r), "destination", g), "id", i)
UnsubscribeFrame(r, i) == With(Frame("UNSUBSCRIBE", UnsubscribeHeaders, r), "id", i)
DisconnectFrame(r) == Frame("DISCONNECT", {}, r)

LEMMA MadeFields ==
  ASSUME NEW r, NEW g, NEW i, NEW l
  PROVE  /\ SendFrame(g).command = "SEND" /\ SendFrame(g).headers = SendHeaders
         /\ SendFrame(g).receipt_id = Null
         /\ SubscribeFrame(r, g, i).command = "SUBSCRIBE"
         /\ SubscribeFrame(r, g, i).headers = SubscribeHeaders
         /\ SubscribeFrame(r, g, i).receipt_id = r
         /\ SubscribeFrame(r, g, i).destination = g
         /\ SubscribeFrame(r, g, i).id = i
         /\ UnsubscribeFrame(r, i).command = "UNSUBSCRIBE"
         /\ UnsubscribeFrame(r, i).headers = UnsubscribeHeaders
         /\ UnsubscribeFrame(r, i).receipt_id = r
         /\ DisconnectFrame(r).command = "DISCONNECT"
         /\ DisconnectFrame(r).receipt_id = r
         /\ ConnectFrame(l).command = "CONNECT"
         /\ ConnectFrame(l).headers = ConnectHeaders
         /\ ConnectFrame(l).receipt_id = Null
         /\ WrongFrame.command = "WRONG-COMMAND" /\ WrongFrame.receipt_id = Null
<1>1. /\ SendFrame(g).command = "SEND" /\ SendFrame(g).headers = SendHeaders
      /\ SendFrame(g).receipt_id = Null
  BY DEF SendFrame, With, Frame
<1>2. /\ UnsubscribeFrame(r, i).command = "UNSUBSCRIBE"
      /\ UnsubscribeFrame(r, i).headers = UnsubscribeHeaders
      /\ UnsubscribeFrame(r, i).receipt_id = r
  BY DEF UnsubscribeFrame, With, Frame
<1>3. /\ SubscribeFrame(r, g, i).command = "SUBSCRIBE"
      /\ SubscribeFrame(r, g, i).headers = SubscribeHeaders
      /\ SubscribeFrame(r, g, i).receipt_id = r
      /\ SubscribeFrame(r, g, i).destination = g
      /\ SubscribeFrame(r, g, i).id = i
  BY DEF SubscribeFrame, With, Frame
<1>4. QED
  BY <1>1, <1>2, <1>3, FrameFields DEF DisconnectFrame, ConnectFrame, WrongFrame

LEMMA MadeRequests ==
  /\ \A l \in Lines : l.command = "login" => ConnectFrame(l) \in Requests
  /\ WrongFrame \in Requests
  /\ \A g \in Channels : SendFrame(g) \in Requests
  /\ \A r \in ReceiptIds, g \in Channels, i \in SubscriptionIds :
       SubscribeFrame(r, g, i) \in Requests
  /\ \A r \in ReceiptIds, i \in SubscriptionIds : UnsubscribeFrame(r, i) \in Requests
  /\ \A r \in ReceiptIds : DisconnectFrame(r) \in Requests
BY ClientRequestsAssumption
   DEF ClientRequests, SendFrame, SubscribeFrame, UnsubscribeFrame, DisconnectFrame

(* A line is of one of its command's shape. *)
LEMMA LineShape ==
  ASSUME NEW l \in Lines
  PROVE  /\ l.command \in {"join", "exit", "report"} => l.game \in Channels
         /\ l.command = "report" => l.events \in Nat
BY LinesAssumption DEF KeyboardLines

(* What a frame without a receipt or an id needs to be known *)
LEMMA PlainFramesAreKnown ==
  /\ \A l : KnownFrame(ConnectFrame(l))
  /\ KnownFrame(WrongFrame)
  /\ \A g : KnownFrame(SendFrame(g))
BY MadeFields DEF KnownFrame, S!Complete, ConnectHeaders, S!ConnectHeaders,
   SendHeaders, S!SendHeaders

(* What is known of a frame stays known while the protocol object stays as it is, but
   for messages of receipts that get lost. *)
LEMMA KnownFramesStay ==
  ASSUME NEW f, KnownFrame(f),
         UNCHANGED <<nextSubscriptionId, nextRecieptNumber, gameNameToSubscriptionId>>,
         \A r \in 0 .. nextRecieptNumber - 1 :
           receiptIdToPrintMessage'[r] = LoggedOut => receiptIdToPrintMessage[r] = LoggedOut
  PROVE  KnownFrame(f)'
BY DEF KnownFrame, TakenFor, S!Complete

-----------------------------------------------------------------------------
(* The initial state *)

LEMMA InitIInv == Init => IInv
<1> SUFFICES ASSUME Init PROVE IInv
  OBVIOUS
<1>1. S!IInv
  BY ServerInit DEF Init
<1> USE DEF Init, ClientInit, NoIds, NoMessages, OrNull
<1>2. ClientTypes
  <2>1. \A c \in Sockets : S!IsSequence(toClient[c])
    BY FramesOfFew
  <2>2. framesAsStringsQ \in Seq(Requests) /\ toServer \in [Sockets -> Seq(Requests)]
    OBVIOUS
  <2>3. QED
    BY <2>1, <2>2 DEF ClientTypes
<1>3. Counters
  BY CountersAssumption DEF Counters
<1>4. OthersAreSilent
  BY ServerSockets DEF OthersAreSilent, Server!Init, Server!ConnectionsInit
<1>5. FramesAreKnown /\ EndsAreTrue /\ SessionsAgree /\ Answering
  BY DEF FramesAreKnown, EndsAreTrue, SessionsAgree, Answering
<1>6. IdsAgree
  <2>1. \A r \in 0 .. MaxLines - 1 : r \in ReceiptIds
    BY CountersAssumption
  <2>2. \A r \in nextRecieptNumber .. MaxLines - 1 : receiptIdToPrintMessage[r] = Null
    BY <2>1
  <2>3. QED
    BY <2>2 DEF IdsAgree
<1>7. QED
  BY <1>1, <1>2, <1>3, <1>4, <1>5, <1>6 DEF IInv

-----------------------------------------------------------------------------
(* The keyboard listener *)

LEMMA InSession ==
  ASSUME IInv, program = "session"
  PROVE  connection \in Sockets /\ connection # Null
BY DEF IInv, ClientTypes, OrNull

LEMMA ConnectionIsInUse ==
  ASSUME IInv, connection # Null
  PROVE  /\ connection \in Sockets
         /\ \A c \in Sockets : c >= nextConnectionId => c # connection
<1>1. connection \in Sockets /\ connection < nextConnectionId
  BY DEF IInv, ClientTypes, OrNull
<1>2. connection \in Int /\ nextConnectionId \in Int
  BY <1>1, ConnectionsAssumption, BoundsAssumption DEF IInv, S!IInv, S!TypeOK
<1>3. QED
  BY <1>1, <1>2

(* A step of the keyboard listener that writes nothing *)
LEMMA KeyboardMoves ==
  ASSUME IInv, program = "session",
         UNCHANGED <<program, connection, listener, protocolVars, socketVars, serverVars>>,
         S!FramesOf(framesAsStringsQ') \subseteq S!FramesOf(framesAsStringsQ),
         ClientTypes', Counters',
         Disconnecting => Disconnecting'
  PROVE  IInv'
<1> USE DEF protocolVars, socketVars
<1>1. S!IInv'
  BY ServerKeepsIInv DEF IInv
<1>2. UNCHANGED <<connectionIdToUsername, shouldTerminate, connectionIdToConnectionHandler,
                  subscriptionIdToChannel, nextConnectionId>>
  BY DEF serverVars
<1>3. OthersAreSilent'
  BY <1>2 DEF IInv, OthersAreSilent
<1>4. FramesAreKnown'
  BY KnownFramesStay DEF IInv, FramesAreKnown
<1>5. IdsAgree'
  BY <1>2 DEF IInv, IdsAgree, TakenFor
<1>6. EndsAreTrue'
  BY <1>2 DEF IInv, EndsAreTrue, EndingError, EndingReceipt, Ended
<1>7. SessionsAgree'
  BY <1>2 DEF IInv, SessionsAgree, Alive, Ended, Told, ServerIsOpen, EndingError, Commands
<1>8. Answering'
  BY DEF Answering
<1>9. QED
  BY <1>1, <1>3, <1>4, <1>5, <1>6, <1>7, <1>8 DEF IInv

LEMMA TestKeeps == IInv /\ Test /\ UNCHANGED serverVars => IInv'
<1> SUFFICES ASSUME IInv, Test, UNCHANGED serverVars PROVE IInv'
  OBVIOUS
<1> USE DEF Test, At, protocolVars, socketVars
<1>1. ClientTypes'
  BY DEF IInv, ClientTypes, serverVars
<1>2. Counters'
  BY DEF IInv, Counters
<1>3. Disconnecting => Disconnecting'
  BY DEF Disconnecting
<1>4. QED
  BY <1>1, <1>2, <1>3, KeyboardMoves

LEMMA GetLineKeeps ==
  ASSUME IInv, NEW l \in Lines, GetLine(l), UNCHANGED serverVars
  PROVE  IInv'
<1> USE DEF GetLine, At, protocolVars, socketVars
<1>1. ClientTypes'
  BY DEF IInv, ClientTypes, serverVars, OrNull
<1>2. Counters'
  BY CountersAssumption DEF IInv, Counters
<1>3. Disconnecting => Disconnecting'
  BY DEF Disconnecting
<1>4. QED
  BY <1>1, <1>2, <1>3, KeyboardMoves

LEMMA ProcessedKeeps == IInv /\ Processed /\ UNCHANGED serverVars => IInv'
<1> SUFFICES ASSUME IInv, Processed, UNCHANGED serverVars PROVE IInv'
  OBVIOUS
<1> USE DEF Processed, At, protocolVars, socketVars
<1>1. ClientTypes'
  BY DEF IInv, ClientTypes, serverVars
<1>2. Counters'
  BY DEF IInv, Counters
<1>3. Disconnecting => Disconnecting'
  BY DEF Disconnecting
<1>4. QED
  BY <1>1, <1>2, <1>3, KeyboardMoves

LEMMA TestSendKeeps == IInv /\ TestSend /\ UNCHANGED serverVars => IInv'
<1> SUFFICES ASSUME IInv, TestSend, UNCHANGED serverVars PROVE IInv'
  OBVIOUS
<1> USE DEF TestSend, At, protocolVars, socketVars
<1>1. ClientTypes'
  <2>1. framesAsStringsQ \in Seq(Requests) /\ <<>> \in Seq(Requests)
    BY DEF IInv, ClientTypes
  <2>2. framesAsStringsQ' \in Seq(Requests) /\ line' \in OrNull(Lines)
    BY <2>1 DEF IInv, ClientTypes, OrNull
  <2>3. keyboard' \in {"test", "write"} /\ (keyboard' = "write" => framesAsStringsQ' # <<>>)
    OBVIOUS
  <2>4. QED
    BY <2>2, <2>3 DEF IInv, ClientTypes, serverVars
<1>2. Counters'
  BY DEF IInv, Counters
<1>3. Disconnecting => Disconnecting'
  BY DEF Disconnecting
<1>4. S!FramesOf(framesAsStringsQ') \subseteq S!FramesOf(framesAsStringsQ)
  BY FramesOfFew
<1>5. QED
  BY <1>1, <1>2, <1>3, <1>4, KeyboardMoves

LEMMA SleptKeeps == IInv /\ Slept /\ UNCHANGED serverVars => IInv'
<1> SUFFICES ASSUME IInv, Slept, UNCHANGED serverVars PROVE IInv'
  OBVIOUS
<1> USE DEF Slept, At, protocolVars, socketVars
<1>1. framesAsStringsQ \in Seq(Requests) /\ framesAsStringsQ # <<>>
  BY DEF IInv, ClientTypes
<1>2. Tail(framesAsStringsQ) \in Seq(Requests)
  BY <1>1
<1>3. keyBoardListenerShouldTerminate' \in BOOLEAN
  BY DEF IInv, ClientTypes
<1>4. ClientTypes'
  BY <1>2, <1>3 DEF IInv, ClientTypes, serverVars
<1>5. Counters'
  BY DEF IInv, Counters
<1>6. Disconnecting => Disconnecting'
  <2>1. Disconnecting => keyBoardListenerShouldTerminate'
    BY DEF Disconnecting
  <2>2. QED
    BY <2>1 DEF Disconnecting
<1>7. S!FramesOf(framesAsStringsQ') \subseteq S!FramesOf(framesAsStringsQ)
  BY <1>1, FramesOfSequence, FramesOfTail
<1>8. QED
  BY <1>4, <1>5, <1>6, <1>7, KeyboardMoves

(* A line may take the next subscription id for a game and the next receipt. *)
NewIds ==
  /\ nextSubscriptionId' \in {nextSubscriptionId, nextSubscriptionId + 1}
  /\ gameNameToSubscriptionId' \in [Channels -> OrNull(SubscriptionIds)]
  /\ \A g \in Channels :
       \/ gameNameToSubscriptionId'[g] = gameNameToSubscriptionId[g]
       \/ gameNameToSubscriptionId'[g] = Unknown
       \/ /\ gameNameToSubscriptionId'[g] = nextSubscriptionId
          /\ nextSubscriptionId' = nextSubscriptionId + 1

NewReceipts ==
  /\ nextRecieptNumber' \in {nextRecieptNumber, nextRecieptNumber + 1}
  /\ receiptIdToPrintMessage' \in [ReceiptIds -> OrNull({Joined, Exited, LoggedOut})]
  /\ \A r \in 0 .. MaxLines - 1 :
       \/ receiptIdToPrintMessage'[r] = receiptIdToPrintMessage[r]
       \/ r = nextRecieptNumber /\ nextRecieptNumber' = nextRecieptNumber + 1

LEMMA NextNumbers ==
  ASSUME IInv, program = "session", keyboard = "process"
  PROVE  /\ MaxLines \in Nat /\ typed \in 0 .. MaxLines
         /\ nextSubscriptionId \in Nat /\ nextSubscriptionId + 1 <= typed
         /\ nextRecieptNumber \in Nat /\ nextRecieptNumber + 1 <= typed
         /\ nextSubscriptionId \in 0 .. MaxLines - 1
         /\ nextRecieptNumber \in 0 .. MaxLines - 1
         /\ nextSubscriptionId \in SubscriptionIds /\ Unknown \in SubscriptionIds
         /\ nextRecieptNumber \in ReceiptIds
BY CountersAssumption DEF IInv, Counters, Unknown

LEMMA NewIdsKeep ==
  ASSUME nextSubscriptionId \in Nat, NewIds, NEW i, NEW g, TakenFor(i, g)
  PROVE  TakenFor(i, g)'
<1>1. i \in 0 .. nextSubscriptionId - 1 /\ i # Unknown /\ i # nextSubscriptionId
  BY DEF TakenFor, Unknown
<1>2. i \in 0 .. nextSubscriptionId' - 1
  <2>1. nextSubscriptionId' = nextSubscriptionId \/ nextSubscriptionId' = nextSubscriptionId + 1
    BY DEF NewIds
  <2>2. QED
    BY <1>1, <2>1
<1>3. ASSUME NEW h \in Channels, gameNameToSubscriptionId'[h] = i
      PROVE  h = g
  BY <1>1, <1>3 DEF NewIds, TakenFor
<1>4. QED
  BY <1>2, <1>3 DEF TakenFor

LEMMA NewNumbersKeep ==
  ASSUME nextSubscriptionId \in Nat, NewIds,
         nextRecieptNumber \in 0 .. MaxLines - 1, MaxLines \in Nat, NewReceipts,
         NEW f, KnownFrame(f)
  PROVE  KnownFrame(f)'
<1>1. f.command = "SUBSCRIBE" => TakenFor(f.id, f.destination)'
  BY NewIdsKeep DEF KnownFrame
<1>2. f.receipt_id # Null =>
        /\ f.receipt_id \in 0 .. nextRecieptNumber' - 1
        /\ receiptIdToPrintMessage'[f.receipt_id] = receiptIdToPrintMessage[f.receipt_id]
  BY DEF KnownFrame, NewReceipts
<1>3. QED
  BY <1>1, <1>2 DEF KnownFrame, S!Complete

(* A line becomes frames that are known, and what was known of others stays so. *)
LEMMA ProcessMoves ==
  ASSUME IInv, program = "session", keyboard = "process", keyboard' = "processed",
         UNCHANGED <<program, connection, line, listener, keyBoardListenerShouldTerminate,
                     socketVars, typed, serverVars>>,
         framesAsStringsQ' \in Seq(Requests),
         \A f \in S!FramesOf(framesAsStringsQ') : KnownFrame(f)',
         NewIds, NewReceipts
  PROVE  IInv'
<1> USE DEF socketVars
<1>1. S!IInv'
  BY ServerKeepsIInv DEF IInv
<1>2. UNCHANGED <<connectionIdToUsername, shouldTerminate, connectionIdToConnectionHandler,
                  subscriptionIdToChannel, nextConnectionId>>
  BY DEF serverVars
<1>3. ClientTypes'
  BY <1>2 DEF IInv, ClientTypes, NewIds, NewReceipts
<1>4. /\ nextSubscriptionId \in Nat
      /\ nextRecieptNumber \in 0 .. MaxLines - 1
      /\ MaxLines \in Nat
      /\ Counters'
  <2>1. typed' = typed /\ program' = program
    OBVIOUS
  <2>2. /\ nextSubscriptionId' \in Nat /\ nextSubscriptionId' <= typed
        /\ nextRecieptNumber' \in Nat /\ nextRecieptNumber' <= typed
    BY NextNumbers DEF NewIds, NewReceipts
  <2>3. Counters'
    BY NextNumbers, <2>1, <2>2 DEF Counters
  <2>4. QED
    BY NextNumbers, <2>3
<1>5. ASSUME NEW i, NEW g, TakenFor(i, g)
      PROVE  TakenFor(i, g)'
  BY <1>4, <1>5, NewIdsKeep
<1>6. ASSUME NEW f, KnownFrame(f)
      PROVE  KnownFrame(f)'
  BY <1>4, <1>6, NewNumbersKeep
<1>7. OthersAreSilent'
  BY <1>2 DEF IInv, OthersAreSilent
<1>8. FramesAreKnown'
  BY <1>6 DEF IInv, FramesAreKnown
<1>9. IdsAgree'
  <2>1. \A g \in Channels :
          gameNameToSubscriptionId'[g] \in OrNull(Unknown .. nextSubscriptionId' - 1)
    <3>1. ASSUME NEW g \in Channels
          PROVE  /\ gameNameToSubscriptionId[g] \in OrNull(Unknown .. nextSubscriptionId - 1)
                 /\ \/ gameNameToSubscriptionId'[g] = gameNameToSubscriptionId[g]
                    \/ gameNameToSubscriptionId'[g] = Unknown
                    \/ /\ gameNameToSubscriptionId'[g] = nextSubscriptionId
                       /\ nextSubscriptionId' = nextSubscriptionId + 1
      BY DEF IInv, IdsAgree, NewIds
    <3>2. nextSubscriptionId' \in {nextSubscriptionId, nextSubscriptionId + 1}
      BY DEF NewIds
    <3> HIDE DEF NewIds, NewReceipts
    <3>3. QED
      BY <1>4, <3>1, <3>2 DEF Unknown, OrNull
  <2>2. \A r \in nextRecieptNumber' .. MaxLines - 1 : receiptIdToPrintMessage'[r] = Null
    BY <1>4 DEF IInv, IdsAgree, NewReceipts
  <2>3. QED
    BY <1>2, <1>5, <2>1, <2>2 DEF IInv, IdsAgree
<1>10. EndsAreTrue'
  <2>1. ASSUME NEW r \in 0 .. nextRecieptNumber - 1
        PROVE  /\ r \in 0 .. nextRecieptNumber' - 1
               /\ receiptIdToPrintMessage'[r] = receiptIdToPrintMessage[r]
    <3>1. \/ nextRecieptNumber' = nextRecieptNumber
          \/ nextRecieptNumber' = nextRecieptNumber + 1
      BY DEF NewReceipts
    <3>2. r \in 0 .. nextRecieptNumber' - 1 /\ r \in 0 .. MaxLines - 1 /\ r # nextRecieptNumber
      BY <1>4, <3>1
    <3>3. QED
      BY <3>2 DEF NewReceipts
  <2>2. QED
    BY <1>2, <2>1 DEF IInv, EndsAreTrue, EndingError, EndingReceipt, Ended
<1>11. SessionsAgree'
  BY <1>2 DEF IInv, SessionsAgree, Alive, Ended, Told, ServerIsOpen, EndingError, Commands,
              Disconnecting
<1>12. Answering'
  BY DEF Answering
<1>13. QED
  BY <1>1, <1>3, <1>4, <1>7, <1>8, <1>9, <1>10, <1>11, <1>12 DEF IInv

LEMMA ExpectedReceipt ==
  ASSUME IInv, program = "session", keyboard = "process",
         NEW message \in {Joined, Exited, LoggedOut}, ExpectReceipt(message)
  PROVE  NewReceipts /\ receiptIdToPrintMessage'[nextRecieptNumber] = message
<1>1. /\ nextRecieptNumber \in ReceiptIds
      /\ receiptIdToPrintMessage \in [ReceiptIds -> OrNull({Joined, Exited, LoggedOut})]
      /\ \A r \in 0 .. MaxLines - 1 : r \in ReceiptIds
  BY NextNumbers, CountersAssumption DEF IInv, ClientTypes
<1>2. receiptIdToPrintMessage[nextRecieptNumber] = Null
  <2>1. nextRecieptNumber \in nextRecieptNumber .. MaxLines - 1
    BY NextNumbers
  <2>2. QED
    BY <2>1 DEF IInv, IdsAgree
<1>3. receiptIdToPrintMessage' = [receiptIdToPrintMessage EXCEPT ![nextRecieptNumber] = message]
  BY <1>2 DEF ExpectReceipt, Emplace
<1>4. nextRecieptNumber' = nextRecieptNumber + 1
  BY DEF ExpectReceipt
<1>5. receiptIdToPrintMessage' \in [ReceiptIds -> OrNull({Joined, Exited, LoggedOut})]
  BY <1>1, <1>3 DEF OrNull
<1>6. \A r \in ReceiptIds :
        receiptIdToPrintMessage'[r] = receiptIdToPrintMessage[r] \/ r = nextRecieptNumber
  BY <1>1, <1>3
<1>7. receiptIdToPrintMessage'[nextRecieptNumber] = message
  BY <1>1, <1>3
<1>8. QED
  BY <1>1, <1>4, <1>5, <1>6, <1>7 DEF NewReceipts

LEMMA UnchangedNumbers ==
  ASSUME IInv
  PROVE  /\ UNCHANGED <<nextSubscriptionId, gameNameToSubscriptionId>> => NewIds
         /\ UNCHANGED <<nextRecieptNumber, receiptIdToPrintMessage>> => NewReceipts
BY DEF IInv, ClientTypes, NewIds, NewReceipts

(* A frame with the next receipt number is known once its message is kept. *)
LEMMA NewReceiptIsKnown ==
  ASSUME IInv, program = "session", keyboard = "process",
         NEW message \in {Joined, Exited, LoggedOut}, ExpectReceipt(message),
         NEW f, f.receipt_id = nextRecieptNumber, S!Complete(f),
         message = LoggedOut => f.command = "DISCONNECT",
         f.command = "SUBSCRIBE" => TakenFor(f.id, f.destination)'
  PROVE  KnownFrame(f)'
<1>1. receiptIdToPrintMessage'[nextRecieptNumber] = message
  BY ExpectedReceipt
<1>2. nextRecieptNumber \in 0 .. nextRecieptNumber' - 1
  BY NextNumbers DEF ExpectReceipt
<1>3. QED
  BY <1>1, <1>2 DEF KnownFrame, S!Complete

LEMMA JoinFrames ==
  ASSUME IInv, program = "session", keyboard = "process", ProcessJoin
  PROVE  /\ framesAsStringsQ' \in Seq(Requests)
         /\ \A f \in S!FramesOf(framesAsStringsQ') : KnownFrame(f)'
         /\ NewIds /\ NewReceipts
<1>1. PICK i, g, r :
        i = nextSubscriptionId /\ g = line.game /\ r = nextRecieptNumber
  OBVIOUS
<1>2. PICK frame : frame = SubscribeFrame(r, g, i)
  OBVIOUS
<1>3. /\ framesAsStringsQ' = <<frame>>
      /\ gameNameToSubscriptionId' = Emplace(gameNameToSubscriptionId, g, i)
      /\ nextSubscriptionId' = i + 1
      /\ ExpectReceipt(Joined)
  BY <1>1, <1>2 DEF ProcessJoin, SubscribeFrame
<1>4. /\ g \in Channels /\ i \in SubscriptionIds /\ r \in ReceiptIds
      /\ i \in Nat /\ i # Null
  <2>1. line \in Lines /\ line.command = "join"
    BY DEF IInv, ClientTypes, ProcessJoin
  <2>2. QED
    BY <1>1, <2>1, NextNumbers, LineShape, NullAssumption
<1>5. gameNameToSubscriptionId \in [Channels -> OrNull(SubscriptionIds)]
  BY DEF IInv, ClientTypes
<1>6. ASSUME NEW h \in Channels
      PROVE  /\ gameNameToSubscriptionId[h] # i
             /\ \/ gameNameToSubscriptionId'[h] = gameNameToSubscriptionId[h]
                \/ gameNameToSubscriptionId'[h] = i /\ h = g
  <2>1. gameNameToSubscriptionId[h] \in OrNull(Unknown .. i - 1)
    BY <1>1 DEF IInv, IdsAgree
  <2>2. gameNameToSubscriptionId[h] # i
    BY <1>4, <2>1 DEF OrNull, Unknown
  <2>3. QED
    BY <1>3, <1>5, <2>2 DEF Emplace
<1>7. gameNameToSubscriptionId' \in [Channels -> OrNull(SubscriptionIds)]
  BY <1>3, <1>4, <1>5 DEF Emplace, OrNull
<1>8. NewIds
  BY <1>1, <1>3, <1>6, <1>7 DEF NewIds
<1>9. Joined \in {Joined, Exited, LoggedOut} /\ Joined # LoggedOut
  BY DEF Joined, LoggedOut
<1>10. NewReceipts
  BY <1>3, <1>9, ExpectedReceipt
<1>11. TakenFor(i, g)'
  <2>1. i \in 0 .. nextSubscriptionId' - 1
    BY <1>3, <1>4
  <2>2. QED
    BY <1>6, <2>1 DEF TakenFor
<1>12. /\ frame.receipt_id = nextRecieptNumber /\ frame.command = "SUBSCRIBE"
       /\ frame.headers = SubscribeHeaders
       /\ frame.id = i /\ frame.destination = g
  BY <1>1, <1>2, MadeFields
<1>13. S!Complete(frame)
  BY <1>12 DEF S!Complete, SubscribeHeaders, S!SubscribeHeaders
<1>14. TakenFor(frame.id, frame.destination)'
  BY <1>11, <1>12
<1>15. KnownFrame(frame)'
  BY <1>3, <1>9, <1>12, <1>13, <1>14, NewReceiptIsKnown
<1>16. <<frame>> \in Seq(Requests) /\ S!FramesOf(<<frame>>) = {frame}
  <2>1. frame \in Requests
    BY <1>2, <1>4, MadeRequests
  <2>2. QED
    BY <2>1, FramesOfFew
<1>17. QED
  BY <1>3, <1>8, <1>10, <1>15, <1>16

LEMMA ExitFrames ==
  ASSUME IInv, program = "session", keyboard = "process", ProcessExit
  PROVE  /\ framesAsStringsQ' \in Seq(Requests)
         /\ \A f \in S!FramesOf(framesAsStringsQ') : KnownFrame(f)'
         /\ NewIds /\ NewReceipts
<1>1. PICK i, g, r :
        i = gameNameToSubscriptionId'[g] /\ g = line.game /\ r = nextRecieptNumber
  OBVIOUS
<1>2. PICK frame : frame = UnsubscribeFrame(r, i)
  OBVIOUS
<1>3. /\ framesAsStringsQ' = <<frame>>
      /\ gameNameToSubscriptionId' = Emplace(gameNameToSubscriptionId, g, Unknown)
      /\ nextSubscriptionId' = nextSubscriptionId
      /\ ExpectReceipt(Exited)
  BY <1>1, <1>2 DEF ProcessExit, UnsubscribeFrame
<1>4. g \in Channels /\ Unknown \in SubscriptionIds /\ r \in ReceiptIds /\ Unknown # Null
  <2>1. line \in Lines /\ line.command = "exit"
    BY DEF IInv, ClientTypes, ProcessExit
  <2>2. QED
    BY <1>1, <2>1, NextNumbers, LineShape, NullAssumption
<1>5. gameNameToSubscriptionId \in [Channels -> OrNull(SubscriptionIds)]
  BY DEF IInv, ClientTypes
<1>6. \A h \in Channels :
        \/ gameNameToSubscriptionId'[h] = gameNameToSubscriptionId[h]
        \/ gameNameToSubscriptionId'[h] = Unknown
  BY <1>3, <1>5 DEF Emplace
<1>7. /\ gameNameToSubscriptionId' \in [Channels -> OrNull(SubscriptionIds)]
      /\ i \in SubscriptionIds
  BY <1>1, <1>3, <1>4, <1>5 DEF Emplace, OrNull
<1>8. NewIds
  BY <1>3, <1>6, <1>7 DEF NewIds
<1>9. Exited \in {Joined, Exited, LoggedOut} /\ Exited # LoggedOut
  BY DEF Exited, LoggedOut
<1>10. NewReceipts
  BY <1>3, <1>9, ExpectedReceipt
<1>11. /\ frame.receipt_id = nextRecieptNumber /\ frame.command = "UNSUBSCRIBE"
       /\ frame.headers = UnsubscribeHeaders
  BY <1>1, <1>2, MadeFields
<1>12. S!Complete(frame)
  BY <1>11 DEF S!Complete, UnsubscribeHeaders, S!UnsubscribeHeaders
<1>13. KnownFrame(frame)'
  BY <1>3, <1>9, <1>11, <1>12, NewReceiptIsKnown
<1>14. <<frame>> \in Seq(Requests) /\ S!FramesOf(<<frame>>) = {frame}
  <2>1. frame \in Requests
    BY <1>2, <1>4, <1>7, MadeRequests
  <2>2. QED
    BY <2>1, FramesOfFew
<1>15. QED
  BY <1>3, <1>8, <1>10, <1>13, <1>14

LEMMA LogoutFrames ==
  ASSUME IInv, program = "session", keyboard = "process", ProcessLogout
  PROVE  /\ framesAsStringsQ' \in Seq(Requests)
         /\ \A f \in S!FramesOf(framesAsStringsQ') : KnownFrame(f)'
         /\ NewIds /\ NewReceipts
<1>1. PICK frame : frame = DisconnectFrame(nextRecieptNumber)
  OBVIOUS
<1>2. framesAsStringsQ' = <<frame>> /\ ExpectReceipt(LoggedOut)
  BY <1>1 DEF ProcessLogout, DisconnectFrame
<1>3. NewIds /\ NewReceipts
  BY <1>2, UnchangedNumbers, ExpectedReceipt DEF ProcessLogout
<1>4. frame.receipt_id = nextRecieptNumber /\ frame.command = "DISCONNECT"
  BY <1>1, MadeFields
<1>5. S!Complete(frame)
  BY <1>4 DEF S!Complete
<1>6. KnownFrame(frame)'
  BY <1>2, <1>4, <1>5, NewReceiptIsKnown
<1>7. <<frame>> \in Seq(Requests) /\ S!FramesOf(<<frame>>) = {frame}
  <2>1. frame \in Requests
    BY <1>1, NextNumbers, MadeRequests
  <2>2. QED
    BY <2>1, FramesOfFew
<1>8. QED
  BY <1>2, <1>3, <1>6, <1>7

(* The lines that leave the protocol object alone *)
LEMMA OtherFrames ==
  ASSUME IInv, program = "session", keyboard = "process", ProcessOther
  PROVE  /\ framesAsStringsQ' \in Seq(Requests)
         /\ \A f \in S!FramesOf(framesAsStringsQ') : KnownFrame(f)'
         /\ NewIds /\ NewReceipts
<1>1. UNCHANGED protocolVars /\ line \in Lines
  BY DEF ProcessOther, IInv, ClientTypes
<1>2. NewIds /\ NewReceipts
  BY <1>1, UnchangedNumbers DEF protocolVars
<1>3. ASSUME NEW f, KnownFrame(f)
      PROVE  KnownFrame(f)'
  BY <1>1, <1>3, KnownFramesStay DEF protocolVars
<1>4. ASSUME NEW f \in Requests, KnownFrame(f), framesAsStringsQ' = <<f>>
      PROVE  /\ framesAsStringsQ' \in Seq(Requests)
             /\ \A e \in S!FramesOf(framesAsStringsQ') : KnownFrame(e)'
  <2>1. <<f>> \in Seq(Requests) /\ S!FramesOf(<<f>>) = {f}
    BY FramesOfFew
  <2>2. QED
    BY <1>3, <1>4, <2>1
<1>5. CASE line.command = "login" /\ framesAsStringsQ' = <<ConnectFrame(line)>>
  <2>1. ConnectFrame(line) \in Requests /\ KnownFrame(ConnectFrame(line))
    BY <1>1, <1>5, MadeRequests, PlainFramesAreKnown
  <2>2. QED
    BY <1>2, <1>4, <1>5, <2>1
<1>6. CASE /\ line.command = "report"
           /\ framesAsStringsQ' = [k \in 1 .. line.events |-> SendFrame(line.game)]
  <2>1. PICK f, n : f = SendFrame(line.game) /\ n = line.events
    OBVIOUS
  <2>2. f \in Requests /\ KnownFrame(f) /\ n \in Nat
    BY <1>1, <1>6, <2>1, LineShape, MadeRequests, PlainFramesAreKnown
  <2>3. framesAsStringsQ' = [k \in 1 .. n |-> f]
    BY <1>6, <2>1
  <2>4. framesAsStringsQ' \in Seq(Requests) /\ framesAsStringsQ' \in Seq({f})
    BY <2>2, <2>3
  <2>5. S!FramesOf(framesAsStringsQ') \subseteq {f}
    BY <2>4, FramesOfSequence
  <2>6. QED
    BY <1>2, <1>3, <2>2, <2>4, <2>5
<1>7. CASE framesAsStringsQ' = <<>>
  <2>1. <<>> \in Seq(Requests)
    OBVIOUS
  <2>2. QED
    BY <1>2, <1>7, <2>1, FramesOfFew
<1>8. CASE framesAsStringsQ' = <<WrongFrame>>
  BY <1>2, <1>4, <1>8, MadeRequests, PlainFramesAreKnown
<1>9. QED
  BY <1>5, <1>6, <1>7, <1>8 DEF ProcessOther, SendFrame

LEMMA ProcessKeeps == IInv /\ Process /\ UNCHANGED serverVars => IInv'
<1> SUFFICES ASSUME IInv, Process, UNCHANGED serverVars PROVE IInv'
  OBVIOUS
<1>1. /\ program = "session" /\ keyboard = "process" /\ keyboard' = "processed"
      /\ UNCHANGED <<program, connection, line, listener, keyBoardListenerShouldTerminate,
                     socketVars, typed, serverVars>>
  BY DEF Process, At
<1>2. /\ framesAsStringsQ' \in Seq(Requests)
      /\ \A f \in S!FramesOf(framesAsStringsQ') : KnownFrame(f)'
      /\ NewIds /\ NewReceipts
  BY <1>1, JoinFrames, ExitFrames, LogoutFrames, OtherFrames DEF Process
<1>3. QED
  BY <1>1, <1>2, ProcessMoves

(* What the keyboard listener writes is known, and it remembers a DISCONNECT. *)
LEMMA WriteKeeps ==
  ASSUME IInv, Write(ServerIsOpen(connection)), UNCHANGED serverVars
  PROVE  IInv'
<1> DEFINE frame == Head(framesAsStringsQ)
<1>1. /\ program = "session" /\ keyboard = "write" /\ keyboard' = "sleep"
      /\ connection \in Sockets /\ connection # Null
      /\ UNCHANGED <<program, connection, line, framesAsStringsQ, listener,
                     keyBoardListenerShouldTerminate, toClient, typed>>
      /\ UNCHANGED <<nextSubscriptionId, nextRecieptNumber, gameNameToSubscriptionId,
                     receiptIdToPrintMessage>>
  BY InSession DEF Write, At, protocolVars
<1>2. UNCHANGED <<connectionIdToUsername, shouldTerminate, connectionIdToConnectionHandler,
                  subscriptionIdToChannel, nextConnectionId>>
  BY DEF serverVars
<1>3. /\ framesAsStringsQ \in Seq(Requests) /\ framesAsStringsQ # <<>>
      /\ toServer \in [Sockets -> Seq(Requests)]
      /\ connection < nextConnectionId
  BY <1>1 DEF IInv, ClientTypes
<1>4. frame \in Requests /\ frame \in S!FramesOf(framesAsStringsQ)
  BY <1>3, FramesOfSequence, FramesOfTail
<1>5. \/ toServer' = toServer
      \/ toServer' = [toServer EXCEPT ![connection] = Append(@, frame)]
  BY DEF Write
<1> HIDE DEF frame
<1>6. /\ toServer' \in [Sockets -> Seq(Requests)]
      /\ \A c \in Sockets \ {connection} : toServer'[c] = toServer[c]
      /\ \/ toServer'[connection] = toServer[connection]
         \/ toServer'[connection] = Append(toServer[connection], frame)
  <2>1. Append(toServer[connection], frame) \in Seq(Requests)
    BY <1>1, <1>3, <1>4
  <2>2. QED
    BY <1>1, <1>3, <1>5, <2>1
<1>7. S!FramesOf(toServer'[connection]) \subseteq S!FramesOf(toServer[connection]) \cup {frame}
  <2>1. toServer[connection] \in Seq(Requests)
    BY <1>1, <1>3
  <2>2. S!FramesOf(Append(toServer[connection], frame))
          = S!FramesOf(toServer[connection]) \cup {frame}
    BY <1>4, <2>1, FramesOfAppend
  <2>3. QED
    BY <1>6, <2>2
<1>8. S!IInv'
  BY ServerKeepsIInv DEF IInv
<1>9. ClientTypes'
  BY <1>1, <1>2, <1>3, <1>6 DEF IInv, ClientTypes
<1>10. Counters'
  BY <1>1 DEF IInv, Counters
<1>11. OthersAreSilent'
  BY <1>1, <1>2, <1>6, ConnectionIsInUse DEF IInv, OthersAreSilent
<1>12. FramesAreKnown'
  <2>1. \A f \in S!FramesOf(framesAsStringsQ) \cup S!FramesOf(toServer'[connection]) :
          KnownFrame(f)
    BY <1>1, <1>4, <1>7 DEF IInv, FramesAreKnown
  <2>2. ASSUME NEW f, KnownFrame(f)
        PROVE  KnownFrame(f)'
    BY <1>1, <2>2, KnownFramesStay
  <2>3. QED
    BY <1>1, <2>1, <2>2 DEF FramesAreKnown
<1>13. IdsAgree'
  BY <1>1, <1>2 DEF IInv, IdsAgree, TakenFor
<1>14. EndsAreTrue'
  BY <1>1, <1>2 DEF IInv, EndsAreTrue, EndingError, EndingReceipt, Ended
<1>15. SessionsAgree'
  <2>1. Disconnecting <=> keyBoardListenerShouldTerminate
    BY <1>1 DEF Disconnecting
  <2>2. Disconnecting' <=> (keyBoardListenerShouldTerminate \/ frame.command = "DISCONNECT")
    BY <1>1 DEF Disconnecting, frame
  <2>3. Alive(connection)' <=> Alive(connection)
    BY <1>1, <1>2 DEF Alive, ServerIsOpen
  <2>4. Ended(connection)' <=> Ended(connection)
    BY <1>1, <1>2 DEF Ended
  <2>5. Told => Told'
    BY <1>1, <2>1, <2>2 DEF Told, EndingError
  <2>6. "DISCONNECT" \in Commands(toServer'[connection]) =>
          \/ "DISCONNECT" \in Commands(toServer[connection])
          \/ frame.command = "DISCONNECT"
    BY <1>7 DEF Commands
  <2>7. QED
    BY <1>1, <2>1, <2>2, <2>3, <2>4, <2>5, <2>6 DEF IInv, SessionsAgree
<1>16. Answering'
  BY <1>1 DEF Answering
<1>17. QED
  BY <1>8, <1>9, <1>10, <1>11, <1>12, <1>13, <1>14, <1>15, <1>16 DEF IInv

-----------------------------------------------------------------------------
(* The server listener *)

(* What reading a frame does to the listener, the keyboard's flag and the messages *)
LEMMA FrameIsRead ==
  ASSUME IInv, ReadFrame, NEW f, f = Head(toClient[connection])
  PROVE  /\ listener' \in {"read", "done"}
         /\ keyBoardListenerShouldTerminate' \in BOOLEAN
         /\ keyBoardListenerShouldTerminate => keyBoardListenerShouldTerminate'
         /\ listener' = "done" => EndingError(f) \/ EndingReceipt(f)
         /\ EndingError(f) => listener' = "done"
         /\ receiptIdToPrintMessage' \in [ReceiptIds -> OrNull({Joined, Exited, LoggedOut})]
         /\ \A r \in ReceiptIds :
              \/ receiptIdToPrintMessage'[r] = receiptIdToPrintMessage[r]
              \/ receiptIdToPrintMessage'[r] = Null
<1>1. /\ listener = "read" /\ keyBoardListenerShouldTerminate \in BOOLEAN
      /\ receiptIdToPrintMessage \in [ReceiptIds -> OrNull({Joined, Exited, LoggedOut})]
  BY DEF ReadFrame, IInv, ClientTypes
<1>2. CASE f.command \in {"CONNECTED", "MESSAGE"}
           /\ UNCHANGED <<listener, keyBoardListenerShouldTerminate, receiptIdToPrintMessage>>
  BY <1>1, <1>2 DEF EndingError
<1>3. CASE /\ f.command = "RECEIPT"
           /\ listener' = IF ReceiptEndsListener(receiptIdToPrintMessage[f.receipt_id])
                          THEN "done" ELSE "read"
           /\ UNCHANGED <<receiptIdToPrintMessage, keyBoardListenerShouldTerminate>>
  BY <1>1, <1>3 DEF EndingError, EndingReceipt, ReceiptEndsListener
<1>4. CASE /\ f.command = "RECEIPT"
           /\ receiptIdToPrintMessage' \in
                {receiptIdToPrintMessage,
                 [receiptIdToPrintMessage EXCEPT ![nextRecieptNumber - 1] = Null]}
           /\ UNCHANGED <<listener, keyBoardListenerShouldTerminate>>
  BY <1>1, <1>4 DEF EndingError, OrNull
<1>5. CASE f.command = "ERROR" /\ ReadError(f) /\ UNCHANGED receiptIdToPrintMessage
  BY <1>1, <1>5 DEF EndingError, ReadError, ErrorEndsSession
<1>6. QED
  BY <1>2, <1>3, <1>4, <1>5 DEF ReadFrame, ReadReceipt

LEMMA ReadKeeps == IInv /\ ReadFrame /\ UNCHANGED serverVars => IInv'
<1> SUFFICES ASSUME IInv, ReadFrame, UNCHANGED serverVars PROVE IInv'
  OBVIOUS
<1>1. PICK f : f = Head(toClient[connection])
  OBVIOUS
<1>2. /\ program = "session" /\ listener = "read" /\ toClient[connection] # <<>>
      /\ toClient' = [toClient EXCEPT ![connection] = Tail(@)]
      /\ connection \in Sockets /\ connection # Null
      /\ UNCHANGED <<program, connection, keyboard, line, framesAsStringsQ,
                     nextSubscriptionId, nextRecieptNumber, gameNameToSubscriptionId,
                     toServer, typed>>
  BY InSession DEF ReadFrame, keyboardVars
<1>3. UNCHANGED <<connectionIdToUsername, shouldTerminate, connectionIdToConnectionHandler,
                  subscriptionIdToChannel, nextConnectionId>>
  BY DEF serverVars
<1>4. /\ listener' \in {"read", "done"}
      /\ keyBoardListenerShouldTerminate' \in BOOLEAN
      /\ keyBoardListenerShouldTerminate => keyBoardListenerShouldTerminate'
      /\ listener' = "done" => EndingError(f) \/ EndingReceipt(f)
      /\ EndingError(f) => listener' = "done"
      /\ receiptIdToPrintMessage' \in [ReceiptIds -> OrNull({Joined, Exited, LoggedOut})]
      /\ \A r \in ReceiptIds :
           \/ receiptIdToPrintMessage'[r] = receiptIdToPrintMessage[r]
           \/ receiptIdToPrintMessage'[r] = Null
  BY <1>1, FrameIsRead
<1>5. /\ DOMAIN toClient' = Sockets
      /\ toClient'[connection] = Tail(toClient[connection])
      /\ \A c \in Sockets \ {connection} : toClient'[c] = toClient[c]
      /\ \A c \in Sockets : S!IsSequence(toClient[c])
  BY <1>2 DEF IInv, ClientTypes
<1>6. /\ S!IsSequence(toClient'[connection])
      /\ S!FramesOf(toClient[connection]) = {f} \cup S!FramesOf(toClient'[connection])
  BY <1>1, <1>2, <1>5, FramesOfTail
<1>7. /\ MaxLines \in Nat /\ nextRecieptNumber \in 0 .. MaxLines
      /\ \A r \in 0 .. MaxLines - 1 : r \in ReceiptIds
      /\ Null # LoggedOut
  BY CountersAssumption, ClientNullAssumption DEF IInv, Counters
<1>8. /\ \A r \in 0 .. nextRecieptNumber - 1 : r \in ReceiptIds
      /\ \A r \in 0 .. nextRecieptNumber - 1 :
           receiptIdToPrintMessage'[r] = LoggedOut => receiptIdToPrintMessage[r] = LoggedOut
  <2>1. \A r \in 0 .. nextRecieptNumber - 1 : r \in 0 .. MaxLines - 1
    BY <1>7
  <2>2. QED
    BY <1>4, <1>7, <2>1
<1>9. /\ Alive(connection)' <=> Alive(connection)
      /\ Ended(connection)' <=> Ended(connection)
  BY <1>2, <1>3 DEF Alive, Ended, ServerIsOpen
<1>10. S!IInv'
  BY ServerKeepsIInv DEF IInv
<1>11. ClientTypes'
  <2>1. \A c \in Sockets : S!IsSequence(toClient'[c])
    BY <1>5, <1>6
  <2>2. QED
    BY <1>2, <1>3, <1>4, <1>5, <2>1 DEF IInv, ClientTypes
<1>12. Counters'
  BY <1>2 DEF IInv, Counters
<1>13. OthersAreSilent'
  BY <1>2, <1>3, <1>5, ConnectionIsInUse DEF IInv, OthersAreSilent
<1>14. FramesAreKnown'
  <2>1. ASSUME NEW e, KnownFrame(e)
        PROVE  KnownFrame(e)'
    BY <1>2, <1>8, <2>1, KnownFramesStay
  <2>2. QED
    BY <1>2, <2>1 DEF IInv, FramesAreKnown
<1>15. IdsAgree'
  <2>1. \A r \in nextRecieptNumber .. MaxLines - 1 : r \in 0 .. MaxLines - 1
    BY <1>7
  <2>2. \A r \in nextRecieptNumber .. MaxLines - 1 : receiptIdToPrintMessage'[r] = Null
    BY <1>4, <1>7, <2>1 DEF IInv, IdsAgree
  <2>3. QED
    BY <1>2, <1>3, <2>2 DEF IInv, IdsAgree, TakenFor
<1>16. EndsAreTrue'
  <2>1. \A e \in S!FramesOf(toClient[connection]) :
          /\ (EndingError(e) \/ EndingReceipt(e)) => Ended(connection)
          /\ e.command = "RECEIPT" => e.receipt_id \in 0 .. nextRecieptNumber - 1
    BY <1>2 DEF IInv, EndsAreTrue
  <2>2. ASSUME NEW e \in S!FramesOf(toClient'[connection])
        PROVE  /\ (EndingError(e) \/ EndingReceipt(e)') => Ended(connection)
               /\ e.command = "RECEIPT" => e.receipt_id \in 0 .. nextRecieptNumber - 1
    BY <1>6, <1>8, <2>1 DEF EndingReceipt
  <2>3. listener' = "done" => Ended(connection)
    BY <1>4, <1>6, <2>1
  <2>4. QED
    BY <1>2, <1>9, <2>2, <2>3 DEF EndsAreTrue, EndingError
<1>17. SessionsAgree'
  <2>1. Disconnecting => Disconnecting'
    BY <1>2, <1>4 DEF Disconnecting
  <2>2. Told => Told'
    BY <1>2, <1>4, <1>6, <2>1 DEF Told, EndingError
  <2>3. QED
    BY <1>2, <1>9, <2>1, <2>2 DEF IInv, SessionsAgree, Commands
<1>18. Answering'
  BY <1>2 DEF Answering
<1>19. QED
  BY <1>10, <1>11, <1>12, <1>13, <1>14, <1>15, <1>16, <1>17, <1>18 DEF IInv

-----------------------------------------------------------------------------
(* main() *)

LEMMA AnswerKeeps == IInv /\ Answer /\ UNCHANGED serverVars => IInv'
<1> SUFFICES ASSUME IInv, Answer, UNCHANGED serverVars PROVE IInv'
  OBVIOUS
<1>1. PICK c, f : c = connection /\ f = Head(toClient[connection])
  OBVIOUS
<1>2. /\ program = "answer" /\ toClient[c] # <<>>
      /\ toClient' = [toClient EXCEPT ![c] = Tail(@)]
      /\ UNCHANGED <<keyboard, line, framesAsStringsQ, listener, toServer, typed,
                     keyBoardListenerShouldTerminate, nextSubscriptionId,
                     nextRecieptNumber, gameNameToSubscriptionId, receiptIdToPrintMessage>>
      /\ \/ f.command = "CONNECTED" /\ program' = "session" /\ connection' = c
         \/ f.command # "CONNECTED" /\ program' = "ended" /\ connection' = Null
  BY <1>1 DEF Answer, keyboardVars, protocolVars
<1>3. UNCHANGED <<connectionIdToUsername, shouldTerminate, connectionIdToConnectionHandler,
                  subscriptionIdToChannel, nextConnectionId>>
  BY DEF serverVars
<1>4. c \in Sockets /\ c # Null
  BY <1>1, <1>2 DEF IInv, ClientTypes, OrNull
<1>5. /\ keyboard = "test" /\ framesAsStringsQ = <<>> /\ listener = "read"
      /\ toServer[c] = <<>>
      /\ \/ Alive(c) /\ toClient[c] = <<ConnectedFrame>>
         \/ connectionIdToUsername[c] = Null /\ "CONNECTED" \notin Commands(toClient[c])
  BY <1>1, <1>2 DEF IInv, Answering
<1>6. /\ DOMAIN toClient' = Sockets
      /\ toClient'[c] = Tail(toClient[c])
      /\ \A d \in Sockets \ {c} : toClient'[d] = toClient[d]
      /\ \A d \in Sockets : S!IsSequence(toClient[d])
  BY <1>2, <1>4 DEF IInv, ClientTypes
<1>7. /\ S!IsSequence(toClient'[c])
      /\ S!FramesOf(toClient[c]) = {f} \cup S!FramesOf(toClient'[c])
  BY <1>1, <1>2, <1>4, <1>6, FramesOfTail
<1>8. /\ f.command = "CONNECTED" => Alive(c)
      /\ f.command # "CONNECTED" => connectionIdToUsername[c] = Null
  <2>1. f.command \in Commands(toClient[c])
    BY <1>7 DEF Commands
  <2>2. toClient[c] = <<ConnectedFrame>> => f.command = "CONNECTED"
    BY <1>1 DEF ConnectedFrame
  <2>3. QED
    BY <1>5, <2>1, <2>2
<1>9. S!IInv'
  BY ServerKeepsIInv DEF IInv
<1>10. ClientTypes'
  <2>1. \A d \in Sockets : S!IsSequence(toClient'[d])
    BY <1>6, <1>7
  <2>2. connection' \in OrNull(Sockets)
        /\ (connection' # Null <=> program' \in {"answer", "session"})
        /\ (connection' # Null => connection' < nextConnectionId')
    BY <1>1, <1>2, <1>3, <1>4 DEF IInv, ClientTypes, OrNull
  <2>3. program' \in {"session", "ended"}
    BY <1>2
  <2>4. QED
    BY <1>2, <1>5, <1>6, <2>1, <2>2, <2>3 DEF IInv, ClientTypes
<1>11. Counters'
  BY <1>2, <1>5 DEF IInv, Counters
<1>12. OthersAreSilent'
  <2>1. \A d \in Sockets : d >= nextConnectionId => d # c
    BY <1>1, <1>4, ConnectionIsInUse
  <2>2. ASSUME NEW d \in Sockets, d # connection'
        PROVE  connectionIdToUsername[d] = Null /\ (shouldTerminate[d] \/ toServer[d] = <<>>)
    BY <1>1, <1>2, <1>5, <1>8, <2>2 DEF IInv, OthersAreSilent
  <2>3. QED
    BY <1>2, <1>3, <1>6, <2>1, <2>2 DEF IInv, OthersAreSilent
<1>13. FramesAreKnown'
  BY <1>2, <1>5, FramesOfFew DEF FramesAreKnown
<1>14. IdsAgree'
  BY <1>1, <1>2, <1>3 DEF IInv, IdsAgree, TakenFor
<1>15. EndsAreTrue'
  <2>1. Ended(c)' <=> Ended(c)
    BY <1>3 DEF Ended
  <2>2. QED
    BY <1>1, <1>2, <1>4, <1>5, <1>7, <2>1 DEF IInv, EndsAreTrue, EndingError, EndingReceipt
<1>16. SessionsAgree'
  <2>1. Alive(c)' <=> Alive(c)
    BY <1>3 DEF Alive, ServerIsOpen
  <2>2. Commands(toServer'[c]) = {}
    BY <1>2, <1>5, FramesOfFew DEF Commands
  <2>3. QED
    BY <1>2, <1>8, <2>1, <2>2 DEF SessionsAgree
<1>17. Answering'
  BY <1>2 DEF Answering
<1>18. QED
  BY <1>9, <1>10, <1>11, <1>12, <1>13, <1>14, <1>15, <1>16, <1>17 DEF IInv

LEMMA JoinKeeps == IInv /\ Join /\ UNCHANGED serverVars => IInv'
<1> SUFFICES ASSUME IInv, Join, UNCHANGED serverVars PROVE IInv'
  OBVIOUS
<1>1. /\ program = "session" /\ keyboard = "done" /\ listener = "done"
      /\ program' = "prompt" /\ connection' = Null
      /\ UNCHANGED <<keyboard, line, framesAsStringsQ, listener, toServer, toClient, typed,
                     keyBoardListenerShouldTerminate, nextSubscriptionId,
                     nextRecieptNumber, gameNameToSubscriptionId, receiptIdToPrintMessage>>
  BY DEF Join, keyboardVars, protocolVars, socketVars
<1>2. UNCHANGED <<connectionIdToUsername, shouldTerminate, connectionIdToConnectionHandler,
                  subscriptionIdToChannel, nextConnectionId>>
  BY DEF serverVars
<1>3. S!IInv'
  BY ServerKeepsIInv DEF IInv
<1>4. ClientTypes'
  BY <1>1, <1>2 DEF IInv, ClientTypes, OrNull
<1>5. Counters'
  BY <1>1 DEF IInv, Counters
<1>6. OthersAreSilent'
  <2>1. connectionIdToUsername[connection] = Null /\ shouldTerminate[connection]
    BY <1>1, InSession DEF IInv, EndsAreTrue, Ended
  <2>2. QED
    BY <1>1, <1>2, <2>1 DEF IInv, OthersAreSilent
<1>7. FramesAreKnown' /\ EndsAreTrue' /\ SessionsAgree' /\ Answering'
  BY <1>1 DEF FramesAreKnown, EndsAreTrue, SessionsAgree, Answering
<1>8. IdsAgree'
  BY <1>1 DEF IInv, IdsAgree
<1>9. QED
  BY <1>3, <1>4, <1>5, <1>6, <1>7, <1>8 DEF IInv

LEMMA QuitKeeps ==
  ASSUME IInv, NEW l \in Lines, Quit(l), UNCHANGED serverVars
  PROVE  IInv'
<1>1. /\ program = "prompt" /\ typed < MaxLines /\ connection = Null
      /\ program' = "ended" /\ typed' = typed + 1
      /\ UNCHANGED <<connection, keyboard, line, framesAsStringsQ, listener, toServer,
                     toClient, keyBoardListenerShouldTerminate, nextSubscriptionId,
                     nextRecieptNumber, gameNameToSubscriptionId, receiptIdToPrintMessage>>
  BY DEF Quit, keyboardVars, protocolVars, socketVars, IInv, ClientTypes
<1>2. UNCHANGED <<connectionIdToUsername, shouldTerminate, connectionIdToConnectionHandler,
                  subscriptionIdToChannel, nextConnectionId>>
  BY DEF serverVars
<1>3. S!IInv'
  BY ServerKeepsIInv DEF IInv
<1>4. ClientTypes'
  BY <1>1, <1>2 DEF IInv, ClientTypes, OrNull
<1>5. Counters'
  BY <1>1, CountersAssumption DEF IInv, Counters
<1>6. OthersAreSilent'
  BY <1>1, <1>2 DEF IInv, OthersAreSilent
<1>7. FramesAreKnown' /\ EndsAreTrue' /\ SessionsAgree' /\ Answering'
  BY <1>1 DEF FramesAreKnown, EndsAreTrue, SessionsAgree, Answering
<1>8. IdsAgree'
  BY <1>1 DEF IInv, IdsAgree
<1>9. QED
  BY <1>3, <1>4, <1>5, <1>6, <1>7, <1>8 DEF IInv

(* A new session is its own: nothing is left on its connection, and its maps are empty. *)
LEMMA LogInKeeps ==
  ASSUME IInv, NEW l \in Lines, Server!Accept, LogIn(l, nextConnectionId)
  PROVE  IInv'
<1>1. PICK c, f : c = nextConnectionId /\ f = ConnectFrame(l)
  OBVIOUS
<1>2. /\ program = "prompt" /\ typed < MaxLines /\ l.command = "login"
      /\ program' = "answer" /\ connection' = c
      /\ keyboard' = "test" /\ line' = Null /\ framesAsStringsQ' = <<>>
      /\ listener' = "read" /\ keyBoardListenerShouldTerminate' = FALSE
      /\ nextSubscriptionId' = 0 /\ nextRecieptNumber' = 0
      /\ gameNameToSubscriptionId' = NoIds
      /\ receiptIdToPrintMessage' = NoMessages
      /\ toServer' = [toServer EXCEPT ![c] = <<f>>]
      /\ typed' = typed + 1 /\ toClient' = toClient
  BY <1>1 DEF LogIn
<1>3. /\ c < MaxConnections /\ nextConnectionId' = c + 1
      /\ UNCHANGED <<shouldTerminate, connectionIdToUsername, subscriptionIdToChannel>>
  BY <1>1 DEF Server!Accept, Server!sharedVars, Server!userVars
<1>4. c \in 0 .. MaxConnections /\ MaxConnections \in Nat
  BY <1>1, BoundsAssumption DEF IInv, S!IInv, S!TypeOK
<1>5. c \in Sockets /\ c # Null /\ c < nextConnectionId' /\ connection = Null
  BY <1>2, <1>3, <1>4, ConnectionsAssumption, ClientNullAssumption DEF IInv, ClientTypes
<1>6. \A d \in Sockets : d >= nextConnectionId' => d >= nextConnectionId /\ d # c
  BY <1>1, <1>3, <1>4, ConnectionsAssumption
<1>7. /\ toServer \in [Sockets -> Seq(Requests)] /\ toClient[c] = <<>>
      /\ connectionIdToUsername[c] = Null /\ ~shouldTerminate[c]
  BY <1>1, <1>4, <1>5 DEF IInv, ClientTypes, OthersAreSilent
<1>8. /\ f \in Requests /\ f.command = "CONNECT" /\ f.headers = ConnectHeaders
      /\ f.receipt_id = Null
  BY <1>1, <1>2, MadeRequests, MadeFields
<1>9. /\ toServer' \in [Sockets -> Seq(Requests)] /\ toServer'[c] = <<f>>
      /\ \A d \in Sockets \ {c} : toServer'[d] = toServer[d]
  <2>1. <<f>> \in Seq(Requests)
    BY <1>8
  <2>2. QED
    BY <1>2, <1>5, <1>7, <2>1
<1>10. S!IInv'
  <2>1. S!Next
    BY SameSocketSteps DEF S!Next
  <2>2. QED
    BY <2>1, ServerKeepsIInv DEF IInv
<1>11. ClientTypes'
  <2>1. /\ gameNameToSubscriptionId' \in [Channels -> OrNull(SubscriptionIds)]
        /\ receiptIdToPrintMessage' \in [ReceiptIds -> OrNull({Joined, Exited, LoggedOut})]
        /\ framesAsStringsQ' \in Seq(Requests)
    BY <1>2 DEF NoIds, NoMessages, OrNull
  <2>2. DOMAIN toClient = Sockets /\ \A d \in Sockets : S!IsSequence(toClient[d])
    BY DEF IInv, ClientTypes
  <2>3. QED
    BY <1>2, <1>5, <1>9, <2>1, <2>2 DEF ClientTypes, OrNull
<1>12. Counters'
  BY <1>2, CountersAssumption DEF IInv, Counters
<1>13. OthersAreSilent'
  <2>1. /\ connectionIdToUsername' = connectionIdToUsername
        /\ shouldTerminate' = shouldTerminate /\ toClient' = toClient /\ connection' = c
    BY <1>2, <1>3
  <2>2. ASSUME NEW d \in Sockets, d # c
        PROVE  /\ connectionIdToUsername[d] = Null
               /\ shouldTerminate[d] \/ toServer'[d] = <<>>
    BY <1>5, <1>9, <2>2, ClientNullAssumption DEF IInv, OthersAreSilent
  <2>3. ASSUME NEW d \in Sockets, d >= nextConnectionId'
        PROVE  ~shouldTerminate[d] /\ toServer'[d] = <<>> /\ toClient[d] = <<>>
    BY <1>6, <1>9, <2>3 DEF IInv, OthersAreSilent
  <2>4. QED
    BY <2>1, <2>2, <2>3 DEF OthersAreSilent
<1>14. FramesAreKnown'
  <2>1. KnownFrame(f)'
    BY <1>8 DEF KnownFrame, S!Complete, ConnectHeaders, S!ConnectHeaders
  <2>2. QED
    BY <1>2, <1>9, <2>1, FramesOfFew DEF FramesAreKnown
<1>15. IdsAgree'
  <2>1. \A r \in 0 .. MaxLines - 1 : r \in ReceiptIds
    BY CountersAssumption
  <2>2. /\ \A g \in Channels : gameNameToSubscriptionId'[g] = Null
        /\ \A r \in 0 .. MaxLines - 1 : receiptIdToPrintMessage'[r] = Null
    BY <1>2, <2>1 DEF NoIds, NoMessages
  <2>3. connectionIdToUsername'[connection'] = Null
    BY <1>2, <1>3, <1>7
  <2>4. nextRecieptNumber' = 0
    BY <1>2
  <2>5. QED
    BY <2>2, <2>3, <2>4 DEF IdsAgree, OrNull
<1>16. EndsAreTrue'
  BY <1>2, <1>7, FramesOfFew DEF EndsAreTrue
<1>17. SessionsAgree'
  BY <1>2 DEF SessionsAgree
<1>18. Answering'
  BY <1>2, <1>3, <1>7, <1>8, <1>9 DEF Answering
<1>19. QED
  BY <1>10, <1>11, <1>12, <1>13, <1>14, <1>15, <1>16, <1>17, <1>18 DEF IInv

-----------------------------------------------------------------------------
(* The server's threads *)

(* Only the session's connection has something the server would handle. *)
LEMMA ReceivesFromSession ==
  ASSUME IInv, NEW c \in Sockets, Receive(c)
  PROVE  /\ c = connection /\ c # Null
         /\ program \in {"answer", "session"}
         /\ ~shouldTerminate[c] /\ ServerIsOpen(c)
<1>1. ~shouldTerminate[c] /\ toServer[c] # <<>> /\ ServerIsOpen(c)
  BY DEF Receive, Server!Receive, Server!IsOpen, ServerIsOpen
<1>2. c = connection
  BY <1>1 DEF IInv, OthersAreSilent
<1>3. QED
  BY <1>1, <1>2, ClientNullAssumption DEF IInv, ClientTypes

(* The server handles a frame of the session, and what it sends arrives. *)
LEMMA HandledFrame ==
  ASSUME IInv, NEW c \in Sockets, Receive(c), NEW f, f = Head(toServer[c])
  PROVE  /\ KnownFrame(f) /\ f \in Requests
         /\ toServer \in [Sockets -> Seq(Requests)]
         /\ toServer[c] # <<>>
         /\ S!FramesOf(toServer[c]) = {f} \cup S!FramesOf(Tail(toServer[c]))
         /\ S!SessionStep(c, f)
         /\ \A d \in Sockets \ {c} :
              /\ connectionIdToUsername'[d] = connectionIdToUsername[d]
              /\ shouldTerminate'[d] = shouldTerminate[d]
         /\ UNCHANGED <<connectionIdToConnectionHandler, nextConnectionId>>
<1>1. /\ toServer \in [Sockets -> Seq(Requests)] /\ toServer[c] # <<>>
      /\ c = connection /\ c # Null
  BY ReceivesFromSession DEF IInv, ClientTypes, Receive
<1>2. toServer[c] \in Seq(Requests)
  BY <1>1
<1>3. /\ f \in S!FramesOf(toServer[c]) /\ f \in Requests
      /\ S!FramesOf(toServer[c]) = {f} \cup S!FramesOf(Tail(toServer[c]))
  BY <1>1, <1>2, FramesOfSequence, FramesOfTail
<1>4. KnownFrame(f)
  BY <1>1, <1>3 DEF IInv, FramesAreKnown
<1>5. S!process(c, f) /\ UNCHANGED nextConnectionId
  BY SameProcess DEF Receive, Server!Receive
<1>6. S!IInv /\ S!Complete(f) /\ c \in S!ConnectionIds
  BY <1>4, ServerSockets DEF IInv, KnownFrame
<1>7. /\ S!SessionStep(c, f)
      /\ \A d \in S!ConnectionIds \ {c} :
           /\ connectionIdToUsername'[d] = connectionIdToUsername[d]
           /\ shouldTerminate'[d] = shouldTerminate[d]
  BY <1>3, <1>5, <1>6, S!ProcessIsASessionStep, ServerAssumptions
<1>8. UNCHANGED connectionIdToConnectionHandler
  BY <1>3, <1>5, <1>6, S!ProcessSetsFlag, ServerAssumptions
<1>9. QED
  BY <1>1, <1>3, <1>4, <1>5, <1>7, <1>8, ServerSockets

(* What a step of the session sends *)
LEMMA SentFrames ==
  ASSUME NEW c, NEW f, S!SessionStep(c, f), KnownFrame(f)
  PROVE  /\ S!IsSequence(sent'[c])
         /\ \A e \in S!FramesOf(sent'[c]) :
              /\ e.command = "RECEIPT" => e.receipt_id \in 0 .. nextRecieptNumber - 1
              /\ EndingError(e) \/ EndingReceipt(e) => S!SessionEnds(c, f)
              /\ e.command = "CONNECTED" => S!SessionBegins(c, f)
<1>1. ASSUME NEW e, S!IsReceiptFor(e, f)
      PROVE  /\ e.command = "RECEIPT" /\ e.receipt_id \in 0 .. nextRecieptNumber - 1
             /\ EndingReceipt(e) => f.command = "DISCONNECT"
  BY <1>1 DEF S!IsReceiptFor, S!ReceiptFrame, KnownFrame, EndingReceipt
<1>2. CASE S!SessionBegins(c, f)
  BY <1>2, FramesOfFew
     DEF S!SessionBegins, S!ConnectedFrame, EndingError, EndingReceipt
<1>3. CASE S!LoginIsRefused(c, f)
  <2>1. PICK e : e = S!ErrorFrame(S!AlreadyLoggedIn, f.receipt_id, {})
    OBVIOUS
  <2>2. e.command = "ERROR" /\ e.message = AlreadyLoggedIn
    BY <2>1 DEF S!ErrorFrame, S!AlreadyLoggedIn, AlreadyLoggedIn
  <2>3. sent'[c] = <<e>>
    BY <1>3, <2>1 DEF S!LoginIsRefused
  <2>4. QED
    BY <2>2, <2>3, FramesOfFew DEF EndingError, EndingReceipt
<1>4. CASE S!SessionEnds(c, f)
  BY <1>1, <1>4 DEF S!SessionEnds, S!IsFinalError
<1>5. CASE S!SessionGoesOn(c, f)
  <2>1. \A e \in S!FramesOf(sent'[c]) : e.command = "MESSAGE" \/ S!IsReceiptFor(e, f)
    BY <1>5 DEF S!SessionGoesOn
  <2>2. f.command # "DISCONNECT" /\ S!IsSequence(sent'[c])
    BY <1>5 DEF S!SessionGoesOn
  <2>3. QED
    BY <1>1, <2>1, <2>2 DEF EndingError, EndingReceipt
<1>6. QED
  BY <1>2, <1>3, <1>4, <1>5 DEF S!SessionStep

(* One frame is handled: the session begins, goes on or ends, and its client is told. *)
LEMMA ReceiveKeeps ==
  ASSUME IInv, NEW c \in Sockets, Receive(c)
  PROVE  IInv'
<1>1. PICK f : f = Head(toServer[c])
  OBVIOUS
<1>2. /\ c = connection /\ c # Null /\ program \in {"answer", "session"}
      /\ ~shouldTerminate[c] /\ ServerIsOpen(c)
  BY ReceivesFromSession
<1>3. /\ KnownFrame(f) /\ f \in Requests
      /\ toServer \in [Sockets -> Seq(Requests)] /\ toServer[c] # <<>>
      /\ S!FramesOf(toServer[c]) = {f} \cup S!FramesOf(Tail(toServer[c]))
      /\ S!SessionStep(c, f)
      /\ \A d \in Sockets \ {c} :
           /\ connectionIdToUsername'[d] = connectionIdToUsername[d]
           /\ shouldTerminate'[d] = shouldTerminate[d]
      /\ UNCHANGED <<connectionIdToConnectionHandler, nextConnectionId>>
  BY <1>1, HandledFrame
<1>4. /\ UNCHANGED <<program, connection, keyboard, line, framesAsStringsQ, listener, typed,
                     keyBoardListenerShouldTerminate, nextSubscriptionId,
                     nextRecieptNumber, gameNameToSubscriptionId, receiptIdToPrintMessage>>
      /\ toServer' = [toServer EXCEPT ![c] = Tail(@)]
      /\ toClient' = [d \in Sockets |->
                        IF d = c THEN toClient[d] \o sent'[d] ELSE toClient[d]]
  BY <1>2 DEF Receive, Deliver, notSocket, keyboardVars, protocolVars
<1>5. /\ S!IsSequence(sent'[c])
      /\ \A e \in S!FramesOf(sent'[c]) :
           /\ e.command = "RECEIPT" => e.receipt_id \in 0 .. nextRecieptNumber - 1
           /\ EndingError(e) \/ EndingReceipt(e) => S!SessionEnds(c, f)
           /\ e.command = "CONNECTED" => S!SessionBegins(c, f)
  BY <1>3, SentFrames
<1>6. /\ toServer' \in [Sockets -> Seq(Requests)] /\ toServer'[c] = Tail(toServer[c])
      /\ \A d \in Sockets \ {c} : toServer'[d] = toServer[d]
  <2>1. Tail(toServer[c]) \in Seq(Requests)
    <3>1. toServer[c] \in Seq(Requests)
      BY <1>3
    <3>2. QED
      BY <1>3, <3>1
  <2>2. QED
    BY <1>3, <1>4, <2>1
<1>7. /\ DOMAIN toClient' = Sockets
      /\ toClient'[c] = toClient[c] \o sent'[c]
      /\ \A d \in Sockets \ {c} : toClient'[d] = toClient[d]
      /\ \A d \in Sockets : S!IsSequence(toClient[d])
  BY <1>4 DEF IInv, ClientTypes
<1>8. /\ S!IsSequence(toClient'[c])
      /\ S!FramesOf(toClient'[c]) = S!FramesOf(toClient[c]) \cup S!FramesOf(sent'[c])
  BY <1>5, <1>7, FramesOfConcat
<1>9. S!SessionEnds(c, f) => Ended(c)'
  BY DEF S!SessionEnds, Ended
<1>10. /\ S!SessionBegins(c, f) => Alive(c)'
       /\ S!LoginIsRefused(c, f) \/ S!SessionGoesOn(c, f) =>
            /\ connectionIdToUsername'[c] = connectionIdToUsername[c]
            /\ Alive(c) => Alive(c)'
  <2>1. ServerIsOpen(c)'
    BY <1>2, <1>3 DEF ServerIsOpen
  <2>2. QED
    BY <2>1, NullAssumption
       DEF S!SessionBegins, S!LoginIsRefused, S!SessionGoesOn, Alive
<1>11. S!IInv'
  <2>1. S!Receive(c, f) /\ c \in S!ConnectionIds
    BY <1>1, SameSocketSteps, ServerSockets DEF Receive
  <2>2. S!Next
    BY <1>3, <2>1 DEF S!Next, S!ThreadStep
  <2>3. QED
    BY <2>2, ServerKeepsIInv DEF IInv
<1>12. ClientTypes'
  <2>1. \A d \in Sockets : S!IsSequence(toClient'[d])
    BY <1>7, <1>8
  <2>2. QED
    BY <1>3, <1>4, <1>6, <1>7, <2>1 DEF IInv, ClientTypes
<1>13. Counters'
  BY <1>4 DEF IInv, Counters
<1>14. OthersAreSilent'
  <2>1. \A d \in Sockets : d >= nextConnectionId => d # c
    BY <1>2, ConnectionIsInUse
  <2>2. ASSUME NEW d \in Sockets \ {c}
        PROVE  /\ connectionIdToUsername'[d] = connectionIdToUsername[d]
               /\ shouldTerminate'[d] = shouldTerminate[d]
               /\ toServer'[d] = toServer[d] /\ toClient'[d] = toClient[d]
    BY <1>3, <1>6, <1>7
  <2>3. OthersAreSilent /\ UNCHANGED <<connection, nextConnectionId>>
    BY <1>3, <1>4 DEF IInv
  <2>4. QED
    BY <1>2, <2>1, <2>2, <2>3 DEF OthersAreSilent
<1>15. FramesAreKnown'
  <2>1. ASSUME NEW e, KnownFrame(e)
        PROVE  KnownFrame(e)'
    BY <1>4, <2>1, KnownFramesStay
  <2>2. \A e \in S!FramesOf(framesAsStringsQ) \cup S!FramesOf(toServer'[c]) : KnownFrame(e)
    BY <1>2, <1>3, <1>6 DEF IInv, FramesAreKnown
  <2>3. QED
    BY <1>2, <1>4, <2>1, <2>2 DEF FramesAreKnown
<1>16. IdsAgree'
  <2>1. ASSUME NEW i \in SubscriptionIds, connectionIdToUsername'[c] # Null,
               subscriptionIdToChannel'[connectionIdToUsername'[c]][i] # Null
        PROVE  TakenFor(i, subscriptionIdToChannel'[connectionIdToUsername'[c]][i])
    <3>1. \A k \in SubscriptionIds :
            LET g == subscriptionIdToChannel[connectionIdToUsername[c]][k]
            IN  connectionIdToUsername[c] # Null /\ g # Null => TakenFor(k, g)
      BY <1>2 DEF IInv, IdsAgree
    <3>2. CASE S!SessionBegins(c, f)
      BY <2>1, <3>2 DEF S!SessionBegins
    <3>3. CASE S!LoginIsRefused(c, f)
      BY <2>1, <3>1, <3>3 DEF S!LoginIsRefused
    <3>4. CASE S!SessionEnds(c, f)
      BY <2>1, <3>4 DEF S!SessionEnds
    <3>5. CASE S!SessionGoesOn(c, f)
      <4>1. /\ connectionIdToUsername'[c] = connectionIdToUsername[c]
            /\ LET now  == subscriptionIdToChannel[connectionIdToUsername[c]][i]
                   next == subscriptionIdToChannel'[connectionIdToUsername[c]][i]
               IN  \/ next = now
                   \/ next = Null
                   \/ f.command = "SUBSCRIBE" /\ i = f.id /\ next = f.destination
        BY <3>5 DEF S!SessionGoesOn
      <4>2. f.command = "SUBSCRIBE" => TakenFor(f.id, f.destination)
        BY <1>3 DEF KnownFrame
      <4>3. QED
        BY <2>1, <3>1, <4>1, <4>2
    <3>6. QED
      BY <1>3, <3>2, <3>3, <3>4, <3>5 DEF S!SessionStep
  <2>2. \A i, g : TakenFor(i, g)' <=> TakenFor(i, g)
    BY <1>4 DEF TakenFor
  <2>3. ASSUME NEW i \in SubscriptionIds, connectionIdToUsername'[c] # Null,
               subscriptionIdToChannel'[connectionIdToUsername'[c]][i] # Null
        PROVE  TakenFor(i, subscriptionIdToChannel[connectionIdToUsername[c]][i])'
    BY <1>2, <1>4, <2>1, <2>2, <2>3 DEF TakenFor
  <2>4. QED
    BY <1>2, <1>4, <2>3 DEF IInv, IdsAgree
<1>17. EndsAreTrue'
  <2>1. ~Ended(c)
    BY <1>2 DEF Ended
  <2>2. \A e \in S!FramesOf(toClient[c]) :
          /\ ~EndingError(e) /\ ~EndingReceipt(e)
          /\ e.command = "RECEIPT" => e.receipt_id \in 0 .. nextRecieptNumber - 1
    BY <1>2, <2>1 DEF IInv, EndsAreTrue
  <2>3. ~(program = "session" /\ listener = "done")
    BY <1>2, <2>1 DEF IInv, EndsAreTrue
  <2>4. \A e \in S!FramesOf(toClient'[c]) :
          /\ EndingError(e) \/ EndingReceipt(e) => Ended(c)'
          /\ e.command = "RECEIPT" => e.receipt_id \in 0 .. nextRecieptNumber - 1
    BY <1>5, <1>8, <1>9, <2>2
  <2>5. \A e : EndingReceipt(e)' <=> EndingReceipt(e)
    BY <1>4 DEF EndingReceipt
  <2>6. QED
    BY <1>2, <1>4, <2>3, <2>4, <2>5 DEF EndsAreTrue, EndingError
<1>18. SessionsAgree'
  <2> SUFFICES ASSUME program = "session"
               PROVE  /\ Alive(c)' \/ (Ended(c)' /\ Told')
                      /\ "DISCONNECT" \in Commands(toServer'[c]) => Disconnecting'
    BY <1>2, <1>4 DEF SessionsAgree
  <2>1. Alive(c) /\ ("DISCONNECT" \in Commands(toServer[c]) => Disconnecting)
    BY <1>2 DEF IInv, SessionsAgree, Ended
  <2>2. Disconnecting' <=> Disconnecting
    BY <1>4 DEF Disconnecting
  <2>3. Commands(toServer[c]) = {f.command} \cup Commands(toServer'[c])
    BY <1>3, <1>6 DEF Commands
  <2>4. CASE S!SessionEnds(c, f)
    <3>1. CASE f.command = "DISCONNECT"
      BY <1>9, <2>1, <2>2, <2>3, <2>4, <3>1 DEF Told
    <3>2. CASE \E e \in S!FramesOf(sent'[c]) : S!IsFinalError(e)
      <4>1. \E e \in S!FramesOf(toClient'[c]) : EndingError(e)
        BY <1>8, <3>2
           DEF S!IsFinalError, EndingError, S!AlreadyLoggedIn, AlreadyLoggedIn
      <4>2. Told'
        BY <1>2, <1>4, <4>1 DEF Told, EndingError
      <4>3. QED
        BY <1>9, <2>1, <2>2, <2>3, <2>4, <4>2
    <3>3. QED
      BY <2>4, <3>1, <3>2 DEF S!SessionEnds
  <2>5. QED
    BY <1>3, <1>10, <2>1, <2>2, <2>3, <2>4 DEF S!SessionStep
<1>19. Answering'
  <2> SUFFICES ASSUME program = "answer" PROVE Answering'
    BY <1>4 DEF Answering
  <2>1. /\ keyboard = "test" /\ framesAsStringsQ = <<>> /\ listener = "read"
        /\ Len(toServer[c]) = 1 /\ f.command = "CONNECT" /\ toClient[c] = <<>>
        /\ connectionIdToUsername[c] = Null
    BY <1>1, <1>2, <1>3 DEF IInv, Answering
  <2>2. toServer'[c] = <<>>
    <3>1. toServer[c] \in Seq(Requests)
      BY <1>3
    <3>2. QED
      BY <1>6, <2>1, <3>1
  <2>3. toClient'[c] = sent'[c]
    <3> DEFINE T == S!FramesOf(sent'[c])
    <3>1. sent'[c] \in Seq(T)
      BY <1>5 DEF S!IsSequence
    <3> HIDE DEF T
    <3>2. QED
      BY <1>7, <2>1, <3>1
  <2>4. S!SessionBegins(c, f) => sent'[c] = <<ConnectedFrame>>
    BY DEF S!SessionBegins, S!ConnectedFrame, ConnectedFrame
  <2>5. CASE S!SessionBegins(c, f)
    <3>1. <<ConnectedFrame>> # <<>>
      OBVIOUS
    <3>2. QED
      BY <1>2, <1>4, <1>10, <2>1, <2>2, <2>3, <2>4, <2>5, <3>1 DEF Answering
  <2>6. CASE ~S!SessionBegins(c, f)
    <3>1. connectionIdToUsername'[c] = Null
      BY <1>3, <1>9, <1>10, <2>1, <2>6 DEF S!SessionStep, Ended
    <3>2. sent'[c] # <<>>
      <4>1. S!LoginIsRefused(c, f) \/ S!SessionEnds(c, f)
        BY <1>3, <2>1, <2>6 DEF S!SessionStep, S!SessionGoesOn, S!LoggedIn
      <4>2. S!LoginIsRefused(c, f) => sent'[c] # <<>>
        BY DEF S!LoginIsRefused
      <4>3. S!SessionEnds(c, f) => sent'[c] # <<>>
        BY <2>1, FramesOfFew DEF S!SessionEnds
      <4>4. QED
        BY <4>1, <4>2, <4>3
    <3>3. "CONNECTED" \notin Commands(sent'[c])
      BY <1>5, <2>6 DEF Commands
    <3>4. QED
      BY <1>2, <1>4, <2>1, <2>2, <2>3, <3>1, <3>2, <3>3 DEF Answering, Commands
  <2>7. QED
    BY <2>5, <2>6
<1>20. QED
  BY <1>11, <1>12, <1>13, <1>14, <1>15, <1>16, <1>17, <1>18, <1>19 DEF IInv

(* A socket is closed: its session has ended, or is none. *)
LEMMA SocketCloses ==
  ASSUME IInv, NEW c \in Sockets, S!IInv',
         shouldTerminate[c] \/ c # connection,
         \A d \in Sockets \ {c} :
           connectionIdToConnectionHandler'[d] = connectionIdToConnectionHandler[d],
         toServer' \in {toServer, [toServer EXCEPT ![c] = <<>>]},
         UNCHANGED <<connectionIdToUsername, shouldTerminate, subscriptionIdToChannel,
                     nextConnectionId, notSocket, toClient>>
  PROVE  IInv'
<1> USE DEF notSocket, keyboardVars, protocolVars
<1>1. toServer \in [Sockets -> Seq(Requests)] /\ connection \in OrNull(Sockets)
  BY DEF IInv, ClientTypes
<1>2. /\ toServer' \in [Sockets -> Seq(Requests)]
      /\ \A d \in Sockets : toServer'[d] = toServer[d] \/ (d = c /\ toServer'[d] = <<>>)
  <2>1. <<>> \in Seq(Requests)
    OBVIOUS
  <2>2. QED
    BY <1>1, <2>1
<1>3. \A d \in Sockets : S!FramesOf(toServer'[d]) \subseteq S!FramesOf(toServer[d])
  BY <1>2, FramesOfFew
<1>4. connection # Null => connection \in Sockets
  BY <1>1 DEF OrNull
<1>5. ClientTypes'
  BY <1>2 DEF IInv, ClientTypes
<1>6. Counters'
  BY DEF IInv, Counters
<1>7. OthersAreSilent'
  BY <1>2 DEF IInv, OthersAreSilent
<1>8. FramesAreKnown'
  <2>1. ASSUME NEW f, KnownFrame(f)
        PROVE  KnownFrame(f)'
    BY <2>1, KnownFramesStay
  <2>2. QED
    BY <1>3, <1>4, <2>1 DEF IInv, FramesAreKnown
<1>9. IdsAgree'
  BY DEF IInv, IdsAgree, TakenFor
<1>10. EndsAreTrue'
  BY DEF IInv, EndsAreTrue, EndingError, EndingReceipt, Ended
<1>11. connection # Null =>
         /\ Alive(connection) => Alive(connection)'
         /\ Ended(connection) => Ended(connection)'
  BY <1>4 DEF Alive, Ended, ServerIsOpen
<1>12. SessionsAgree'
  <2>1. Disconnecting' <=> Disconnecting
    BY DEF Disconnecting
  <2>2. Told => Told'
    BY <2>1 DEF Told, EndingError
  <2>3. program = "session" =>
          Commands(toServer'[connection]) \subseteq Commands(toServer[connection])
    BY <1>3, InSession DEF Commands
  <2>4. QED
    BY <1>11, <2>1, <2>2, <2>3, InSession DEF IInv, SessionsAgree
<1>13. Answering'
  <2> SUFFICES ASSUME program = "answer" PROVE Answering'
    BY DEF Answering
  <2>1. connection # Null
    BY DEF IInv, ClientTypes
  <2>2. c # connection => toServer'[connection] = toServer[connection]
    BY <1>2, <1>4, <2>1
  <2>3. c = connection => toServer[connection] = <<>>
    <3> SUFFICES ASSUME c = connection PROVE toServer[connection] = <<>>
      OBVIOUS
    <3>1. shouldTerminate[connection]
      OBVIOUS
    <3>2. QED
      BY <3>1 DEF IInv, Answering
  <2>4. toServer'[connection] = toServer[connection]
    BY <1>2, <1>4, <2>1, <2>2, <2>3
  <2>5. QED
    BY <1>11, <2>1, <2>4 DEF IInv, Answering, Commands
<1>14. QED
  BY <1>5, <1>6, <1>7, <1>8, <1>9, <1>10, <1>12, <1>13 DEF IInv

LEMMA CloseKeeps ==
  ASSUME IInv, NEW c \in Sockets, Close(c)
  PROVE  IInv'
<1>1. S!LeaveLoop(c) /\ c \in S!ConnectionIds
  BY SameSocketSteps, ServerSockets DEF Close
<1>2. S!IInv'
  BY <1>1, ServerKeepsIInv DEF IInv, S!Next, S!ThreadStep
<1>3. /\ shouldTerminate[c]
      /\ UNCHANGED <<connectionIdToUsername, shouldTerminate, subscriptionIdToChannel,
                     nextConnectionId, notSocket, toClient>>
      /\ toServer' = [toServer EXCEPT ![c] = <<>>]
      /\ \A d \in Sockets \ {c} :
           connectionIdToConnectionHandler'[d] = connectionIdToConnectionHandler[d]
  <2>1. connectionIdToConnectionHandler \in [Sockets -> S!OrNull({"open", "closed"})]
    BY ServerSockets DEF IInv, S!IInv, S!TypeOK, S!ConnectionsTypeOK
  <2>2. QED
    BY <1>1, <2>1 DEF Close, S!LeaveLoop, S!CloseHandler, S!sharedVars, S!userVars
<1>4. QED
  BY <1>2, <1>3, SocketCloses

LEMMA EndOfStreamKeeps ==
  ASSUME IInv, NEW c \in Sockets, EndOfStream(c)
  PROVE  IInv'
<1>1. S!ConnectionLost(c) /\ c \in S!ConnectionIds
  BY SameSocketSteps, ServerSockets DEF EndOfStream
<1>2. S!IInv'
  BY <1>1, ServerKeepsIInv DEF IInv, S!Next, S!ThreadStep
<1>3. /\ c # connection
      /\ UNCHANGED <<connectionIdToUsername, shouldTerminate, subscriptionIdToChannel,
                     nextConnectionId, notSocket, toClient, toServer>>
      /\ \A d \in Sockets \ {c} :
           connectionIdToConnectionHandler'[d] = connectionIdToConnectionHandler[d]
  <2>1. connectionIdToConnectionHandler \in [Sockets -> S!OrNull({"open", "closed"})]
    BY ServerSockets DEF IInv, S!IInv, S!TypeOK, S!ConnectionsTypeOK
  <2>2. QED
    BY <1>1, <2>1 DEF EndOfStream, S!ConnectionLost, S!CloseHandler, S!sharedVars,
       S!userVars, clientVars, notSocket, socketVars
<1>4. QED
  BY <1>2, <1>3, SocketCloses

-----------------------------------------------------------------------------
(* The theorems *)

LEMMA StutterKeeps == IInv /\ UNCHANGED vars => IInv'
<1> SUFFICES ASSUME IInv, UNCHANGED vars PROVE IInv'
  OBVIOUS
<1>1. S!IInv'
  BY ServerKeepsIInv DEF IInv, vars
<1>2. UNCHANGED <<program, connection, keyboard, line, framesAsStringsQ, listener, typed,
                  keyBoardListenerShouldTerminate, nextSubscriptionId, nextRecieptNumber,
                  gameNameToSubscriptionId, receiptIdToPrintMessage, toServer, toClient,
                  connectionIdToUsername, shouldTerminate, connectionIdToConnectionHandler,
                  subscriptionIdToChannel, nextConnectionId>>
  BY DEF vars, clientVars, serverVars, keyboardVars, protocolVars, socketVars
<1>3. ClientTypes' /\ Counters' /\ OthersAreSilent' /\ FramesAreKnown' /\ IdsAgree'
  BY <1>2 DEF IInv, ClientTypes, Counters, OthersAreSilent, FramesAreKnown, IdsAgree,
              KnownFrame, TakenFor
<1>4. EndsAreTrue' /\ SessionsAgree' /\ Answering'
  BY <1>2 DEF IInv, EndsAreTrue, SessionsAgree, Answering, EndingError, EndingReceipt,
              Told, Disconnecting, Alive, Ended, ServerIsOpen
<1>5. QED
  BY <1>1, <1>3, <1>4 DEF IInv

(* Every step of the client's two threads and main, and of the server's, keeps the
   invariant. *)
LEMMA NextIInv == IInv /\ [Next]_vars => IInv'
<1> SUFFICES ASSUME IInv, [Next]_vars PROVE IInv'
  OBVIOUS
<1>1. CASE \E l \in Lines : TypeAtPrompt(l)
  BY <1>1, LogInKeeps, QuitKeeps DEF TypeAtPrompt
<1>2. CASE \E l \in Lines : TypeInSession(l)
  BY <1>2, GetLineKeeps DEF TypeInSession
<1>3. CASE Main
  BY <1>3, AnswerKeeps, JoinKeeps DEF Main, MainStep
<1>4. CASE Keyboard
  BY <1>4, TestKeeps, ProcessKeeps, ProcessedKeeps, TestSendKeeps, SleptKeeps, WriteKeeps
     DEF Keyboard, KeyboardStep
<1>5. CASE Listener
  BY <1>5, ReadKeeps DEF Listener
<1>6. CASE \E c \in Sockets : ServerThread(c)
  BY <1>6, ReceiveKeeps, CloseKeeps, EndOfStreamKeeps DEF ServerThread
<1>7. CASE UNCHANGED vars
  BY <1>7, StutterKeeps
<1>8. QED
  BY <1>1, <1>2, <1>3, <1>4, <1>5, <1>6, <1>7 DEF Next

(* The invariant, of every client and server of any size: what runStompClient's threads,
   StompClientProtocol and the server's protocol keep between them. *)
THEOREM Invariance == Spec => []IInv
BY InitIInv, NextIInv, PTL DEF Spec

(* The variables of the two sides hold values of their types: what the client writes is
   a frame the server knows, and a session has a connection. *)
THEOREM TypeCorrect == Spec => []TypeOK
<1>1. IInv => TypeOK
  <2> SUFFICES ASSUME IInv PROVE TypeOK
    OBVIOUS
  <2>1. Server!TypeOK
    BY SameTypes DEF IInv, S!IInv
  <2>2. nextSubscriptionId \in 0 .. MaxLines /\ nextRecieptNumber \in 0 .. MaxLines
    BY CountersAssumption DEF IInv, Counters
  <2>3. QED
    BY <2>1, <2>2 DEF IInv, ClientTypes, Counters, TypeOK
<1>2. QED
  BY <1>1, Invariance, PTL

(* Back at the prompt the client is logged in nowhere: its session was over on the
   server before the client could read so (processFromServer, disconnectProcess). *)
THEOREM LogoutIsMutual == Spec => []LoggedOutAtThePrompt
<1>1. IInv => LoggedOutAtThePrompt
  BY ClientNullAssumption DEF IInv, ClientTypes, OthersAreSilent, LoggedOutAtThePrompt
<1>2. QED
  BY <1>1, Invariance, PTL

(* The id the client keeps for a game never names a subscription to another
   (stringToFrameFromKB's counter and map, User.subscribe). *)
THEOREM IdsNameTheirGame == Spec => []ExitsLeaveOtherGames
<1>1. IInv => ExitsLeaveOtherGames
  <2> SUFFICES ASSUME IInv, NEW g \in Channels, program = "session",
                      connectionIdToUsername[connection] # Null,
                      gameNameToSubscriptionId[g] # Null
               PROVE  subscriptionIdToChannel[connectionIdToUsername[connection]]
                        [gameNameToSubscriptionId[g]] \in {g, Null}
    BY DEF ExitsLeaveOtherGames
  <2>1. gameNameToSubscriptionId[g] \in SubscriptionIds
    BY DEF IInv, ClientTypes, OrNull
  <2>2. connection # Null
    BY InSession
  <2>3. QED
    BY <2>1, <2>2 DEF IInv, IdsAgree, TakenFor
<1>2. QED
  BY <1>1, Invariance, PTL

(* A client that waits for its user is in a session: each way the server ends one leads
   to a frame the client ends by, or was asked for by the client itself. *)
THEOREM EndsAreTold == Spec => []QuietSessionIsAlive
<1>1. IInv => QuietSessionIsAlive
  <2> SUFFICES ASSUME IInv, Quiet
               PROVE  ServerIsOpen(connection) /\ connectionIdToUsername[connection] # Null
    BY DEF QuietSessionIsAlive
  <2>1. ~Told
    BY FramesOfFew DEF Quiet, Told, Disconnecting
  <2>2. QED
    BY <2>1 DEF Quiet, IInv, SessionsAgree, Alive
<1>2. QED
  BY <1>1, Invariance, PTL

===============================================================================
