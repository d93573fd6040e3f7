---------------------------- MODULE StompProtocol ----------------------------
(***************************************************************************)
(* StompProtocol.java: what one connection's protocol does with one frame. *)
(* process(c, f) is the whole handler: its checks in the code's order, the *)
(* operations on the shared state and every frame it sends.                *)
(***************************************************************************)
EXTENDS Connections

VARIABLES
  shouldTerminate,  \* StompProtocol.shouldTerminate of each connection
  sent              \* the frames the last step sent to each connection

protocolVars == <<shouldTerminate, sent>>

-----------------------------------------------------------------------------
(* Sending *)

Nothing == [c \in ConnectionIds |-> <<>>]

(* connections.send(connectionId, frame), for each of the frames *)
Reply(c, frames) == sent' = [Nothing EXCEPT ![c] = frames]

(* checkIfReceiptRequestedAndSend *)
RequestedReceipt(f) ==
  IF f.receipt_id = Null THEN <<>> ELSE <<ReceiptFrame(f.receipt_id)>>

(* connections.send(channel, frame): once per occurrence in the channel's list;
   a write to a closed socket fails and the failure is swallowed. *)
Copies(c, ch, frame) ==
  IF IsOpen(c)
  THEN [k \in 1 .. channelToConnectionIdsList[ch][c] |-> frame]
  ELSE <<>>

MustTerminate(c) == shouldTerminate' = [shouldTerminate EXCEPT ![c] = TRUE]

MustStay(c) == shouldTerminate' = [shouldTerminate EXCEPT ![c] = FALSE]

messageValidityCheck(f, expectedHeaders) == expectedHeaders \subseteq f.headers

(* Mutant: the connection goes on after the ERROR frame. *)
RefuseMalformedAndStay(c, f, expectedHeaders) ==
  /\ MustStay(c)
  /\ Reply(c, <<ErrorFrame("malformed frame received", f.receipt, expectedHeaders)>>)
  /\ UNCHANGED connectionsVars

(* createMalFormedErrorFrameAndSendAndDisconnect: the headers it reports as not
   contained are the expected ones that the ERROR frame itself lacks: all. *)
RefuseMalformed(c, f, expectedHeaders) ==
  /\ MustTerminate(c)
  /\ Reply(c, <<ErrorFrame("malformed frame received", f.receipt, expectedHeaders)>>)
  /\ UNCHANGED connectionsVars

(* createRegularErrorFrameAndSendAndDisconnect.  Without a logged-in user
   connections.disconnect dereferences null: the exception ends the thread after
   the ERROR frame was sent, and before the receipt. *)
RefuseAndDisconnect(c, f, reason) ==
  LET error == ErrorFrame(reason, f.receipt_id, {}) IN
  /\ MustTerminate(c)
  /\ UNCHANGED <<connectionIdToConnectionHandler, nextMessageId, passcode>>
  /\ \/ /\ LoggedIn(c)
        /\ Disconnect(c)
        /\ Reply(c, <<error>> \o RequestedReceipt(f))
     \/ /\ ~LoggedIn(c)
        /\ Reply(c, <<error>>)
        /\ UNCHANGED sharedVars

-----------------------------------------------------------------------------
(* Handlers *)

(* A valid CONNECT for which the user's state decides. *)
login(c, f) ==
  LET u == f.login
      Connected == /\ Connect(c, u)
                   /\ MustStay(c)
                   /\ Reply(c, <<ConnectedFrame>>)
                   /\ UNCHANGED <<connectionIdToConnectionHandler, nextMessageId,
                                  channelToConnectionIdsList,
                                  subscriptionIdToChannel, channelToSubscriptionId>>
  IN
  \/ /\ ~Registered(u)
     /\ RegisterUser(u, f.passcode)
     /\ Connected
  \/ /\ Registered(u)
     /\ ~isConnected[u]
     /\ passcode[u] = f.passcode
     /\ Connected
     /\ UNCHANGED passcode
  \/ /\ Registered(u)
     /\ ~isConnected[u]
     /\ passcode[u] # f.passcode
     /\ RefuseAndDisconnect(c, f, "Wrong password")
  \/ /\ Registered(u)
     /\ isConnected[u]
     /\ MustStay(c)
     /\ Reply(c, <<ErrorFrame(AlreadyLoggedIn, f.receipt_id, {})>>)
     /\ UNCHANGED connectionsVars

connectProcess(c, f) ==
  \/ /\ ~messageValidityCheck(f, ConnectHeaders)
     /\ RefuseMalformed(c, f, ConnectHeaders)
  \/ /\ messageValidityCheck(f, ConnectHeaders)
     /\ \/ f.version # "1.2" /\ RefuseAndDisconnect(c, f, "version is wrong")
        \/ /\ f.version = "1.2"
           /\ f.host # "stomp.cs.bgu.ac.il"
           /\ RefuseAndDisconnect(c, f, "host is wrong")
        \/ /\ f.version = "1.2"
           /\ f.host = "stomp.cs.bgu.ac.il"
           /\ login(c, f)

sendProcess(c, f) ==
  \/ /\ ~messageValidityCheck(f, SendHeaders)
     /\ RefuseMalformed(c, f, SendHeaders)
  \/ /\ messageValidityCheck(f, SendHeaders)
     /\ f.destination \notin ChannelsOf(c)
     /\ RefuseAndDisconnect(c, f, "User isnt subscribed to this channel")
  \/ /\ messageValidityCheck(f, SendHeaders)
     /\ f.destination \in ChannelsOf(c)
     /\ nextMessageId < MaxMessages
     /\ LET ch == f.destination
            i  == channelToSubscriptionId[connectionIdToUsername[c]][ch]
        IN  sent' = [d \in ConnectionIds |->
                       Copies(d, ch, MessageFrame(i, ch, nextMessageId))
                         \o (IF d = c THEN RequestedReceipt(f) ELSE <<>>)]
     /\ nextMessageId' = nextMessageId + 1
     /\ MustStay(c)
     /\ UNCHANGED <<connectionIdToConnectionHandler, sharedVars>>

subscribeProcess(c, f) ==
  \/ /\ ~messageValidityCheck(f, SubscribeHeaders)
     /\ RefuseMalformed(c, f, SubscribeHeaders)
  \/ /\ messageValidityCheck(f, SubscribeHeaders)
     /\ f.destination \in ChannelsOf(c)
     /\ RefuseAndDisconnect(c, f, "you are already subscribed")
  \/ /\ messageValidityCheck(f, SubscribeHeaders)
     /\ f.destination \notin ChannelsOf(c)
     /\ Subscribe(c, f.destination, f.id)
     /\ MustStay(c)
     /\ Reply(c, RequestedReceipt(f))
     /\ UNCHANGED <<connectionIdToConnectionHandler, connectionIdToUsername,
                    nextMessageId, passcode, isConnected>>

unsubscribeProcess(c, f) ==
  LET channel == subscriptionIdToChannel[connectionIdToUsername[c]][f.id] IN
  \/ /\ ~messageValidityCheck(f, UnsubscribeHeaders)
     /\ RefuseMalformed(c, f, UnsubscribeHeaders)
  \/ /\ messageValidityCheck(f, UnsubscribeHeaders)
     /\ channel = Null
     /\ RefuseAndDisconnect(c, f, "already unsubscribed")
  \/ /\ messageValidityCheck(f, UnsubscribeHeaders)
     /\ channel # Null
     /\ Unsubscribe(c, channel)
     /\ MustStay(c)
     /\ Reply(c, RequestedReceipt(f))
     /\ UNCHANGED <<connectionIdToConnectionHandler, connectionIdToUsername,
                    nextMessageId, passcode, isConnected>>

disconnectProcess(c, f) ==
  /\ Disconnect(c)
  /\ MustTerminate(c)
  /\ Reply(c, RequestedReceipt(f))
  /\ UNCHANGED <<connectionIdToConnectionHandler, nextMessageId, passcode>>

process(c, f) ==
  \/ f.command = "CONNECT" /\ connectProcess(c, f)
  \/ /\ f.command # "CONNECT"
     /\ ~LoggedIn(c)
     /\ RefuseAndDisconnect(c, f, "first you must log-in")
  \/ /\ LoggedIn(c)
     /\ \/ f.command = "SEND" /\ sendProcess(c, f)
        \/ f.command = "SUBSCRIBE" /\ subscribeProcess(c, f)
        \/ f.command = "UNSUBSCRIBE" /\ unsubscribeProcess(c, f)
        \/ f.command = "DISCONNECT" /\ disconnectProcess(c, f)
        \/ /\ f.command = "WRONG-COMMAND"
           /\ RefuseAndDisconnect(c, f, "invalid Command")
==============================================================================
