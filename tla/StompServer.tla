----------------------------- MODULE StompServer -----------------------------
(***************************************************************************)
(* The server with a thread per connection: BaseServer accepts, and each   *)
(* BlockingConnectionHandler reads frames and hands them to its protocol.  *)
(* A frame is handled in one step: this module is about what sequences of  *)
(* frames of several connections do to the shared state.                   *)
(***************************************************************************)
EXTENDS StompProtocol

VARIABLE nextConnectionId

vars == <<connectionsVars, protocolVars, nextConnectionId>>

Init ==
  /\ ConnectionsInit
  /\ shouldTerminate = [c \in ConnectionIds |-> FALSE]
  /\ sent = Nothing
  /\ nextConnectionId = 0

(* serve(): accept, construct the handler (which registers itself) and start
   its thread. *)
Accept ==
  /\ nextConnectionId < MaxConnections
  /\ AddClient(nextConnectionId)
  /\ nextConnectionId' = nextConnectionId + 1
  /\ sent' = Nothing
  /\ UNCHANGED <<shouldTerminate, nextMessageId, sharedVars>>

(* One turn of run() that completes a frame. *)
Receive(c, f) ==
  /\ IsOpen(c)
  /\ ~shouldTerminate[c]
  /\ process(c, f)
  /\ UNCHANGED nextConnectionId

(* run() leaves its loop and the socket is closed. *)
LeaveLoop(c) ==
  /\ IsOpen(c)
  /\ shouldTerminate[c]
  /\ CloseHandler(c)
  /\ sent' = Nothing
  /\ UNCHANGED <<shouldTerminate, nextMessageId, sharedVars, nextConnectionId>>

(* The client is gone (read returns -1 or throws), or its bytes make the decoder
   throw: the thread ends and the socket is closed.  Nothing else is done. *)
ConnectionLost(c) ==
  /\ IsOpen(c)
  /\ ~shouldTerminate[c]
  /\ CloseHandler(c)
  /\ sent' = Nothing
  /\ UNCHANGED <<shouldTerminate, nextMessageId, sharedVars, nextConnectionId>>

ThreadStep(c) ==
  \/ \E f \in Requests : Receive(c, f)
  \/ LeaveLoop(c)
  \/ ConnectionLost(c)

Next == Accept \/ \E c \in ConnectionIds : ThreadStep(c)

Spec == Init /\ [][Next]_vars

(* Clients that send no CONNECT on a connection that is logged in.  The client of
   this repository is not one of them: a login line typed in a session is sent. *)
PoliteReceive(c, f) ==
  /\ f.command = "CONNECT" => ~LoggedIn(c)
  /\ Receive(c, f)

PoliteNext ==
  \/ Accept
  \/ \E c \in ConnectionIds :
       \/ \E f \in Requests : PoliteReceive(c, f)
       \/ LeaveLoop(c)
       \/ ConnectionLost(c)

PoliteSpec == Init /\ [][PoliteNext]_vars

-----------------------------------------------------------------------------
(* Properties of every client behaviour *)

(* The variables hold values of their types; sockets exist for the ids handed out. *)
TypeOK ==
  /\ ConnectionsTypeOK
  /\ shouldTerminate \in [ConnectionIds -> BOOLEAN]
  /\ nextConnectionId \in 0 .. MaxConnections
  /\ \A c \in ConnectionIds :
       connectionIdToConnectionHandler[c] = Null <=> c >= nextConnectionId

(* No user is logged in on two connections (connectProcess and its check of
   isConnected), whatever was registered, refused, lost or logged out before. *)
SingleLogin ==
  \A c, d \in ConnectionIds :
    LoggedIn(c) /\ connectionIdToUsername[c] = connectionIdToUsername[d] => c = d

(* The flags and subscriptions kept per user agree with the sessions kept per
   connection: a session's user exists and is marked connected, and a user not
   marked connected holds no subscription a later session would inherit
   (registerUser, connect, User.disconnect). *)
UsersMatchSessions ==
  /\ \A c \in ConnectionIds : LoggedIn(c) => isConnected[connectionIdToUsername[c]]
  /\ \A u \in Usernames :
       /\ isConnected[u] => passcode[u] # Null
       /\ ~isConnected[u] =>
            /\ \A ch \in Channels : channelToSubscriptionId[u][ch] = Null
            /\ \A i \in SubscriptionIds : subscriptionIdToChannel[u][i] = Null

(* Whoever is logged in and subscribed to a channel is in the list the reports of
   that channel are sent to: no sequence of joins, exits, refusals and logins of
   anybody loses a subscriber (subscribe, unsubscribe, disconnect). *)
SubscribersAreListed ==
  \A c \in ConnectionIds, ch \in Channels :
    Subscribed(c, ch) => channelToConnectionIdsList[ch][c] > 0

(* What a subscription id leads to is a channel subscribed to under that id: an
   UNSUBSCRIBE never ends a subscription made under another id, and its two map
   removals name entries that exist (User.unsubscribe). *)
SubscriptionIdLeadsToItsChannel ==
  \A u \in Usernames, i \in SubscriptionIds :
    LET ch == subscriptionIdToChannel[u][i]
    IN  ch # Null => channelToSubscriptionId[u][ch] = i

(* The server ends a connection with every ERROR but the "already logged in" one,
   which is what the client assumes when it compares the message in order to
   decide whether to stop (ConnectionHandler::runServerListener). *)
ErrorsEndTheConnection ==
  \A c \in ConnectionIds : \A k \in DOMAIN sent[c] :
    sent[c][k].command = "ERROR" =>
      (sent[c][k].message = AlreadyLoggedIn <=> ~shouldTerminate[c])

userData(u) ==
  <<passcode[u], isConnected[u], subscriptionIdToChannel[u], channelToSubscriptionId[u]>>

placeOf(c) ==
  <<connectionIdToUsername[c], [ch \in Channels |-> channelToConnectionIdsList[ch][c]]>>

(* A step changes the session and the list entries of one connection at most, and
   the User of nobody but the one logged in there before or after it; the passcode a
   name was registered with it never replaces. *)
ConnectionsDoNotInterfere ==
  [][\E c \in ConnectionIds :
       /\ \A d \in ConnectionIds \ {c} : placeOf(d)' = placeOf(d)
       /\ \A u \in Usernames :
            userData(u)' # userData(u) =>
              /\ u \in {connectionIdToUsername[c], connectionIdToUsername'[c]}
              /\ passcode[u] \in {Null, passcode'[u]}]_sharedVars

(* When a report gets its message id it is written to the socket of everyone who is
   subscribed to its channel and reachable, the sender included (send(channel)). *)
EverySubscriberGetsTheReport ==
  [][\E ch \in Channels :
       /\ \E c \in ConnectionIds : Subscribed(c, ch) /\ IsOpen(c)
       /\ \A c \in ConnectionIds :
            Subscribed(c, ch) /\ IsOpen(c) =>
              \E k \in DOMAIN sent'[c] :
                /\ sent'[c][k].command = "MESSAGE"
                /\ sent'[c][k].destination = ch
                /\ sent'[c][k].message_id = nextMessageId]_nextMessageId

-----------------------------------------------------------------------------
(* Properties of clients that log in once per connection *)

(* The lists hold exactly the subscribers, once each: nobody gets a report twice or
   without a subscription, even after other connections were lost. *)
ListsAreExact ==
  \A c \in ConnectionIds, ch \in Channels :
    channelToConnectionIdsList[ch][c] = IF Subscribed(c, ch) THEN 1 ELSE 0

(* A user is refused as already logged in only while some connection is logged in
   as that user (connectProcess, User.connect and User.disconnect). *)
ConnectedUserHasASession ==
  \A u \in Usernames :
    isConnected[u] => \E c \in ConnectionIds : connectionIdToUsername[c] = u

(* The reports written to c in the last step: the position of each, and its channel. *)
reportsTo(c) ==
  {<<k, sent[c][k].destination>> :
     k \in {j \in DOMAIN sent[c] : sent[c][j].command = "MESSAGE"}}

F == INSTANCE Forum WITH
       open      <- {c \in ConnectionIds : IsOpen(c)},
       account   <- passcode,
       session   <- connectionIdToUsername,
       member    <- {m \in ConnectionIds \X Channels : Subscribed(m[1], m[2])},
       delivered <- [c \in ConnectionIds |-> reportsTo(c)]

(* The server implements the forum: exclusive logins, reports delivered exactly
   once to exactly the members. *)
ImplementsForum == F!Spec

-----------------------------------------------------------------------------
(* Statements of the source that the code does not keep *)

(* StompProtocol.java:102, beside the malformed frame's refusal: "send error and
   disconnect".  A connection told to terminate has been logged out. *)
TerminatedIsLoggedOut ==
  \A c \in ConnectionIds : shouldTerminate[c] => ~LoggedIn(c)

(* ConnectionsImpl.java:55: "for each channel remove the connectionId from its
   connectionIds list".  A connection that logged out is in no channel's list. *)
LoggedOutIsUnlisted ==
  \A c \in ConnectionIds, ch \in Channels :
    ~LoggedIn(c) => channelToConnectionIdsList[ch][c] = 0

(* StompProtocol.java:152: "subscriptionId doesnt exist--> he is already
   unsubscribed".  A user who subscribed under an id can unsubscribe by it. *)
UnknownIdIsUnsubscribed ==
  \A u \in Usernames, i \in SubscriptionIds :
    subscriptionIdToChannel[u][i] = Null =>
      \A ch \in Channels : channelToSubscriptionId[u][ch] # i

(* StompProtocol.java:85: "User already logged in, log out before trying again."
   A user who is refused with this message has a connection to log out on. *)
ConnectedUserCanLogOut ==
  \A u \in Usernames :
    isConnected[u] => \E c \in ConnectionIds : IsOpen(c) /\ connectionIdToUsername[c] = u

(* StompProtocol.java:180, in the malformed frame's refusal: "check if receipt
   requested, and add this header if needed".  An ERROR frame answering a frame
   that requests a receipt names the receipt. *)
ErrorsNameTheReceipt ==
  [][\A c \in ConnectionIds, f \in Requests :
       Receive(c, f) =>
         \A k \in DOMAIN sent'[c] :
           sent'[c][k].command = "ERROR" => sent'[c][k].receipt_id = f.receipt_id]_vars

(* StompProtocol.java:190: "message did not contain: ".  The headers listed after
   these words are headers the frame lacked. *)
ReportedHeadersAreMissing ==
  [][\A c \in ConnectionIds, f \in Requests :
       Receive(c, f) =>
         \A k \in DOMAIN sent'[c] :
           sent'[c][k].command = "ERROR" => sent'[c][k].not_contained \cap f.headers = {}]_vars
==============================================================================
