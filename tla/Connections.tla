----------------------------- MODULE Connections -----------------------------
(***************************************************************************)
(* The state every connection's protocol shares: the singleton             *)
(* ConnectionsImpl and the User objects it holds.                          *)
(*                                                                         *)
(* A HashMap is a total function with Null for an absent key.  The fields  *)
(* of User are functions of the user name; the user exists once it has a   *)
(* passcode.  The LinkedList of connection ids of a channel is the number  *)
(* of times each id occurs in it: different ids are different sockets, so  *)
(* the order in which one report is written to them cannot be observed.    *)
(***************************************************************************)
EXTENDS Frames

CONSTANTS
  MaxConnections,     \* bound: connections the server ever accepts
  MaxMessages         \* bound: reports the server ever forwards

ASSUME BoundsAssumption == MaxConnections \in Nat /\ MaxMessages \in Nat

ASSUME SocketsAssumption == Null \notin {"open", "closed"}

(* BaseServer numbers the connections from 0. *)
ConnectionIds == 0 .. MaxConnections - 1

VARIABLES
  connectionIdToConnectionHandler,  \* Null, or the handler as its socket's state
  connectionIdToUsername,           \* who is logged in on a connection
  channelToConnectionIdsList,       \* occurrences of each id in a channel's list
  nextMessageId,
  passcode,                         \* User.passcode; Null: no such user yet
  isConnected,                      \* User.isConnected
  subscriptionIdToChannel,          \* User.subscriptionIdToChannel
  channelToSubscriptionId           \* User.channelToSubscriptionId

userVars == <<passcode, isConnected, subscriptionIdToChannel, channelToSubscriptionId>>

sharedVars == <<connectionIdToUsername, channelToConnectionIdsList, userVars>>

connectionsVars == <<connectionIdToConnectionHandler, nextMessageId, sharedVars>>

ConnectionsTypeOK ==
  /\ connectionIdToConnectionHandler \in [ConnectionIds -> OrNull({"open", "closed"})]
  /\ connectionIdToUsername \in [ConnectionIds -> OrNull(Usernames)]
  /\ channelToConnectionIdsList \in [Channels -> [ConnectionIds -> Nat]]
  /\ nextMessageId \in 0 .. MaxMessages
  /\ passcode \in [Usernames -> OrNull(Passcodes)]
  /\ isConnected \in [Usernames -> BOOLEAN]
  /\ subscriptionIdToChannel \in [Usernames -> [SubscriptionIds -> OrNull(Channels)]]
  /\ channelToSubscriptionId \in [Usernames -> [Channels -> OrNull(SubscriptionIds)]]

ConnectionsInit ==
  /\ connectionIdToConnectionHandler = [c \in ConnectionIds |-> Null]
  /\ connectionIdToUsername = [c \in ConnectionIds |-> Null]
  /\ channelToConnectionIdsList = [ch \in Channels |-> [c \in ConnectionIds |-> 0]]
  /\ nextMessageId = 0
  /\ passcode = [u \in Usernames |-> Null]
  /\ isConnected = [u \in Usernames |-> FALSE]
  /\ subscriptionIdToChannel = [u \in Usernames |-> [i \in SubscriptionIds |-> Null]]
  /\ channelToSubscriptionId = [u \in Usernames |-> [ch \in Channels |-> Null]]

-----------------------------------------------------------------------------
(* Getters *)

LoggedIn(c) == connectionIdToUsername[c] # Null

(* getUserByUsername(u) # null *)
Registered(u) == passcode[u] # Null

(* getUserByConnectionId(c).getChannels(), for a logged-in c *)
ChannelsOf(c) ==
  {ch \in Channels : channelToSubscriptionId[connectionIdToUsername[c]][ch] # Null}

(* Does the user logged in on c have a subscription to ch? *)
Subscribed(c, ch) == LoggedIn(c) /\ ch \in ChannelsOf(c)

IsOpen(c) == connectionIdToConnectionHandler[c] = "open"

-----------------------------------------------------------------------------
(* Operations: each one states the next value of what it assigns, and only that *)

AddClient(c) ==
  connectionIdToConnectionHandler' = [connectionIdToConnectionHandler EXCEPT ![c] = "open"]

(* Mutant: a closed handler is taken out of the map. *)
CloseHandlerForgetsIt(c) ==
  connectionIdToConnectionHandler' = [connectionIdToConnectionHandler EXCEPT ![c] = Null]

(* The try of BlockingConnectionHandler.run closes the socket at its end. *)
CloseHandler(c) ==
  connectionIdToConnectionHandler' = [connectionIdToConnectionHandler EXCEPT ![c] = "closed"]

(* registerUser(u, new User(p)): the new User has empty maps, as the slot of a
   name nobody registered has. *)
RegisterUser(u, p) == passcode' = [passcode EXCEPT ![u] = p]

(* Mutant: the user is not marked as connected. *)
ConnectLeavesUserFree(c, u) ==
  /\ connectionIdToUsername' = [connectionIdToUsername EXCEPT ![c] = u]
  /\ UNCHANGED isConnected

Connect(c, u) ==
  /\ connectionIdToUsername' = [connectionIdToUsername EXCEPT ![c] = u]
  /\ isConnected' = [isConnected EXCEPT ![u] = TRUE]

Subscribe(c, ch, i) ==
  LET u == connectionIdToUsername[c] IN
  /\ subscriptionIdToChannel' = [subscriptionIdToChannel EXCEPT ![u][i] = ch]
  /\ channelToSubscriptionId' = [channelToSubscriptionId EXCEPT ![u][ch] = i]
  /\ channelToConnectionIdsList' = [channelToConnectionIdsList EXCEPT ![ch][c] = @ + 1]

(* Mutant: the id stays in the map from ids to channels. *)
UnsubscribeKeepsId(c, ch) ==
  LET u == connectionIdToUsername[c] IN
  /\ channelToSubscriptionId' = [channelToSubscriptionId EXCEPT ![u][ch] = Null]
  /\ channelToConnectionIdsList' =
       [channelToConnectionIdsList EXCEPT ![ch][c] = IF @ > 0 THEN @ - 1 ELSE 0]
  /\ UNCHANGED subscriptionIdToChannel

(* Mutant: LinkedList.remove(int), which an int parameter would select, takes out
   whoever stands at a position. *)
UnsubscribeByPosition(c, ch) ==
  LET u == connectionIdToUsername[c] IN
  /\ channelToSubscriptionId' = [channelToSubscriptionId EXCEPT ![u][ch] = Null]
  /\ subscriptionIdToChannel' =
       [subscriptionIdToChannel EXCEPT ![u][channelToSubscriptionId[u][ch]] = Null]
  /\ \E d \in ConnectionIds :
       /\ channelToConnectionIdsList[ch][d] > 0
       /\ channelToConnectionIdsList' = [channelToConnectionIdsList EXCEPT ![ch][d] = @ - 1]

(* Mutant: the connection stays in the channel's list. *)
UnsubscribeKeepsListing(c, ch) ==
  LET u == connectionIdToUsername[c] IN
  /\ channelToSubscriptionId' = [channelToSubscriptionId EXCEPT ![u][ch] = Null]
  /\ subscriptionIdToChannel' =
       [subscriptionIdToChannel EXCEPT ![u][channelToSubscriptionId[u][ch]] = Null]
  /\ UNCHANGED channelToConnectionIdsList

(* LinkedList.remove(Object) takes out one occurrence, if there is one. *)
Unsubscribe(c, ch) ==
  LET u == connectionIdToUsername[c] IN
  /\ channelToSubscriptionId' = [channelToSubscriptionId EXCEPT ![u][ch] = Null]
  /\ subscriptionIdToChannel' =
       [subscriptionIdToChannel EXCEPT ![u][channelToSubscriptionId[u][ch]] = Null]
  /\ channelToConnectionIdsList' =
       [channelToConnectionIdsList EXCEPT ![ch][c] = IF @ > 0 THEN @ - 1 ELSE 0]

ForgetSubscriptions(u) ==
  /\ subscriptionIdToChannel' =
       [subscriptionIdToChannel EXCEPT ![u] = [i \in SubscriptionIds |-> Null]]
  /\ channelToSubscriptionId' =
       [channelToSubscriptionId EXCEPT ![u] = [ch \in Channels |-> Null]]

EndSession(c) ==
  /\ connectionIdToUsername' = [connectionIdToUsername EXCEPT ![c] = Null]
  /\ isConnected' = [isConnected EXCEPT ![connectionIdToUsername[c]] = FALSE]

(* Mutant: the user stays marked as connected. *)
DisconnectKeepsFlag(c) ==
  /\ connectionIdToUsername' = [connectionIdToUsername EXCEPT ![c] = Null]
  /\ ForgetSubscriptions(connectionIdToUsername[c])
  /\ channelToConnectionIdsList' =
       [ch \in Channels |-> [channelToConnectionIdsList[ch] EXCEPT ![c] = 0]]
  /\ UNCHANGED isConnected

(* Mutant: User.disconnect comes first, so that no channel is left to clean. *)
DisconnectUserFirst(c) ==
  /\ EndSession(c)
  /\ ForgetSubscriptions(connectionIdToUsername[c])
  /\ UNCHANGED channelToConnectionIdsList

(* Mutant: the lists of the user's channels are emptied. *)
DisconnectEmptiesLists(c) ==
  /\ EndSession(c)
  /\ ForgetSubscriptions(connectionIdToUsername[c])
  /\ channelToConnectionIdsList' =
       [ch \in Channels |->
          IF ch \in ChannelsOf(c)
          THEN [d \in ConnectionIds |-> 0]
          ELSE channelToConnectionIdsList[ch]]

(* Mutant: the user keeps the subscriptions. *)
DisconnectKeepsSubscriptions(c) ==
  /\ EndSession(c)
  /\ channelToConnectionIdsList' =
       [ch \in Channels |-> [channelToConnectionIdsList[ch] EXCEPT ![c] = 0]]
  /\ UNCHANGED <<subscriptionIdToChannel, channelToSubscriptionId>>

(* removeIf takes out every occurrence, from the lists of the user's channels;
   User.disconnect then forgets the subscriptions. *)
Disconnect(c) ==
  /\ channelToConnectionIdsList' =
       [ch \in Channels |->
          IF ch \in ChannelsOf(c)
          THEN [channelToConnectionIdsList[ch] EXCEPT ![c] = 0]
          ELSE channelToConnectionIdsList[ch]]
  /\ EndSession(c)
  /\ ForgetSubscriptions(connectionIdToUsername[c])
==============================================================================
