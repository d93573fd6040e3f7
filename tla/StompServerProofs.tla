-------------------------- MODULE StompServerProofs --------------------------
(***************************************************************************)
(* Invariants of StompServer, for every set of users, passcodes, channels  *)
(* and subscription ids, every set of well-typed requests and any bound on *)
(* connections and messages.                                               *)
(*                                                                         *)
(* SubscribersAreListed is not inductive alone: a login must not inherit   *)
(* subscriptions (UsersMatchSessions), and what one session does to its    *)
(* user must not concern another session (SingleLogin).                    *)
(*                                                                         *)
(* From the same invariant, what one step of the server may do, for every  *)
(* client behaviour: which frames it answers with, whose data it changes,  *)
(* and whom a report reaches.                                              *)
(***************************************************************************)
EXTENDS StompServer, TLAPS

IInv ==
  /\ TypeOK
  /\ SingleLogin
  /\ UsersMatchSessions
  /\ SubscribersAreListed
  /\ SubscriptionIdLeadsToItsChannel

(* What IInv says of the variables the operations on ConnectionsImpl change. *)
SharedInv ==
  /\ ConnectionsTypeOK
  /\ SingleLogin
  /\ UsersMatchSessions
  /\ SubscribersAreListed
  /\ SubscriptionIdLeadsToItsChannel

-----------------------------------------------------------------------------
(* The operations on the shared state *)

(* SharedInv is about the shared state, the handlers and the message counter. *)
LEMMA UnchangedKeepsSharedInv ==
  ASSUME SharedInv, UNCHANGED connectionsVars
  PROVE  SharedInv'
BY DEF SharedInv, connectionsVars, sharedVars, userVars, ConnectionsTypeOK, SingleLogin,
       UsersMatchSessions, SubscribersAreListed, SubscriptionIdLeadsToItsChannel,
       LoggedIn, Subscribed, ChannelsOf

(* ConnectionsImpl.connect keeps the shared state consistent when it is called for
   a user who is not connected, whoever the connection was logged in as. *)
LEMMA ConnectKeepsSharedInv ==
  ASSUME SharedInv, NEW c \in ConnectionIds, NEW u \in Usernames,
         ~isConnected[u], Connect(c, u),
         passcode' \in [Usernames -> OrNull(Passcodes)],
         passcode'[u] # Null,
         \A v \in Usernames : passcode[v] # Null => passcode'[v] # Null,
         UNCHANGED <<connectionIdToConnectionHandler, nextMessageId,
                     channelToConnectionIdsList, subscriptionIdToChannel,
                     channelToSubscriptionId>>
  PROVE  SharedInv'
<1> USE DEF OrNull
<1>1. ConnectionsTypeOK'
  BY DEF SharedInv, ConnectionsTypeOK, Connect
<1>2. u # Null
  BY NullAssumption
<1>3. SingleLogin'
  BY <1>2 DEF SharedInv, ConnectionsTypeOK, Connect, SingleLogin, UsersMatchSessions, LoggedIn
<1>4. UsersMatchSessions'
  BY <1>2 DEF SharedInv, ConnectionsTypeOK, Connect, UsersMatchSessions, LoggedIn
<1>5. SubscribersAreListed'
  BY <1>2 DEF SharedInv, ConnectionsTypeOK, Connect, UsersMatchSessions,
              SubscribersAreListed, Subscribed, ChannelsOf, LoggedIn
<1>6. SubscriptionIdLeadsToItsChannel'
  BY DEF SharedInv, SubscriptionIdLeadsToItsChannel
<1>7. QED
  BY <1>1, <1>3, <1>4, <1>5, <1>6 DEF SharedInv

(* ConnectionsImpl.subscribe, for a channel not subscribed to and any id. *)
LEMMA SubscribeKeepsSharedInv ==
  ASSUME SharedInv, NEW c \in ConnectionIds, LoggedIn(c),
         NEW ch \in Channels, ch \notin ChannelsOf(c), NEW i \in SubscriptionIds,
         Subscribe(c, ch, i),
         UNCHANGED <<connectionIdToConnectionHandler, connectionIdToUsername,
                     nextMessageId, passcode, isConnected>>
  PROVE  SharedInv'
<1> USE DEF OrNull
<1> DEFINE u == connectionIdToUsername[c]
<1>1. u \in Usernames /\ isConnected[u] /\ i # Null /\ ch # Null
  BY NullAssumption DEF SharedInv, ConnectionsTypeOK, LoggedIn, UsersMatchSessions
<1>2. ConnectionsTypeOK'
  BY <1>1 DEF SharedInv, ConnectionsTypeOK, Subscribe
<1>3. SingleLogin'
  BY DEF SharedInv, SingleLogin, LoggedIn
<1>4. UsersMatchSessions'
  BY <1>1 DEF SharedInv, ConnectionsTypeOK, Subscribe, UsersMatchSessions, LoggedIn
<1>5. SubscribersAreListed'
  BY <1>1 DEF SharedInv, ConnectionsTypeOK, Subscribe, SingleLogin,
              SubscribersAreListed, Subscribed, ChannelsOf, LoggedIn
<1>6. SubscriptionIdLeadsToItsChannel'
  <2> SUFFICES ASSUME NEW v \in Usernames, NEW j \in SubscriptionIds,
                      subscriptionIdToChannel'[v][j] # Null
               PROVE  channelToSubscriptionId'[v][subscriptionIdToChannel'[v][j]] = j
    BY DEF SubscriptionIdLeadsToItsChannel
  <2>1. channelToSubscriptionId[u][ch] = Null
    BY DEF ChannelsOf
  <2>2. CASE v # u
    BY <2>2 DEF SharedInv, ConnectionsTypeOK, Subscribe, SubscriptionIdLeadsToItsChannel
  <2>3. CASE v = u /\ j = i
    BY <2>3, <1>1 DEF SharedInv, ConnectionsTypeOK, Subscribe
  <2>4. CASE v = u /\ j # i
    <3>1. /\ subscriptionIdToChannel'[u][j] = subscriptionIdToChannel[u][j]
          /\ subscriptionIdToChannel[u][j] \in Channels
      BY <2>4, <1>1 DEF SharedInv, ConnectionsTypeOK, Subscribe
    <3>2. channelToSubscriptionId[u][subscriptionIdToChannel[u][j]] = j
      BY <3>1, <2>4, <1>1 DEF SharedInv, SubscriptionIdLeadsToItsChannel
    <3>3. subscriptionIdToChannel[u][j] # ch
      BY <3>2, <2>1, NullAssumption
    <3>4. QED
      BY <3>1, <3>2, <3>3, <2>4, <1>1 DEF SharedInv, ConnectionsTypeOK, Subscribe
  <2>5. QED
    BY <2>2, <2>3, <2>4
<1>7. QED
  BY <1>2, <1>3, <1>4, <1>5, <1>6 DEF SharedInv

(* ConnectionsImpl.unsubscribe, for a channel some id leads to. *)
LEMMA UnsubscribeKeepsSharedInv ==
  ASSUME SharedInv, NEW c \in ConnectionIds, LoggedIn(c), NEW i \in SubscriptionIds,
         NEW ch \in Channels, subscriptionIdToChannel[connectionIdToUsername[c]][i] = ch,
         Unsubscribe(c, ch),
         UNCHANGED <<connectionIdToConnectionHandler, connectionIdToUsername,
                     nextMessageId, passcode, isConnected>>
  PROVE  SharedInv'
<1> USE DEF OrNull
<1> DEFINE u == connectionIdToUsername[c]
<1>1. u \in Usernames /\ isConnected[u] /\ i # Null /\ ch # Null
  BY NullAssumption DEF SharedInv, ConnectionsTypeOK, LoggedIn, UsersMatchSessions
<1>2. channelToSubscriptionId[u][ch] = i
  BY <1>1 DEF SharedInv, SubscriptionIdLeadsToItsChannel
<1>3. ConnectionsTypeOK'
  BY <1>1, <1>2 DEF SharedInv, ConnectionsTypeOK, Unsubscribe
<1>4. SingleLogin'
  BY DEF SharedInv, SingleLogin, LoggedIn
<1>5. UsersMatchSessions'
  BY <1>1, <1>2 DEF SharedInv, ConnectionsTypeOK, Unsubscribe, UsersMatchSessions, LoggedIn
<1>6. SubscribersAreListed'
  BY <1>1, <1>2 DEF SharedInv, ConnectionsTypeOK, Unsubscribe, SingleLogin,
                    SubscribersAreListed, Subscribed, ChannelsOf, LoggedIn
<1>7. SubscriptionIdLeadsToItsChannel'
  BY <1>1, <1>2 DEF SharedInv, ConnectionsTypeOK, Unsubscribe,
                    SubscriptionIdLeadsToItsChannel
<1>8. QED
  BY <1>3, <1>4, <1>5, <1>6, <1>7 DEF SharedInv

(* ConnectionsImpl.disconnect of a logged-in connection. *)
LEMMA DisconnectKeepsSharedInv ==
  ASSUME SharedInv, NEW c \in ConnectionIds, LoggedIn(c), Disconnect(c),
         UNCHANGED <<connectionIdToConnectionHandler, nextMessageId, passcode>>
  PROVE  SharedInv'
<1> USE DEF OrNull
<1> DEFINE u == connectionIdToUsername[c]
<1>1. u \in Usernames
  BY DEF SharedInv, ConnectionsTypeOK, LoggedIn
<1>2. ConnectionsTypeOK'
  BY <1>1 DEF SharedInv, ConnectionsTypeOK, Disconnect, EndSession, ForgetSubscriptions
<1>3. SingleLogin'
  BY <1>1 DEF SharedInv, ConnectionsTypeOK, Disconnect, EndSession, SingleLogin, LoggedIn
<1>4. UsersMatchSessions'
  BY <1>1 DEF SharedInv, ConnectionsTypeOK, Disconnect, EndSession, ForgetSubscriptions,
              SingleLogin, UsersMatchSessions, LoggedIn
<1>5. SubscribersAreListed'
  BY <1>1 DEF SharedInv, ConnectionsTypeOK, Disconnect, EndSession, ForgetSubscriptions,
              SingleLogin, SubscribersAreListed, Subscribed, ChannelsOf, LoggedIn
<1>6. SubscriptionIdLeadsToItsChannel'
  BY <1>1 DEF SharedInv, ConnectionsTypeOK, Disconnect, ForgetSubscriptions,
              SubscriptionIdLeadsToItsChannel
<1>7. QED
  BY <1>2, <1>3, <1>4, <1>5, <1>6 DEF SharedInv

-----------------------------------------------------------------------------
(* The frame handlers *)

(* A frame is of one of its command's shape. *)
LEMMA FrameShape ==
  ASSUME NEW f \in Requests
  PROVE  /\ f.command = "CONNECT" => f.login \in Usernames /\ f.passcode \in Passcodes
         /\ f.command = "SEND" => f.destination \in Channels
         /\ f.command = "SUBSCRIBE" => f.destination \in Channels /\ f.id \in SubscriptionIds
         /\ f.command = "UNSUBSCRIBE" => f.id \in SubscriptionIds
BY RequestsAssumption DEF ClientFrames

(* A refusal ends the session, if there is one. *)
LEMMA RefusalKeepsSharedInv ==
  ASSUME SharedInv, NEW c \in ConnectionIds, NEW f, NEW reason,
         RefuseAndDisconnect(c, f, reason)
  PROVE  SharedInv'
<1>1. CASE LoggedIn(c)
  BY <1>1, DisconnectKeepsSharedInv DEF RefuseAndDisconnect
<1>2. CASE ~LoggedIn(c)
  BY <1>2, UnchangedKeepsSharedInv DEF RefuseAndDisconnect, connectionsVars, sharedVars
<1>3. QED
  BY <1>1, <1>2

(* Every path of connectProcess that logs in does so for a user who is free. *)
LEMMA ConnectFrameKeepsSharedInv ==
  ASSUME SharedInv, NEW c \in ConnectionIds, NEW f \in Requests,
         f.command = "CONNECT", connectProcess(c, f)
  PROVE  SharedInv'
<1>1. f.login \in Usernames /\ f.passcode \in Passcodes
  BY FrameShape
<1>2. CASE RefuseMalformed(c, f, ConnectHeaders)
  BY <1>2, UnchangedKeepsSharedInv DEF RefuseMalformed
<1>3. CASE \E reason : RefuseAndDisconnect(c, f, reason)
  BY <1>3, RefusalKeepsSharedInv
<1>4. CASE login(c, f)
  <2>1. CASE UNCHANGED connectionsVars
    BY <2>1, UnchangedKeepsSharedInv
  <2>2. CASE \E reason : RefuseAndDisconnect(c, f, reason)
    BY <2>2, RefusalKeepsSharedInv
  <2>3. CASE ~Registered(f.login) /\ RegisterUser(f.login, f.passcode) /\ Connect(c, f.login)
             /\ UNCHANGED <<connectionIdToConnectionHandler, nextMessageId,
                            channelToConnectionIdsList, subscriptionIdToChannel,
                            channelToSubscriptionId>>
    <3>1. ~isConnected[f.login]
      BY <2>3, <1>1 DEF SharedInv, UsersMatchSessions, Registered
    <3>2. /\ passcode' \in [Usernames -> OrNull(Passcodes)]
          /\ passcode'[f.login] # Null
          /\ \A v \in Usernames : passcode[v] # Null => passcode'[v] # Null
      BY <2>3, <1>1, NullAssumption DEF SharedInv, ConnectionsTypeOK, RegisterUser, OrNull
    <3>3. QED
      BY <2>3, <3>1, <3>2, <1>1, ConnectKeepsSharedInv
  <2>4. CASE Registered(f.login) /\ ~isConnected[f.login] /\ Connect(c, f.login)
             /\ UNCHANGED <<connectionIdToConnectionHandler, nextMessageId, passcode,
                            channelToConnectionIdsList, subscriptionIdToChannel,
                            channelToSubscriptionId>>
    BY <2>4, <1>1, ConnectKeepsSharedInv DEF SharedInv, ConnectionsTypeOK, Registered
  <2>5. QED
    BY <1>4, <2>1, <2>2, <2>3, <2>4 DEF login
<1>5. QED
  BY <1>2, <1>3, <1>4 DEF connectProcess

LEMMA SendFrameKeepsSharedInv ==
  ASSUME SharedInv, NEW c \in ConnectionIds, NEW f \in Requests, sendProcess(c, f)
  PROVE  SharedInv'
<1>1. CASE RefuseMalformed(c, f, SendHeaders)
  BY <1>1, UnchangedKeepsSharedInv DEF RefuseMalformed
<1>2. CASE \E reason : RefuseAndDisconnect(c, f, reason)
  BY <1>2, RefusalKeepsSharedInv
<1>3. CASE /\ nextMessageId < MaxMessages
           /\ nextMessageId' = nextMessageId + 1
           /\ UNCHANGED <<connectionIdToConnectionHandler, sharedVars>>
  <2>1. ConnectionsTypeOK'
    BY <1>3, BoundsAssumption DEF SharedInv, ConnectionsTypeOK, sharedVars, userVars
  <2>2. QED
    BY <1>3, <2>1 DEF SharedInv, sharedVars, userVars, SingleLogin, UsersMatchSessions,
       SubscribersAreListed, SubscriptionIdLeadsToItsChannel, LoggedIn, Subscribed, ChannelsOf
<1>4. QED
  BY <1>1, <1>2, <1>3 DEF sendProcess

LEMMA SubscribeFrameKeepsSharedInv ==
  ASSUME SharedInv, NEW c \in ConnectionIds, LoggedIn(c), NEW f \in Requests,
         f.command = "SUBSCRIBE", subscribeProcess(c, f)
  PROVE  SharedInv'
<1>1. CASE RefuseMalformed(c, f, SubscribeHeaders)
  BY <1>1, UnchangedKeepsSharedInv DEF RefuseMalformed
<1>2. CASE \E reason : RefuseAndDisconnect(c, f, reason)
  BY <1>2, RefusalKeepsSharedInv
<1>3. CASE /\ f.destination \notin ChannelsOf(c)
           /\ Subscribe(c, f.destination, f.id)
           /\ UNCHANGED <<connectionIdToConnectionHandler, connectionIdToUsername,
                          nextMessageId, passcode, isConnected>>
  BY <1>3, FrameShape, SubscribeKeepsSharedInv
<1>4. QED
  BY <1>1, <1>2, <1>3 DEF subscribeProcess

LEMMA UnsubscribeFrameKeepsSharedInv ==
  ASSUME SharedInv, NEW c \in ConnectionIds, LoggedIn(c), NEW f \in Requests,
         f.command = "UNSUBSCRIBE", unsubscribeProcess(c, f)
  PROVE  SharedInv'
<1> DEFINE channel == subscriptionIdToChannel[connectionIdToUsername[c]][f.id]
<1>1. CASE RefuseMalformed(c, f, UnsubscribeHeaders)
  BY <1>1, UnchangedKeepsSharedInv DEF RefuseMalformed
<1>2. CASE \E reason : RefuseAndDisconnect(c, f, reason)
  BY <1>2, RefusalKeepsSharedInv
<1>3. CASE /\ channel # Null
           /\ Unsubscribe(c, channel)
           /\ UNCHANGED <<connectionIdToConnectionHandler, connectionIdToUsername,
                          nextMessageId, passcode, isConnected>>
  <2>1. f.id \in SubscriptionIds
    BY FrameShape
  <2>2. channel \in Channels
    BY <1>3, <2>1 DEF SharedInv, ConnectionsTypeOK, LoggedIn, OrNull
  <2>3. QED
    BY <1>3, <2>1, <2>2, UnsubscribeKeepsSharedInv
<1>4. QED
  BY <1>1, <1>2, <1>3 DEF unsubscribeProcess

(* StompProtocol.process keeps the shared state consistent, whatever the frame. *)
LEMMA ProcessKeepsSharedInv ==
  ASSUME SharedInv, NEW c \in ConnectionIds, NEW f \in Requests, process(c, f)
  PROVE  SharedInv'
<1>1. CASE f.command = "CONNECT" /\ connectProcess(c, f)
  BY <1>1, ConnectFrameKeepsSharedInv
<1>2. CASE \E reason : RefuseAndDisconnect(c, f, reason)
  BY <1>2, RefusalKeepsSharedInv
<1>3. CASE sendProcess(c, f)
  BY <1>3, SendFrameKeepsSharedInv
<1>4. CASE LoggedIn(c) /\ f.command = "SUBSCRIBE" /\ subscribeProcess(c, f)
  BY <1>4, SubscribeFrameKeepsSharedInv
<1>5. CASE LoggedIn(c) /\ f.command = "UNSUBSCRIBE" /\ unsubscribeProcess(c, f)
  BY <1>5, UnsubscribeFrameKeepsSharedInv
<1>6. CASE LoggedIn(c) /\ disconnectProcess(c, f)
  BY <1>6, DisconnectKeepsSharedInv DEF disconnectProcess
<1>7. QED
  BY <1>1, <1>2, <1>3, <1>4, <1>5, <1>6 DEF process

(* A frame is handled without touching the handlers; the protocol's flag is set. *)
LEMMA ProcessSetsFlag ==
  ASSUME NEW c \in ConnectionIds, NEW f \in Requests, process(c, f)
  PROVE  /\ UNCHANGED connectionIdToConnectionHandler
         /\ MustTerminate(c) \/ MustStay(c)
<1> DEFINE Goal == /\ UNCHANGED connectionIdToConnectionHandler
                   /\ MustTerminate(c) \/ MustStay(c)
<1>1. ASSUME NEW expected, RefuseMalformed(c, f, expected)
      PROVE  Goal
  BY <1>1 DEF RefuseMalformed, connectionsVars
<1>2. ASSUME NEW reason, RefuseAndDisconnect(c, f, reason)
      PROVE  Goal
  BY <1>2 DEF RefuseAndDisconnect
<1>3. ASSUME connectProcess(c, f)
      PROVE  Goal
  BY <1>1, <1>2, <1>3 DEF connectProcess, login, connectionsVars
<1>4. ASSUME sendProcess(c, f)
      PROVE  Goal
  BY <1>1, <1>2, <1>4 DEF sendProcess
<1>5. ASSUME subscribeProcess(c, f)
      PROVE  Goal
  BY <1>1, <1>2, <1>5 DEF subscribeProcess
<1>6. ASSUME unsubscribeProcess(c, f)
      PROVE  Goal
  BY <1>1, <1>2, <1>6 DEF unsubscribeProcess
<1>7. ASSUME disconnectProcess(c, f)
      PROVE  Goal
  BY <1>7 DEF disconnectProcess
<1>8. QED
  BY <1>2, <1>3, <1>4, <1>5, <1>6, <1>7 DEF process

LEMMA ProcessKeepsHandlers ==
  ASSUME NEW c \in ConnectionIds, NEW f \in Requests, process(c, f),
         shouldTerminate \in [ConnectionIds -> BOOLEAN]
  PROVE  /\ UNCHANGED connectionIdToConnectionHandler
         /\ shouldTerminate' \in [ConnectionIds -> BOOLEAN]
BY ProcessSetsFlag DEF MustTerminate, MustStay

-----------------------------------------------------------------------------
(* The server *)

LEMMA InitIInv == Init => IInv
<1> SUFFICES ASSUME Init PROVE IInv
  OBVIOUS
<1> USE DEF Init, ConnectionsInit, OrNull
<1>1. TypeOK
  BY BoundsAssumption DEF TypeOK, ConnectionsTypeOK, ConnectionIds
<1>2. SingleLogin
  BY DEF SingleLogin, LoggedIn
<1>3. UsersMatchSessions
  BY DEF UsersMatchSessions, LoggedIn
<1>4. SubscribersAreListed
  BY DEF SubscribersAreListed, Subscribed, LoggedIn
<1>5. SubscriptionIdLeadsToItsChannel
  BY DEF SubscriptionIdLeadsToItsChannel
<1>6. QED
  BY <1>1, <1>2, <1>3, <1>4, <1>5 DEF IInv

(* A step that only moves sockets keeps the rest of the invariant. *)
LEMMA SocketStepKeepsSharedInv ==
  ASSUME SharedInv,
         connectionIdToConnectionHandler' \in [ConnectionIds -> OrNull({"open", "closed"})],
         UNCHANGED <<nextMessageId, sharedVars>>
  PROVE  SharedInv'
BY DEF SharedInv, sharedVars, userVars, ConnectionsTypeOK, SingleLogin,
       UsersMatchSessions, SubscribersAreListed, SubscriptionIdLeadsToItsChannel,
       LoggedIn, Subscribed, ChannelsOf

LEMMA NextIInv == IInv /\ [Next]_vars => IInv'
<1> SUFFICES ASSUME IInv, [Next]_vars PROVE IInv'
  OBVIOUS
<1>1. SharedInv
  BY DEF IInv, SharedInv, TypeOK
<1>2. SharedInv' /\ TypeOK' => IInv'
  BY DEF IInv, SharedInv
<1>3. "open" # Null /\ "closed" # Null
  BY SocketsAssumption
<1>4. CASE Accept
  <2>1. nextConnectionId \in ConnectionIds
    BY <1>4, BoundsAssumption DEF IInv, TypeOK, Accept, ConnectionIds
  <2>2. connectionIdToConnectionHandler' \in [ConnectionIds -> OrNull({"open", "closed"})]
    BY <1>4, <2>1 DEF IInv, TypeOK, ConnectionsTypeOK, Accept, AddClient, OrNull
  <2>3. SharedInv'
    BY <1>1, <1>4, <2>2, SocketStepKeepsSharedInv DEF Accept
  <2>4. TypeOK'
    BY <1>3, <1>4, <2>1, <2>3, BoundsAssumption
       DEF IInv, TypeOK, SharedInv, ConnectionsTypeOK, Accept, AddClient, ConnectionIds
  <2>5. QED
    BY <2>3, <2>4, <1>2
<1>5. ASSUME NEW c \in ConnectionIds, LeaveLoop(c) \/ ConnectionLost(c)
      PROVE  IInv'
  <2>1. connectionIdToConnectionHandler' \in [ConnectionIds -> OrNull({"open", "closed"})]
    BY <1>5 DEF IInv, TypeOK, ConnectionsTypeOK, LeaveLoop, ConnectionLost, CloseHandler, OrNull
  <2>2. SharedInv'
    BY <1>1, <1>5, <2>1, SocketStepKeepsSharedInv DEF LeaveLoop, ConnectionLost
  <2>3. TypeOK'
    BY <1>3, <1>5, <2>2
       DEF IInv, TypeOK, SharedInv, ConnectionsTypeOK, LeaveLoop, ConnectionLost,
           CloseHandler, IsOpen
  <2>4. QED
    BY <2>2, <2>3, <1>2
<1>6. ASSUME NEW c \in ConnectionIds, NEW f \in Requests, Receive(c, f)
      PROVE  IInv'
  <2>1. SharedInv'
    BY <1>1, <1>6, ProcessKeepsSharedInv DEF Receive
  <2>2. /\ UNCHANGED <<connectionIdToConnectionHandler, nextConnectionId>>
        /\ shouldTerminate' \in [ConnectionIds -> BOOLEAN]
    BY <1>6, ProcessKeepsHandlers DEF IInv, TypeOK, Receive
  <2>3. TypeOK'
    BY <2>1, <2>2 DEF IInv, TypeOK, SharedInv
  <2>4. QED
    BY <2>1, <2>3, <1>2
<1>7. CASE UNCHANGED vars
  <2>1. SharedInv'
    BY <1>1, <1>7, UnchangedKeepsSharedInv DEF vars
  <2>2. TypeOK'
    BY <1>7, <2>1 DEF IInv, TypeOK, SharedInv, vars, connectionsVars, protocolVars
  <2>3. QED
    BY <2>1, <2>2, <1>2
<1>8. QED
  BY <1>4, <1>5, <1>6, <1>7 DEF Next, ThreadStep

(* The inductive invariant holds in every state of the server. *)
THEOREM Invariance == Spec => []IInv
BY InitIInv, NextIInv, PTL DEF Spec

(* Every state is of the declared types, and the sockets that exist are those of the
   ids handed out by serve(). *)
THEOREM TypeCorrect == Spec => []TypeOK
<1>1. IInv => TypeOK
  BY DEF IInv
<1>2. QED
  BY Invariance, <1>1, PTL

(* connectProcess never lets one user in on two connections, whatever the frames. *)
THEOREM LoginsAreExclusive == Spec => []SingleLogin
<1>1. IInv => SingleLogin
  BY DEF IInv
<1>2. QED
  BY Invariance, <1>1, PTL

(* The users' flags and subscriptions agree with the sessions. *)
THEOREM UsersAgree == Spec => []UsersMatchSessions
<1>1. IInv => UsersMatchSessions
  BY DEF IInv
<1>2. QED
  BY Invariance, <1>1, PTL

(* A subscriber is never missing from the list that reports are sent to. *)
THEOREM NoSubscriberIsLost == Spec => []SubscribersAreListed
<1>1. IInv => SubscribersAreListed
  BY DEF IInv
<1>2. QED
  BY Invariance, <1>1, PTL

(* UNSUBSCRIBE by an id ends a subscription that was made under that id. *)
THEOREM IdsLeadHome == Spec => []SubscriptionIdLeadsToItsChannel
<1>1. IInv => SubscriptionIdLeadsToItsChannel
  BY DEF IInv
<1>2. QED
  BY Invariance, <1>1, PTL

-----------------------------------------------------------------------------
(* A step concerns one connection *)

(* ConnectionsDoNotInterfere, for a step of connection c *)
OnlyConcerns(c) ==
  /\ \A d \in ConnectionIds \ {c} : placeOf(d)' = placeOf(d)
  /\ \A u \in Usernames :
       userData(u)' # userData(u) =>
         /\ u \in {connectionIdToUsername[c], connectionIdToUsername'[c]}
         /\ passcode[u] \in {Null, passcode'[u]}

LEMMA UnchangedConcernsNobody ==
  ASSUME NEW c \in ConnectionIds, UNCHANGED sharedVars
  PROVE  OnlyConcerns(c)
BY DEF OnlyConcerns, placeOf, userData, sharedVars, userVars

LEMMA ConnectConcerns ==
  ASSUME SharedInv, NEW c \in ConnectionIds, NEW u \in Usernames, Connect(c, u),
         \A v \in Usernames : v # u => passcode'[v] = passcode[v],
         passcode[u] \in {Null, passcode'[u]},
         UNCHANGED <<channelToConnectionIdsList, subscriptionIdToChannel,
                     channelToSubscriptionId>>
  PROVE  OnlyConcerns(c)
<1> USE DEF SharedInv, ConnectionsTypeOK, Connect
<1>1. ASSUME NEW d \in ConnectionIds \ {c}
      PROVE  placeOf(d)' = placeOf(d)
  BY DEF placeOf
<1>2. ASSUME NEW v \in Usernames, v # u
      PROVE  userData(v)' = userData(v)
  BY <1>2 DEF userData
<1>3. connectionIdToUsername'[c] = u
  OBVIOUS
<1>4. QED
  BY <1>1, <1>2, <1>3 DEF OnlyConcerns

LEMMA SubscribeConcerns ==
  ASSUME SharedInv, NEW c \in ConnectionIds, LoggedIn(c), NEW ch \in Channels,
         NEW i \in SubscriptionIds, Subscribe(c, ch, i),
         UNCHANGED <<connectionIdToUsername, passcode, isConnected>>
  PROVE  OnlyConcerns(c)
<1> USE DEF SharedInv, ConnectionsTypeOK, Subscribe
<1>1. ASSUME NEW d \in ConnectionIds \ {c}
      PROVE  placeOf(d)' = placeOf(d)
  BY DEF placeOf
<1>2. ASSUME NEW v \in Usernames, v # connectionIdToUsername[c]
      PROVE  userData(v)' = userData(v)
  BY <1>2 DEF userData
<1>3. QED
  BY <1>1, <1>2 DEF OnlyConcerns

LEMMA UnsubscribeConcerns ==
  ASSUME SharedInv, NEW c \in ConnectionIds, LoggedIn(c), NEW ch \in Channels,
         Unsubscribe(c, ch),
         UNCHANGED <<connectionIdToUsername, passcode, isConnected>>
  PROVE  OnlyConcerns(c)
<1> USE DEF SharedInv, ConnectionsTypeOK, Unsubscribe
<1>1. ASSUME NEW d \in ConnectionIds \ {c}
      PROVE  placeOf(d)' = placeOf(d)
  BY DEF placeOf
<1>2. ASSUME NEW v \in Usernames, v # connectionIdToUsername[c]
      PROVE  userData(v)' = userData(v)
  BY <1>2 DEF userData
<1>3. QED
  BY <1>1, <1>2 DEF OnlyConcerns

LEMMA DisconnectConcerns ==
  ASSUME SharedInv, NEW c \in ConnectionIds, LoggedIn(c), Disconnect(c), UNCHANGED passcode
  PROVE  OnlyConcerns(c)
<1> USE DEF SharedInv, ConnectionsTypeOK, Disconnect, EndSession, ForgetSubscriptions
<1>1. ASSUME NEW d \in ConnectionIds \ {c}
      PROVE  placeOf(d)' = placeOf(d)
  BY DEF placeOf
<1>2. ASSUME NEW v \in Usernames, v # connectionIdToUsername[c]
      PROVE  userData(v)' = userData(v)
  BY <1>2 DEF userData
<1>3. QED
  BY <1>1, <1>2 DEF OnlyConcerns

LEMMA ProcessConcerns ==
  ASSUME SharedInv, NEW c \in ConnectionIds, NEW f \in Requests, process(c, f)
  PROVE  OnlyConcerns(c)
<1>1. ASSUME NEW expected, RefuseMalformed(c, f, expected)
      PROVE  OnlyConcerns(c)
  BY <1>1, UnchangedConcernsNobody DEF RefuseMalformed, connectionsVars
<1>2. ASSUME NEW reason, RefuseAndDisconnect(c, f, reason)
      PROVE  OnlyConcerns(c)
  BY <1>2, UnchangedConcernsNobody, DisconnectConcerns DEF RefuseAndDisconnect
<1>3. ASSUME f.command = "CONNECT", login(c, f)
      PROVE  OnlyConcerns(c)
  <2>1. f.login \in Usernames /\ f.passcode \in Passcodes
    BY <1>3, FrameShape
  <2>2. CASE UNCHANGED connectionsVars
    BY <2>2, UnchangedConcernsNobody DEF connectionsVars
  <2>3. CASE \E reason : RefuseAndDisconnect(c, f, reason)
    BY <2>3, <1>2
  <2>4. CASE /\ ~Registered(f.login) /\ RegisterUser(f.login, f.passcode)
             /\ Connect(c, f.login)
             /\ UNCHANGED <<channelToConnectionIdsList, subscriptionIdToChannel,
                            channelToSubscriptionId>>
    <3>1. /\ \A v \in Usernames : v # f.login => passcode'[v] = passcode[v]
          /\ passcode[f.login] \in {Null, passcode'[f.login]}
      BY <2>1, <2>4 DEF SharedInv, ConnectionsTypeOK, RegisterUser, Registered
    <3>2. QED
      BY <2>1, <2>4, <3>1, ConnectConcerns
  <2>5. CASE /\ Connect(c, f.login)
             /\ UNCHANGED <<passcode, channelToConnectionIdsList, subscriptionIdToChannel,
                            channelToSubscriptionId>>
    BY <2>1, <2>5, ConnectConcerns
  <2>6. QED
    BY <1>3, <2>2, <2>3, <2>4, <2>5 DEF login
<1>4. ASSUME f.command = "CONNECT", connectProcess(c, f)
      PROVE  OnlyConcerns(c)
  BY <1>1, <1>2, <1>3, <1>4 DEF connectProcess
<1>5. ASSUME sendProcess(c, f)
      PROVE  OnlyConcerns(c)
  BY <1>1, <1>2, <1>5, UnchangedConcernsNobody DEF sendProcess
<1>6. ASSUME LoggedIn(c), f.command = "SUBSCRIBE", subscribeProcess(c, f)
      PROVE  OnlyConcerns(c)
  BY <1>1, <1>2, <1>6, FrameShape, SubscribeConcerns DEF subscribeProcess
<1>7. ASSUME LoggedIn(c), f.command = "UNSUBSCRIBE", unsubscribeProcess(c, f)
      PROVE  OnlyConcerns(c)
  <2> DEFINE channel == subscriptionIdToChannel[connectionIdToUsername[c]][f.id]
  <2>1. channel # Null => channel \in Channels
    BY <1>7, FrameShape DEF SharedInv, ConnectionsTypeOK, LoggedIn, OrNull
  <2>2. QED
    BY <1>1, <1>2, <1>7, <2>1, UnsubscribeConcerns DEF unsubscribeProcess
<1>8. ASSUME LoggedIn(c), disconnectProcess(c, f)
      PROVE  OnlyConcerns(c)
  BY <1>8, DisconnectConcerns DEF disconnectProcess
<1>9. QED
  BY <1>2, <1>4, <1>5, <1>6, <1>7, <1>8 DEF process

LEMMA IInvShares == IInv => SharedInv
BY DEF IInv, SharedInv, TypeOK

(* A step changes the session, the list entries and the User of one connection at most,
   and replaces nobody's passcode, whatever the frames. *)
THEOREM StepsConcernOneConnection == Spec => ConnectionsDoNotInterfere
<1> DEFINE Concern == \E c \in ConnectionIds : OnlyConcerns(c)
<1>1. IInv /\ [Next]_vars => [Concern]_sharedVars
  <2> SUFFICES ASSUME IInv, [Next]_vars PROVE Concern \/ UNCHANGED sharedVars
    OBVIOUS
  <2>1. ASSUME NEW c \in ConnectionIds, NEW f \in Requests, Receive(c, f)
        PROVE  Concern
    BY <2>1, IInvShares, ProcessConcerns DEF Receive
  <2>2. QED
    BY <2>1 DEF Next, ThreadStep, Accept, LeaveLoop, ConnectionLost, vars, connectionsVars
<1>2. QED
  BY <1>1, Invariance, PTL DEF Spec, ConnectionsDoNotInterfere, OnlyConcerns

-----------------------------------------------------------------------------
(* The frames a step sends *)

(* The frames of a sequence *)
FramesOf(q) == {q[k] : k \in DOMAIN q}

(* A sequence is one of its frames. *)
IsSequence(q) == q \in Seq(FramesOf(q))

LEMMA ConcatFrames ==
  ASSUME NEW S, NEW q \in Seq(S), NEW r \in Seq(S)
  PROVE  /\ FramesOf(q \o r) = FramesOf(q) \cup FramesOf(r)
         /\ \A k \in DOMAIN q : k \in DOMAIN (q \o r) /\ (q \o r)[k] = q[k]
         /\ \A k \in DOMAIN (q \o r) : k \notin DOMAIN q => (q \o r)[k] \in FramesOf(r)
<1>1. /\ q \o r \in Seq(S)
      /\ Len(q \o r) = Len(q) + Len(r)
      /\ \A k \in 1 .. Len(q) : (q \o r)[k] = q[k]
      /\ \A k \in 1 .. Len(r) : (q \o r)[Len(q) + k] = r[k]
  OBVIOUS
<1>2. /\ DOMAIN q = 1 .. Len(q) /\ Len(q) \in Nat
      /\ DOMAIN r = 1 .. Len(r) /\ Len(r) \in Nat
      /\ DOMAIN (q \o r) = 1 .. Len(q) + Len(r)
  BY <1>1
<1>3. \A k \in 1 .. Len(r) : Len(q) + k \in DOMAIN (q \o r)
  BY <1>2
<1>4. FramesOf(q) \cup FramesOf(r) \subseteq FramesOf(q \o r)
  BY <1>1, <1>2, <1>3 DEF FramesOf
<1>5. ASSUME NEW k \in DOMAIN (q \o r), k \notin DOMAIN q
      PROVE  (q \o r)[k] \in FramesOf(r)
  <2>1. k - Len(q) \in 1 .. Len(r) /\ Len(q) + (k - Len(q)) = k
    BY <1>2, <1>5
  <2>2. (q \o r)[k] = r[k - Len(q)]
    BY <2>1, <1>1
  <2>3. QED
    BY <2>1, <2>2, <1>2 DEF FramesOf
<1>6. ASSUME NEW k \in DOMAIN q
      PROVE  k \in DOMAIN (q \o r) /\ (q \o r)[k] = q[k]
  BY <1>1, <1>2
<1>7. FramesOf(q \o r) = FramesOf(q) \cup FramesOf(r)
  BY <1>4, <1>5, <1>6 DEF FramesOf
<1>8. QED
  BY <1>5, <1>6, <1>7

LEMMA FewFrames ==
  ASSUME NEW S, NEW e \in S
  PROVE  /\ <<>> \in Seq(S) /\ FramesOf(<<>>) = {}
         /\ <<e>> \in Seq(S) /\ FramesOf(<<e>>) = {e}
<1>1. <<>> \in Seq(S) /\ <<e>> \in Seq(S)
  OBVIOUS
<1>2. DOMAIN <<>> = {} /\ DOMAIN <<e>> = {1} /\ <<e>>[1] = e
  OBVIOUS
<1>3. QED
  BY <1>1, <1>2 DEF FramesOf

(* A receipt is sent if the frame requests one. *)
LEMMA ReceiptFrames ==
  ASSUME NEW f, NEW S, ReceiptFrame(f.receipt_id) \in S
  PROVE  /\ RequestedReceipt(f) \in Seq(S)
         /\ FramesOf(RequestedReceipt(f)) \subseteq {ReceiptFrame(f.receipt_id)}
<1>1. RequestedReceipt(f) = <<>> \/ RequestedReceipt(f) = <<ReceiptFrame(f.receipt_id)>>
  BY DEF RequestedReceipt
<1>2. QED
  BY <1>1, FewFrames

(* send(channel) writes to an open socket once per occurrence in the list. *)
LEMMA CopiesFrames ==
  ASSUME ConnectionsTypeOK, NEW d \in ConnectionIds, NEW ch \in Channels,
         NEW S, NEW frame \in S
  PROVE  /\ Copies(d, ch, frame) \in Seq(S)
         /\ FramesOf(Copies(d, ch, frame)) \subseteq {frame}
         /\ DOMAIN Copies(d, ch, frame) =
              IF IsOpen(d) THEN 1 .. channelToConnectionIdsList[ch][d] ELSE {}
<1>1. channelToConnectionIdsList[ch][d] \in Nat
  BY DEF ConnectionsTypeOK
<1>2. CASE IsOpen(d)
  <2>1. Copies(d, ch, frame) = [k \in 1 .. channelToConnectionIdsList[ch][d] |-> frame]
    BY <1>2 DEF Copies
  <2>2. Copies(d, ch, frame) \in Seq(S)
    BY <1>1, <2>1
  <2>3. DOMAIN Copies(d, ch, frame) = 1 .. channelToConnectionIdsList[ch][d]
    BY <2>1
  <2>4. \A k \in DOMAIN Copies(d, ch, frame) : Copies(d, ch, frame)[k] = frame
    BY <2>1
  <2>5. FramesOf(Copies(d, ch, frame)) \subseteq {frame}
    BY <2>4 DEF FramesOf
  <2>6. QED
    BY <1>2, <2>2, <2>3, <2>5
<1>3. CASE ~IsOpen(d)
  <2>1. Copies(d, ch, frame) = <<>>
    BY <1>3 DEF Copies
  <2>2. DOMAIN Copies(d, ch, frame) = {}
    BY <2>1
  <2>3. Copies(d, ch, frame) \in Seq(S)
    BY <2>1, FewFrames
  <2>4. FramesOf(Copies(d, ch, frame)) = {}
    BY <2>2 DEF FramesOf
  <2>5. QED
    BY <1>3, <2>2, <2>3, <2>4
<1>4. QED
  BY <1>2, <1>3

(* ErrorsEndTheConnection, of connection d in the state after the step *)
AnsweredRightly(d) ==
  \A e \in FramesOf(sent'[d]) :
    e.command = "ERROR" => (e.message = AlreadyLoggedIn <=> ~shouldTerminate'[d])

LEMMA ErrorsEndByFrames ==
  (\A d \in ConnectionIds : AnsweredRightly(d)) => ErrorsEndTheConnection'
BY DEF ErrorsEndTheConnection, AnsweredRightly, FramesOf

LEMMA NothingIsAnswered ==
  ASSUME NEW d \in ConnectionIds, sent'[d] = <<>>
  PROVE  AnsweredRightly(d)
BY DEF AnsweredRightly, FramesOf

(* Whoever is not the sender gets reports only. *)
LEMMA ReplyAnswers ==
  ASSUME NEW c \in ConnectionIds, NEW frames, Reply(c, frames),
         \A e \in FramesOf(frames) :
           e.command = "ERROR" => (e.message = AlreadyLoggedIn <=> ~shouldTerminate'[c])
  PROVE  \A d \in ConnectionIds : AnsweredRightly(d)
<1>1. \A d \in ConnectionIds \ {c} : sent'[d] = <<>>
  BY DEF Reply, Nothing
<1>2. sent'[c] = frames
  BY DEF Reply, Nothing
<1>3. QED
  BY <1>1, <1>2, NothingIsAnswered DEF AnsweredRightly

(* A refusal sends an ERROR, and a receipt perhaps. *)
LEMMA RefusalFrames ==
  ASSUME NEW c \in ConnectionIds, NEW f, NEW reason, RefuseAndDisconnect(c, f, reason)
  PROVE  \E frames :
           /\ Reply(c, frames)
           /\ FramesOf(frames) \subseteq
                {ErrorFrame(reason, f.receipt_id, {}), ReceiptFrame(f.receipt_id)}
<1> DEFINE error == ErrorFrame(reason, f.receipt_id, {})
           receipt == ReceiptFrame(f.receipt_id)
           S == {error, receipt}
<1>1. FramesOf(<<error>>) = {error}
  BY FewFrames
<1>2. <<error>> \in Seq(S) /\ RequestedReceipt(f) \in Seq(S)
  BY FewFrames, ReceiptFrames
<1>3. FramesOf(<<error>> \o RequestedReceipt(f))
        = FramesOf(<<error>>) \cup FramesOf(RequestedReceipt(f))
  <2> DEFINE q == <<error>>
             r == RequestedReceipt(f)
  <2>1. q \in Seq(S) /\ r \in Seq(S)
    BY <1>2
  <2> HIDE DEF q, r, S
  <2>2. FramesOf(q \o r) = FramesOf(q) \cup FramesOf(r)
    BY <2>1, ConcatFrames
  <2>3. QED
    BY <2>2 DEF q, r
<1>4. FramesOf(RequestedReceipt(f)) \subseteq {receipt}
  BY ReceiptFrames
<1>5. FramesOf(<<error>> \o RequestedReceipt(f)) \subseteq {error, receipt}
  BY <1>1, <1>3, <1>4
<1>6. QED
  BY <1>1, <1>5 DEF RefuseAndDisconnect

(* It is not the "already logged in" one, and ends the connection. *)
LEMMA RefusalAnswers ==
  ASSUME NEW c \in ConnectionIds, NEW f, NEW reason, reason # AlreadyLoggedIn,
         shouldTerminate \in [ConnectionIds -> BOOLEAN],
         RefuseAndDisconnect(c, f, reason)
  PROVE  \A d \in ConnectionIds : AnsweredRightly(d)
<1> DEFINE error == ErrorFrame(reason, f.receipt_id, {})
           receipt == ReceiptFrame(f.receipt_id)
<1>1. shouldTerminate'[c] = TRUE
  BY DEF RefuseAndDisconnect, MustTerminate
<1>2. \E frames : Reply(c, frames) /\ FramesOf(frames) \subseteq {error, receipt}
  BY RefusalFrames
<1>3. error.message = reason /\ receipt.command # "ERROR"
  BY DEF ErrorFrame, ReceiptFrame
<1>4. QED
  BY <1>1, <1>2, <1>3, ReplyAnswers

LEMMA MalformedAnswers ==
  ASSUME NEW c \in ConnectionIds, NEW f, NEW expected,
         shouldTerminate \in [ConnectionIds -> BOOLEAN],
         RefuseMalformed(c, f, expected)
  PROVE  \A d \in ConnectionIds : AnsweredRightly(d)
<1> DEFINE error == ErrorFrame("malformed frame received", f.receipt, expected)
<1>1. shouldTerminate'[c] = TRUE /\ Reply(c, <<error>>)
  BY DEF RefuseMalformed, MustTerminate
<1>2. FramesOf(<<error>>) = {error}
  BY FewFrames
<1>3. error.message # AlreadyLoggedIn
  BY DEF ErrorFrame, AlreadyLoggedIn
<1>4. QED
  BY <1>1, <1>2, <1>3, ReplyAnswers

(* What is answered without an ERROR is answered rightly. *)
LEMMA ReceiptAnswers ==
  ASSUME NEW c \in ConnectionIds, NEW f, Reply(c, RequestedReceipt(f))
  PROVE  \A d \in ConnectionIds : AnsweredRightly(d)
<1>1. ReceiptFrame(f.receipt_id).command # "ERROR"
  BY DEF ReceiptFrame
<1>2. FramesOf(RequestedReceipt(f)) \subseteq {ReceiptFrame(f.receipt_id)}
  BY ReceiptFrames
<1>3. QED
  BY <1>1, <1>2, ReplyAnswers

(* What sendProcess writes to connection d when c posts f, and how it reads: as many
   reports as the list has occurrences, and then the sender's receipt. *)
WritesTo(d, c, f, ch, i) ==
  sent'[d] = Copies(d, ch, MessageFrame(i, ch, nextMessageId))
               \o (IF d = c THEN RequestedReceipt(f) ELSE <<>>)

ReportsThenReceipt(d, f, ch, i) ==
  LET copied == DOMAIN Copies(d, ch, MessageFrame(i, ch, nextMessageId)) IN
  /\ copied = IF IsOpen(d) THEN 1 .. channelToConnectionIdsList[ch][d] ELSE {}
  /\ copied \subseteq DOMAIN sent'[d]
  /\ \A k \in DOMAIN sent'[d] :
       sent'[d][k] = IF k \in copied THEN MessageFrame(i, ch, nextMessageId)
                                     ELSE ReceiptFrame(f.receipt_id)

LEMMA RelayFrames ==
  ASSUME ConnectionsTypeOK, NEW c \in ConnectionIds, NEW f, NEW ch \in Channels, NEW i,
         NEW d \in ConnectionIds, WritesTo(d, c, f, ch, i)
  PROVE  ReportsThenReceipt(d, f, ch, i)
<1> DEFINE report == MessageFrame(i, ch, nextMessageId)
           receipt == ReceiptFrame(f.receipt_id)
           copies == Copies(d, ch, report)
           receipts == IF d = c THEN RequestedReceipt(f) ELSE <<>>
           S == {report, receipt}
<1>1. report \in S /\ receipt \in S /\ sent'[d] = copies \o receipts
  BY DEF WritesTo
<1>2. /\ copies \in Seq(S)
      /\ FramesOf(copies) \subseteq {report}
      /\ DOMAIN copies = IF IsOpen(d) THEN 1 .. channelToConnectionIdsList[ch][d] ELSE {}
  <2> HIDE DEF S, report
  <2>1. QED
    BY <1>1, CopiesFrames
<1>3. receipts \in Seq(S) /\ FramesOf(receipts) \subseteq {receipt}
  <2>1. RequestedReceipt(f) \in Seq(S)
    BY ReceiptFrames
  <2>2. FramesOf(RequestedReceipt(f)) \subseteq {receipt}
    BY ReceiptFrames
  <2>3. <<>> \in Seq(S) /\ FramesOf(<<>>) = {}
    BY FewFrames
  <2>4. QED
    BY <2>1, <2>2, <2>3
<1>4. \A k \in DOMAIN copies : copies[k] = report
  BY <1>2 DEF FramesOf
<1>5. /\ DOMAIN copies \subseteq DOMAIN sent'[d]
      /\ \A k \in DOMAIN copies : sent'[d][k] = report
      /\ \A k \in DOMAIN sent'[d] : k \notin DOMAIN copies => sent'[d][k] = receipt
  <2> HIDE DEF S, report, receipt, copies, receipts
  <2>1. /\ \A k \in DOMAIN copies :
             k \in DOMAIN (copies \o receipts) /\ (copies \o receipts)[k] = copies[k]
        /\ \A k \in DOMAIN (copies \o receipts) :
             k \notin DOMAIN copies => (copies \o receipts)[k] \in FramesOf(receipts)
    BY <1>2, <1>3, ConcatFrames
  <2>2. QED
    BY <1>1, <1>2, <1>3, <1>4, <2>1
<1>6. QED
  BY <1>2, <1>5 DEF ReportsThenReceipt

LEMMA RelayAnswers ==
  ASSUME ConnectionsTypeOK, NEW c \in ConnectionIds, NEW f, NEW ch \in Channels, NEW i,
         sent' = [e \in ConnectionIds |->
                    Copies(e, ch, MessageFrame(i, ch, nextMessageId))
                      \o (IF e = c THEN RequestedReceipt(f) ELSE <<>>)]
  PROVE  \A d \in ConnectionIds : AnsweredRightly(d)
<1>1. /\ MessageFrame(i, ch, nextMessageId).command # "ERROR"
      /\ ReceiptFrame(f.receipt_id).command # "ERROR"
  BY DEF MessageFrame, ReceiptFrame
<1>2. ASSUME NEW d \in ConnectionIds, NEW k \in DOMAIN sent'[d]
      PROVE  sent'[d][k] \in {MessageFrame(i, ch, nextMessageId), ReceiptFrame(f.receipt_id)}
  <2>1. ReportsThenReceipt(d, f, ch, i)
    BY RelayFrames DEF WritesTo
  <2>2. QED
    BY <2>1 DEF ReportsThenReceipt
<1>3. QED
  BY <1>1, <1>2 DEF AnsweredRightly, FramesOf

LEMMA ProcessAnswers ==
  ASSUME IInv, NEW c \in ConnectionIds, NEW f \in Requests, process(c, f)
  PROVE  \A d \in ConnectionIds : AnsweredRightly(d)
<1> DEFINE Goal == \A d \in ConnectionIds : AnsweredRightly(d)
<1>1. shouldTerminate \in [ConnectionIds -> BOOLEAN] /\ ConnectionsTypeOK
  BY DEF IInv, TypeOK
<1>2. ASSUME NEW expected, RefuseMalformed(c, f, expected)
      PROVE  Goal
  BY <1>1, <1>2, MalformedAnswers
<1>3. ASSUME NEW reason, reason # AlreadyLoggedIn, RefuseAndDisconnect(c, f, reason)
      PROVE  Goal
  BY <1>1, <1>3, RefusalAnswers
<1>4. /\ "Wrong password" # AlreadyLoggedIn
      /\ "version is wrong" # AlreadyLoggedIn
      /\ "host is wrong" # AlreadyLoggedIn
      /\ "User isnt subscribed to this channel" # AlreadyLoggedIn
      /\ "you are already subscribed" # AlreadyLoggedIn
      /\ "already unsubscribed" # AlreadyLoggedIn
      /\ "first you must log-in" # AlreadyLoggedIn
      /\ "invalid Command" # AlreadyLoggedIn
  BY DEF AlreadyLoggedIn
<1>5. ASSUME login(c, f)
      PROVE  Goal
  <2>1. CASE Reply(c, <<ConnectedFrame>>)
    <3>1. FramesOf(<<ConnectedFrame>>) = {ConnectedFrame} /\ ConnectedFrame.command # "ERROR"
      BY FewFrames DEF ConnectedFrame
    <3>2. QED
      BY <2>1, <3>1, ReplyAnswers
  <2>2. CASE MustStay(c) /\ Reply(c, <<ErrorFrame(AlreadyLoggedIn, f.receipt_id, {})>>)
    <3> DEFINE error == ErrorFrame(AlreadyLoggedIn, f.receipt_id, {})
    <3>1. FramesOf(<<error>>) = {error} /\ error.message = AlreadyLoggedIn
      BY FewFrames DEF ErrorFrame
    <3>2. shouldTerminate'[c] = FALSE
      BY <1>1, <2>2 DEF MustStay
    <3>3. QED
      BY <2>2, <3>1, <3>2, ReplyAnswers
  <2>3. CASE RefuseAndDisconnect(c, f, "Wrong password")
    BY <2>3, <1>3, <1>4
  <2>4. QED
    BY <1>5, <2>1, <2>2, <2>3 DEF login
<1>6. ASSUME connectProcess(c, f)
      PROVE  Goal
  BY <1>2, <1>3, <1>4, <1>5, <1>6 DEF connectProcess
<1>7. ASSUME f.command = "SEND", sendProcess(c, f)
      PROVE  Goal
  <2>1. CASE RefuseMalformed(c, f, SendHeaders)
    BY <2>1, <1>2
  <2>2. CASE RefuseAndDisconnect(c, f, "User isnt subscribed to this channel")
    BY <2>2, <1>3, <1>4
  <2>3. ASSUME NEW ch \in Channels, NEW i,
               sent' = [d \in ConnectionIds |->
                          Copies(d, ch, MessageFrame(i, ch, nextMessageId))
                            \o (IF d = c THEN RequestedReceipt(f) ELSE <<>>)]
        PROVE  Goal
    BY <2>3, <1>1, RelayAnswers
  <2>4. f.destination \in Channels
    BY <1>7, FrameShape
  <2>5. QED
    BY <1>7, <2>1, <2>2, <2>3, <2>4 DEF sendProcess
<1>8. ASSUME subscribeProcess(c, f)
      PROVE  Goal
  BY <1>2, <1>3, <1>4, <1>8, ReceiptAnswers DEF subscribeProcess
<1>9. ASSUME unsubscribeProcess(c, f)
      PROVE  Goal
  BY <1>2, <1>3, <1>4, <1>9, ReceiptAnswers DEF unsubscribeProcess
<1>10. ASSUME disconnectProcess(c, f)
       PROVE  Goal
  BY <1>10, ReceiptAnswers DEF disconnectProcess
<1>11. QED
  BY <1>3, <1>4, <1>6, <1>7, <1>8, <1>9, <1>10 DEF process

(* The server ends a connection with every ERROR but the "already logged in" one, and
   with that one never: what the client's listener takes for granted. *)
THEOREM ErrorsAreFinal == Spec => []ErrorsEndTheConnection
<1>1. Init => ErrorsEndTheConnection
  BY DEF Init, ErrorsEndTheConnection, Nothing
<1>2. IInv /\ ErrorsEndTheConnection /\ [Next]_vars => ErrorsEndTheConnection'
  <2> SUFFICES ASSUME IInv, ErrorsEndTheConnection, [Next]_vars
               PROVE  ErrorsEndTheConnection'
    OBVIOUS
  <2>1. ASSUME NEW c \in ConnectionIds, NEW f \in Requests, Receive(c, f)
        PROVE  ErrorsEndTheConnection'
    BY <2>1, ProcessAnswers, ErrorsEndByFrames DEF Receive
  <2>2. CASE sent' = Nothing
    BY <2>2, NothingIsAnswered, ErrorsEndByFrames DEF Nothing
  <2>3. CASE UNCHANGED vars
    BY <2>3 DEF vars, protocolVars, ErrorsEndTheConnection
  <2>4. QED
    BY <2>1, <2>2, <2>3 DEF Next, ThreadStep, Accept, LeaveLoop, ConnectionLost
<1>3. QED
  BY <1>1, <1>2, Invariance, PTL DEF Spec

-----------------------------------------------------------------------------
(* A report reaches every subscriber *)

(* What EverySubscriberGetsTheReport says of a step *)
Relayed(ch) ==
  /\ \E c \in ConnectionIds : Subscribed(c, ch) /\ IsOpen(c)
  /\ \A c \in ConnectionIds :
       Subscribed(c, ch) /\ IsOpen(c) =>
         \E k \in DOMAIN sent'[c] :
           /\ sent'[c][k].command = "MESSAGE"
           /\ sent'[c][k].destination = ch
           /\ sent'[c][k].message_id = nextMessageId

LEMMA OnlySendCounts ==
  ASSUME IInv, NEW c \in ConnectionIds, NEW f \in Requests, process(c, f),
         nextMessageId' # nextMessageId
  PROVE  /\ LoggedIn(c) /\ f.destination \in ChannelsOf(c)
         /\ LET ch == f.destination
                i  == channelToSubscriptionId[connectionIdToUsername[c]][ch]
            IN  sent' = [d \in ConnectionIds |->
                           Copies(d, ch, MessageFrame(i, ch, nextMessageId))
                             \o (IF d = c THEN RequestedReceipt(f) ELSE <<>>)]
<1>1. ASSUME NEW expected
      PROVE  ~RefuseMalformed(c, f, expected)
  BY DEF RefuseMalformed, connectionsVars
<1>2. ASSUME NEW reason
      PROVE  ~RefuseAndDisconnect(c, f, reason)
  BY DEF RefuseAndDisconnect
<1>3. ~connectProcess(c, f)
  BY <1>1, <1>2 DEF connectProcess, login, connectionsVars
<1>4. ~subscribeProcess(c, f) /\ ~unsubscribeProcess(c, f) /\ ~disconnectProcess(c, f)
  BY <1>1, <1>2 DEF subscribeProcess, unsubscribeProcess, disconnectProcess
<1>5. LoggedIn(c) /\ sendProcess(c, f)
  BY <1>2, <1>3, <1>4 DEF process
<1>6. QED
  BY <1>1, <1>2, <1>5 DEF sendProcess

(* c's report f to the channel ch is sent, under its id i for it. *)
RelayedBy(c, f, ch, i) ==
  sent' = [e \in ConnectionIds |->
             Copies(e, ch, MessageFrame(i, ch, nextMessageId))
               \o (IF e = c THEN RequestedReceipt(f) ELSE <<>>)]

LEMMA RelayReaches ==
  ASSUME ConnectionsTypeOK, SubscribersAreListed, NEW c \in ConnectionIds, NEW f,
         NEW ch \in Channels, NEW i, NEW d \in ConnectionIds, Subscribed(d, ch), IsOpen(d),
         RelayedBy(c, f, ch, i)
  PROVE  \E k \in DOMAIN sent'[d] : sent'[d][k] = MessageFrame(i, ch, nextMessageId)
<1> DEFINE report == MessageFrame(i, ch, nextMessageId)
<1>1. channelToConnectionIdsList[ch][d] \in Nat /\ channelToConnectionIdsList[ch][d] > 0
  BY DEF SubscribersAreListed, ConnectionsTypeOK
<1>2. ReportsThenReceipt(d, f, ch, i)
  BY RelayFrames DEF WritesTo, RelayedBy
<1>3. 1 \in DOMAIN Copies(d, ch, report)
  BY <1>1, <1>2 DEF ReportsThenReceipt
<1>4. 1 \in DOMAIN sent'[d] /\ sent'[d][1] = report
  BY <1>2, <1>3 DEF ReportsThenReceipt
<1>5. QED
  BY <1>4

LEMMA SendRelays ==
  ASSUME IInv, NEW c \in ConnectionIds, NEW f \in Requests, Receive(c, f),
         nextMessageId' # nextMessageId
  PROVE  \E ch \in Channels : Relayed(ch)
<1> DEFINE ch == f.destination
           i == channelToSubscriptionId[connectionIdToUsername[c]][ch]
           report == MessageFrame(i, ch, nextMessageId)
<1>1. ConnectionsTypeOK /\ SubscribersAreListed
  BY DEF IInv, TypeOK
<1>2. LoggedIn(c) /\ ch \in ChannelsOf(c) /\ RelayedBy(c, f, ch, i)
  BY OnlySendCounts DEF Receive, RelayedBy
<1>3. ch \in Channels /\ Subscribed(c, ch) /\ IsOpen(c)
  BY <1>2 DEF Subscribed, ChannelsOf, Receive
<1>4. ASSUME NEW d \in ConnectionIds, Subscribed(d, ch), IsOpen(d)
      PROVE  \E k \in DOMAIN sent'[d] : sent'[d][k] = report
  <2> HIDE DEF ch, i
  <2>1. QED
    BY <1>1, <1>2, <1>3, <1>4, RelayReaches
<1>5. /\ report.command = "MESSAGE"
      /\ report.destination = ch
      /\ report.message_id = nextMessageId
  BY DEF MessageFrame
<1>6. Relayed(ch)
  <2> HIDE DEF report
  <2>1. QED
    BY <1>3, <1>4, <1>5 DEF Relayed
<1>7. QED
  BY <1>3, <1>6

(* When a report gets its id it is written to the socket of everyone who is subscribed
   to its channel and reachable, and somebody is. *)
THEOREM ReportsReachSubscribers == Spec => EverySubscriberGetsTheReport
<1> DEFINE Relay == \E ch \in Channels : Relayed(ch)
<1>1. IInv /\ [Next]_vars => [Relay]_nextMessageId
  <2> SUFFICES ASSUME IInv, [Next]_vars PROVE Relay \/ UNCHANGED nextMessageId
    OBVIOUS
  <2>1. ASSUME NEW c \in ConnectionIds, NEW f \in Requests, Receive(c, f)
        PROVE  Relay \/ UNCHANGED nextMessageId
    BY <2>1, SendRelays
  <2>2. QED
    BY <2>1 DEF Next, ThreadStep, Accept, LeaveLoop, ConnectionLost, vars, connectionsVars
<1>2. QED
  BY <1>1, Invariance, PTL DEF Spec, EverySubscriberGetsTheReport, Relayed
-----------------------------------------------------------------------------
(* What a step means for the session of its connection *)

(* A frame with all the headers its command must have *)
Complete(f) ==
  /\ f.command = "CONNECT" => f.headers = ConnectHeaders
  /\ f.command = "SEND" => f.headers = SendHeaders
  /\ f.command = "SUBSCRIBE" => f.headers = SubscribeHeaders
  /\ f.command = "UNSUBSCRIBE" => f.headers = UnsubscribeHeaders

IsReceiptFor(e, f) == f.receipt_id # Null /\ e = ReceiptFrame(f.receipt_id)

IsFinalError(e) == e.command = "ERROR" /\ e.message # AlreadyLoggedIn

(* A CONNECT is accepted: the user has no subscription yet. *)
SessionBegins(c, f) ==
  /\ f.command = "CONNECT"
  /\ connectionIdToUsername'[c] \in Usernames
  /\ ~shouldTerminate'[c]
  /\ \A i \in SubscriptionIds :
       subscriptionIdToChannel'[connectionIdToUsername'[c]][i] = Null
  /\ sent'[c] = <<ConnectedFrame>>

(* The user is logged in elsewhere, or here: nothing changes. *)
LoginIsRefused(c, f) ==
  /\ f.command = "CONNECT"
  /\ UNCHANGED <<connectionIdToUsername, subscriptionIdToChannel>>
  /\ ~shouldTerminate'[c]
  /\ sent'[c] = <<ErrorFrame(AlreadyLoggedIn, f.receipt_id, {})>>

(* A DISCONNECT or a refusal: the client is sent the receipt, or the ERROR first. *)
SessionEnds(c, f) ==
  /\ connectionIdToUsername'[c] = Null
  /\ shouldTerminate'[c]
  /\ IsSequence(sent'[c])
  /\ \A e \in FramesOf(sent'[c]) : IsFinalError(e) \/ IsReceiptFor(e, f)
  /\ f.command = "DISCONNECT" \/ \E e \in FramesOf(sent'[c]) : IsFinalError(e)

(* Another frame is carried out: a SUBSCRIBE takes its id for its channel. *)
SessionGoesOn(c, f) ==
  /\ f.command # "DISCONNECT"
  /\ LoggedIn(c)
  /\ connectionIdToUsername'[c] = connectionIdToUsername[c]
  /\ ~shouldTerminate'[c]
  /\ IsSequence(sent'[c])
  /\ \A e \in FramesOf(sent'[c]) : e.command = "MESSAGE" \/ IsReceiptFor(e, f)
  /\ \A i \in SubscriptionIds :
       LET now  == subscriptionIdToChannel[connectionIdToUsername[c]][i]
           next == subscriptionIdToChannel'[connectionIdToUsername[c]][i]
       IN  \/ next = now
           \/ next = Null
           \/ f.command = "SUBSCRIBE" /\ i = f.id /\ next = f.destination

SessionStep(c, f) ==
  SessionBegins(c, f) \/ LoginIsRefused(c, f) \/ SessionEnds(c, f) \/ SessionGoesOn(c, f)

LEMMA SequenceOf ==
  ASSUME NEW T, NEW q \in Seq(T)
  PROVE  /\ IsSequence(q)
         /\ FramesOf(q) \subseteq T
<1>1. q \in [1 .. Len(q) -> T] /\ DOMAIN q = 1 .. Len(q) /\ Len(q) \in Nat
  OBVIOUS
<1>2. FramesOf(q) \subseteq T
  BY <1>1 DEF FramesOf
<1>3. q \in [1 .. Len(q) -> FramesOf(q)]
  BY <1>1 DEF FramesOf
<1>4. q \in Seq(FramesOf(q))
  BY <1>1, <1>3
<1>5. QED
  BY <1>2, <1>4 DEF IsSequence

LEMMA WiderSequence ==
  ASSUME NEW q, IsSequence(q), NEW T, FramesOf(q) \subseteq T
  PROVE  q \in Seq(T)
BY DEF IsSequence

LEMMA ConcatSequences ==
  ASSUME NEW q, NEW r, IsSequence(q), IsSequence(r)
  PROVE  /\ IsSequence(q \o r)
         /\ FramesOf(q \o r) = FramesOf(q) \cup FramesOf(r)
<1> DEFINE T == FramesOf(q) \cup FramesOf(r)
<1>1. FramesOf(q) \subseteq T /\ FramesOf(r) \subseteq T
  OBVIOUS
<1> HIDE DEF T
<1>2. q \in Seq(T) /\ r \in Seq(T)
  BY <1>1, WiderSequence
<1>3. q \o r \in Seq(T)
  BY <1>2
<1>4. FramesOf(q \o r) = FramesOf(q) \cup FramesOf(r)
  BY <1>2, ConcatFrames
<1>5. QED
  BY <1>3, <1>4, SequenceOf

LEMMA ReceiptSequence ==
  ASSUME NEW f
  PROVE  /\ IsSequence(RequestedReceipt(f))
         /\ \A e \in FramesOf(RequestedReceipt(f)) : IsReceiptFor(e, f)
<1> DEFINE receipt == ReceiptFrame(f.receipt_id)
<1>1. receipt \in {receipt}
  OBVIOUS
<1> HIDE DEF receipt
<1>2. IsSequence(<<>>) /\ FramesOf(<<>>) = {} /\ IsSequence(<<receipt>>) /\ FramesOf(<<receipt>>) = {receipt}
  BY <1>1, FewFrames, SequenceOf
<1>3. QED
  BY <1>2 DEF RequestedReceipt, IsReceiptFor, receipt

(* RefuseAndDisconnect ends a session, and would without one. *)
LEMMA RefusalEndsSession ==
  ASSUME ConnectionsTypeOK, shouldTerminate \in [ConnectionIds -> BOOLEAN],
         NEW c \in ConnectionIds, NEW f, NEW reason, reason # AlreadyLoggedIn,
         RefuseAndDisconnect(c, f, reason)
  PROVE  SessionEnds(c, f)
<1> DEFINE error == ErrorFrame(reason, f.receipt_id, {})
           frames == <<error>> \o RequestedReceipt(f)
<1>1. shouldTerminate'[c]
  BY DEF RefuseAndDisconnect, MustTerminate
<1>2. connectionIdToUsername'[c] = Null
  BY DEF RefuseAndDisconnect, Disconnect, EndSession, sharedVars, LoggedIn, ConnectionsTypeOK
<1>3. IsFinalError(error)
  BY DEF ErrorFrame, IsFinalError
<1>4. error \in {error}
  OBVIOUS
<1>5. sent'[c] = frames \/ sent'[c] = <<error>>
  BY DEF RefuseAndDisconnect, Reply, Nothing
<1> HIDE DEF error
<1>6. IsSequence(<<error>>) /\ FramesOf(<<error>>) = {error}
  BY <1>4, FewFrames, SequenceOf
<1>7. IsSequence(frames) /\ FramesOf(frames) = {error} \cup FramesOf(RequestedReceipt(f))
  BY <1>6, ReceiptSequence, ConcatSequences
<1> HIDE DEF frames
<1>8. QED
  BY <1>1, <1>2, <1>3, <1>5, <1>6, <1>7, ReceiptSequence DEF SessionEnds

LEMMA LoginIsAnswered ==
  ASSUME IInv, NEW c \in ConnectionIds, NEW f \in Requests, f.command = "CONNECT", login(c, f)
  PROVE  SessionBegins(c, f) \/ LoginIsRefused(c, f) \/ SessionEnds(c, f)
<1>1. ConnectionsTypeOK /\ shouldTerminate \in [ConnectionIds -> BOOLEAN]
  BY DEF IInv, TypeOK
<1>2. f.login \in Usernames
  BY FrameShape
<1>3. ASSUME ~isConnected[f.login], Connect(c, f.login), MustStay(c),
             Reply(c, <<ConnectedFrame>>), UNCHANGED subscriptionIdToChannel
      PROVE  SessionBegins(c, f)
  <2>1. connectionIdToUsername'[c] = f.login /\ shouldTerminate'[c] = FALSE
    BY <1>1, <1>3 DEF ConnectionsTypeOK, Connect, MustStay
  <2>2. sent'[c] = <<ConnectedFrame>>
    BY <1>3 DEF Reply, Nothing
  <2>3. \A i \in SubscriptionIds : subscriptionIdToChannel[f.login][i] = Null
    BY <1>2, <1>3 DEF IInv, UsersMatchSessions
  <2>4. QED
    BY <1>2, <1>3, <2>1, <2>2, <2>3 DEF SessionBegins
<1>4. CASE ~Registered(f.login)
  <2>1. ~isConnected[f.login]
    BY <1>2, <1>4 DEF IInv, UsersMatchSessions, Registered
  <2>2. QED
    BY <1>3, <1>4, <2>1 DEF login
<1>5. CASE Registered(f.login) /\ ~isConnected[f.login] /\ passcode[f.login] = f.passcode
  BY <1>3, <1>5 DEF login
<1>6. CASE Registered(f.login) /\ ~isConnected[f.login] /\ passcode[f.login] # f.passcode
  <2>1. "Wrong password" # AlreadyLoggedIn
    BY DEF AlreadyLoggedIn
  <2>2. QED
    BY <1>1, <1>6, <2>1, RefusalEndsSession DEF login
<1>7. CASE Registered(f.login) /\ isConnected[f.login]
  <2>1. /\ MustStay(c) /\ UNCHANGED connectionsVars
        /\ Reply(c, <<ErrorFrame(AlreadyLoggedIn, f.receipt_id, {})>>)
    BY <1>7 DEF login
  <2>2. shouldTerminate'[c] = FALSE
    BY <1>1, <2>1 DEF MustStay
  <2>3. sent'[c] = <<ErrorFrame(AlreadyLoggedIn, f.receipt_id, {})>>
    BY <2>1 DEF Reply, Nothing
  <2>4. QED
    BY <2>1, <2>2, <2>3 DEF LoginIsRefused, connectionsVars, sharedVars, userVars
<1>8. QED
  BY <1>4, <1>5, <1>6, <1>7

(* The sender of a report gets copies of it, and its receipt. *)
LEMMA RelayGoesOn ==
  ASSUME IInv, NEW c \in ConnectionIds, NEW f \in Requests, f.command = "SEND", LoggedIn(c),
         f.destination \in ChannelsOf(c), sendProcess(c, f), Complete(f)
  PROVE  SessionGoesOn(c, f)
<1> DEFINE ch == f.destination
           i == channelToSubscriptionId[connectionIdToUsername[c]][ch]
           report == MessageFrame(i, ch, nextMessageId)
           copies == Copies(c, ch, report)
           receipts == RequestedReceipt(f)
<1>1. ConnectionsTypeOK /\ shouldTerminate \in [ConnectionIds -> BOOLEAN]
  BY DEF IInv, TypeOK
<1>2. messageValidityCheck(f, SendHeaders) /\ ch \in Channels
  BY FrameShape DEF Complete, messageValidityCheck
<1>3. sent'[c] = copies \o receipts /\ MustStay(c) /\ UNCHANGED sharedVars
  BY <1>2 DEF sendProcess
<1>4. report.command = "MESSAGE" /\ report \in {report}
  BY DEF MessageFrame
<1> HIDE DEF report, ch, i
<1>5. IsSequence(copies) /\ FramesOf(copies) \subseteq {report}
  <2>1. copies \in Seq({report}) /\ FramesOf(copies) \subseteq {report}
    BY <1>1, <1>2, <1>4, CopiesFrames
  <2> HIDE DEF copies
  <2>2. QED
    BY <2>1, SequenceOf
<1>6. IsSequence(receipts) /\ \A e \in FramesOf(receipts) : IsReceiptFor(e, f)
  BY ReceiptSequence
<1> HIDE DEF copies, receipts
<1>7. IsSequence(sent'[c]) /\ FramesOf(sent'[c]) = FramesOf(copies) \cup FramesOf(receipts)
  BY <1>3, <1>5, <1>6, ConcatSequences
<1>8. shouldTerminate'[c] = FALSE
  BY <1>1, <1>3 DEF MustStay
<1>9. \A e \in FramesOf(sent'[c]) : e.command = "MESSAGE" \/ IsReceiptFor(e, f)
  BY <1>4, <1>5, <1>6, <1>7
<1>10. QED
  BY <1>3, <1>7, <1>8, <1>9 DEF SessionGoesOn, sharedVars, userVars

LEMMA SubscribeGoesOn ==
  ASSUME IInv, NEW c \in ConnectionIds, NEW f \in Requests, f.command = "SUBSCRIBE",
         LoggedIn(c), Subscribe(c, f.destination, f.id), MustStay(c),
         Reply(c, RequestedReceipt(f)), UNCHANGED connectionIdToUsername
  PROVE  SessionGoesOn(c, f)
<1>1. ConnectionsTypeOK /\ shouldTerminate \in [ConnectionIds -> BOOLEAN]
  BY DEF IInv, TypeOK
<1>2. f.id \in SubscriptionIds /\ connectionIdToUsername[c] \in Usernames
  BY <1>1, FrameShape DEF ConnectionsTypeOK, OrNull, LoggedIn
<1>3. sent'[c] = RequestedReceipt(f)
  BY DEF Reply, Nothing
<1>4. shouldTerminate'[c] = FALSE
  BY <1>1 DEF MustStay
<1>5. ASSUME NEW i \in SubscriptionIds
      PROVE  subscriptionIdToChannel'[connectionIdToUsername[c]][i] =
               IF i = f.id THEN f.destination
               ELSE subscriptionIdToChannel[connectionIdToUsername[c]][i]
  BY <1>1, <1>2 DEF ConnectionsTypeOK, Subscribe
<1>6. QED
  BY <1>3, <1>4, <1>5, ReceiptSequence DEF SessionGoesOn

LEMMA UnsubscribeGoesOn ==
  ASSUME IInv, NEW c \in ConnectionIds, NEW f \in Requests, NEW ch \in Channels,
         f.command = "UNSUBSCRIBE", LoggedIn(c), Unsubscribe(c, ch), MustStay(c),
         Reply(c, RequestedReceipt(f)), UNCHANGED connectionIdToUsername
  PROVE  SessionGoesOn(c, f)
<1> DEFINE u == connectionIdToUsername[c]
<1>1. ConnectionsTypeOK /\ shouldTerminate \in [ConnectionIds -> BOOLEAN]
  BY DEF IInv, TypeOK
<1>2. u \in Usernames
  BY <1>1 DEF ConnectionsTypeOK, OrNull, LoggedIn
<1>3. sent'[c] = RequestedReceipt(f)
  BY DEF Reply, Nothing
<1>4. shouldTerminate'[c] = FALSE
  BY <1>1 DEF MustStay
<1>5. ASSUME NEW i \in SubscriptionIds
      PROVE  \/ subscriptionIdToChannel'[u][i] = subscriptionIdToChannel[u][i]
             \/ subscriptionIdToChannel'[u][i] = Null
  BY <1>1, <1>2 DEF ConnectionsTypeOK, Unsubscribe
<1>6. QED
  BY <1>3, <1>4, <1>5, ReceiptSequence DEF SessionGoesOn

(* One frame of the client's making either begins, keeps, ends or leaves out a session
   of its connection, and says so in its answer; of no other connection. *)
LEMMA ProcessIsASessionStep ==
  ASSUME IInv, NEW c \in ConnectionIds, NEW f \in Requests, Complete(f), process(c, f)
  PROVE  /\ SessionStep(c, f)
         /\ \A d \in ConnectionIds \ {c} :
              /\ connectionIdToUsername'[d] = connectionIdToUsername[d]
              /\ shouldTerminate'[d] = shouldTerminate[d]
<1> DEFINE Goal == SessionStep(c, f)
<1>1. ConnectionsTypeOK /\ shouldTerminate \in [ConnectionIds -> BOOLEAN]
  BY DEF IInv, TypeOK
<1>2. ASSUME NEW reason, reason # AlreadyLoggedIn, RefuseAndDisconnect(c, f, reason)
      PROVE  Goal
  BY <1>1, <1>2, RefusalEndsSession DEF SessionStep
<1>3. /\ "version is wrong" # AlreadyLoggedIn
      /\ "host is wrong" # AlreadyLoggedIn
      /\ "User isnt subscribed to this channel" # AlreadyLoggedIn
      /\ "you are already subscribed" # AlreadyLoggedIn
      /\ "already unsubscribed" # AlreadyLoggedIn
      /\ "first you must log-in" # AlreadyLoggedIn
      /\ "invalid Command" # AlreadyLoggedIn
  BY DEF AlreadyLoggedIn
<1>4. ASSUME f.command = "CONNECT"
      PROVE  Goal
  <2>1. messageValidityCheck(f, ConnectHeaders)
    BY <1>4 DEF Complete, messageValidityCheck
  <2>2. connectProcess(c, f) \/ RefuseAndDisconnect(c, f, "first you must log-in")
    BY <1>4 DEF process
  <2>3. CASE login(c, f)
    BY <1>4, <2>3, LoginIsAnswered DEF SessionStep
  <2>4. QED
    BY <1>2, <1>3, <1>4, <2>1, <2>2, <2>3 DEF connectProcess
<1>5. ASSUME f.command # "CONNECT", ~LoggedIn(c)
      PROVE  Goal
  BY <1>2, <1>3, <1>5 DEF process
<1>6. ASSUME f.command = "SEND", LoggedIn(c)
      PROVE  Goal
  <2>1. messageValidityCheck(f, SendHeaders) /\ sendProcess(c, f)
    BY <1>6 DEF Complete, messageValidityCheck, process
  <2>2. CASE f.destination \in ChannelsOf(c)
    BY <1>6, <2>1, <2>2, RelayGoesOn DEF SessionStep
  <2>3. QED
    BY <1>2, <1>3, <2>1, <2>2 DEF sendProcess
<1>7. ASSUME f.command = "SUBSCRIBE", LoggedIn(c)
      PROVE  Goal
  <2>1. messageValidityCheck(f, SubscribeHeaders) /\ subscribeProcess(c, f)
    BY <1>7 DEF Complete, messageValidityCheck, process
  <2>2. CASE f.destination \notin ChannelsOf(c)
    BY <1>7, <2>1, <2>2, SubscribeGoesOn DEF SessionStep, subscribeProcess
  <2>3. QED
    BY <1>2, <1>3, <2>1, <2>2 DEF subscribeProcess
<1>8. ASSUME f.command = "UNSUBSCRIBE", LoggedIn(c)
      PROVE  Goal
  <2> DEFINE channel == subscriptionIdToChannel[connectionIdToUsername[c]][f.id]
  <2>1. messageValidityCheck(f, UnsubscribeHeaders) /\ unsubscribeProcess(c, f)
    BY <1>8 DEF Complete, messageValidityCheck, process
  <2>2. CASE channel # Null
    <3>1. channel \in Channels
      BY <1>1, <1>8, <2>2, FrameShape DEF ConnectionsTypeOK, LoggedIn, OrNull
    <3>2. /\ Unsubscribe(c, channel) /\ MustStay(c) /\ Reply(c, RequestedReceipt(f))
          /\ UNCHANGED connectionIdToUsername
      BY <2>1, <2>2 DEF unsubscribeProcess
    <3>3. QED
      BY <1>8, <3>1, <3>2, UnsubscribeGoesOn DEF SessionStep
  <2>3. QED
    BY <1>2, <1>3, <2>1, <2>2 DEF unsubscribeProcess
<1>9. ASSUME f.command = "DISCONNECT", LoggedIn(c)
      PROVE  Goal
  <2>1. disconnectProcess(c, f)
    BY <1>9 DEF process
  <2>2. connectionIdToUsername'[c] = Null /\ shouldTerminate'[c]
    BY <1>1, <2>1
       DEF disconnectProcess, Disconnect, EndSession, MustTerminate, ConnectionsTypeOK
  <2>3. sent'[c] = RequestedReceipt(f)
    BY <2>1 DEF disconnectProcess, Reply, Nothing
  <2>4. QED
    BY <1>9, <2>2, <2>3, ReceiptSequence DEF SessionEnds, SessionStep
<1>10. ASSUME f.command = "WRONG-COMMAND", LoggedIn(c)
       PROVE  Goal
  BY <1>2, <1>3, <1>10 DEF process
<1>11. Goal
  BY <1>4, <1>5, <1>6, <1>7, <1>8, <1>9, <1>10 DEF process
<1>12. \A d \in ConnectionIds \ {c} : connectionIdToUsername'[d] = connectionIdToUsername[d]
  BY IInvShares, ProcessConcerns DEF OnlyConcerns, placeOf
<1>13. MustTerminate(c) \/ MustStay(c)
  BY ProcessSetsFlag
<1>14. QED
  BY <1>1, <1>11, <1>12, <1>13 DEF MustTerminate, MustStay

-----------------------------------------------------------------------------
(* The server implements the forum, for clients that log in once per connection.        *)
(* The refinement needs that the lists hold exactly the subscribers (ListsAreExact), so *)
(* that a report is delivered once to each member, and that nobody is logged in on a    *)
(* connection that was never accepted (SessionsHaveHandlers), so that a connection is   *)
(* opened without a session.  Both rest on the invariant of every client behaviour.     *)

SessionsHaveHandlers ==
  \A c \in ConnectionIds : connectionIdToConnectionHandler[c] = Null => ~LoggedIn(c)

PoliteInv ==
  /\ IInv
  /\ ListsAreExact
  /\ ConnectedUserHasASession
  /\ SessionsHaveHandlers

(* Its part about the shared state *)
ExactInv == SharedInv /\ ListsAreExact /\ ConnectedUserHasASession

-----------------------------------------------------------------------------
(* What the operations do to sessions and subscriptions.  The changes of Subscribed   *)
(* are the forum's: Login, Join, Leave, Logout.                                       *)

(* A login on a connection without a session joins nothing. *)
LEMMA LoginIsExact ==
  ASSUME ExactInv, NEW c \in ConnectionIds, ~LoggedIn(c), NEW u \in Usernames,
         ~isConnected[u], Connect(c, u),
         UNCHANGED <<channelToConnectionIdsList, subscriptionIdToChannel,
                     channelToSubscriptionId>>
  PROVE  /\ \A d \in ConnectionIds, ch \in Channels : Subscribed(d, ch)' <=> Subscribed(d, ch)
         /\ ListsAreExact' /\ ConnectedUserHasASession'
<1> USE DEF ExactInv, SharedInv, ConnectionsTypeOK, Connect
<1>1. u # Null
  BY NullAssumption
<1>2. ASSUME NEW d \in ConnectionIds, NEW ch \in Channels
      PROVE  Subscribed(d, ch)' <=> Subscribed(d, ch)
  <2>1. CASE d = c
    <3>1. connectionIdToUsername'[c] = u /\ channelToSubscriptionId'[u][ch] = Null
      BY DEF UsersMatchSessions
    <3>2. QED
      BY <2>1, <3>1 DEF Subscribed, ChannelsOf, LoggedIn
  <2>2. CASE d # c
    BY <2>2 DEF Subscribed, ChannelsOf, LoggedIn
  <2>3. QED
    BY <2>1, <2>2
<1>3. ListsAreExact'
  BY <1>2 DEF ListsAreExact
<1>4. ConnectedUserHasASession'
  <2> SUFFICES ASSUME NEW v \in Usernames, isConnected'[v]
               PROVE  \E d \in ConnectionIds : connectionIdToUsername'[d] = v
    BY DEF ConnectedUserHasASession
  <2>1. CASE v = u
    BY <2>1
  <2>2. CASE v # u
    <3>1. PICK d \in ConnectionIds : connectionIdToUsername[d] = v
      BY <2>2 DEF ConnectedUserHasASession
    <3>2. d # c
      BY <3>1, NullAssumption DEF LoggedIn
    <3>3. QED
      BY <3>1, <3>2
  <2>3. QED
    BY <2>1, <2>2
<1>5. QED
  BY <1>2, <1>3, <1>4

(* SUBSCRIBE joins its channel. *)
LEMMA SubscribeIsExact ==
  ASSUME ExactInv, NEW c \in ConnectionIds, LoggedIn(c),
         NEW ch \in Channels, ch \notin ChannelsOf(c), NEW i \in SubscriptionIds,
         Subscribe(c, ch, i),
         UNCHANGED <<connectionIdToUsername, isConnected>>
  PROVE  /\ \A d \in ConnectionIds, g \in Channels :
              Subscribed(d, g)' <=> Subscribed(d, g) \/ <<d, g>> = <<c, ch>>
         /\ ListsAreExact' /\ ConnectedUserHasASession'
<1> USE DEF ExactInv, SharedInv, ConnectionsTypeOK, Subscribe
<1> DEFINE u == connectionIdToUsername[c]
<1>1. u \in Usernames /\ i # Null
  BY NullAssumption DEF LoggedIn, OrNull
<1>2. ASSUME NEW d \in ConnectionIds, NEW g \in Channels
      PROVE  Subscribed(d, g)' <=> Subscribed(d, g) \/ <<d, g>> = <<c, ch>>
  <2>1. CASE d = c
    BY <2>1, <1>1 DEF Subscribed, ChannelsOf, LoggedIn
  <2>2. CASE d # c
    BY <2>2, <1>1 DEF Subscribed, ChannelsOf, LoggedIn, SingleLogin
  <2>3. QED
    BY <2>1, <2>2
<1>3. ListsAreExact'
  <2> SUFFICES ASSUME NEW d \in ConnectionIds, NEW g \in Channels
               PROVE  channelToConnectionIdsList'[g][d] = IF Subscribed(d, g)' THEN 1 ELSE 0
    BY DEF ListsAreExact
  <2>1. ~Subscribed(c, ch) /\ channelToConnectionIdsList[ch][c] = 0
    BY DEF Subscribed, ListsAreExact
  <2>2. channelToConnectionIdsList[g][d] = IF Subscribed(d, g) THEN 1 ELSE 0
    BY DEF ListsAreExact
  <2>3. CASE <<d, g>> = <<c, ch>>
    BY <2>1, <2>3, <1>2
  <2>4. CASE <<d, g>> # <<c, ch>>
    BY <2>2, <2>4, <1>2
  <2>5. QED
    BY <2>3, <2>4
<1>4. ConnectedUserHasASession'
  BY DEF ConnectedUserHasASession
<1>5. QED
  BY <1>2, <1>3, <1>4

(* UNSUBSCRIBE leaves the channel its id leads to. *)
LEMMA UnsubscribeIsExact ==
  ASSUME ExactInv, NEW c \in ConnectionIds, LoggedIn(c), NEW i \in SubscriptionIds,
         NEW ch \in Channels, subscriptionIdToChannel[connectionIdToUsername[c]][i] = ch,
         Unsubscribe(c, ch),
         UNCHANGED <<connectionIdToUsername, isConnected>>
  PROVE  /\ Subscribed(c, ch)
         /\ \A d \in ConnectionIds, g \in Channels :
              Subscribed(d, g)' <=> Subscribed(d, g) /\ <<d, g>> # <<c, ch>>
         /\ ListsAreExact' /\ ConnectedUserHasASession'
<1> USE DEF ExactInv, SharedInv, ConnectionsTypeOK, Unsubscribe
<1> DEFINE u == connectionIdToUsername[c]
<1>1. u \in Usernames /\ i # Null /\ ch # Null
  BY NullAssumption DEF LoggedIn, OrNull
<1>2. channelToSubscriptionId[u][ch] = i /\ Subscribed(c, ch)
  BY <1>1 DEF SubscriptionIdLeadsToItsChannel, Subscribed, ChannelsOf
<1>3. ASSUME NEW d \in ConnectionIds, NEW g \in Channels
      PROVE  Subscribed(d, g)' <=> Subscribed(d, g) /\ <<d, g>> # <<c, ch>>
  <2>1. CASE d = c
    BY <2>1, <1>1 DEF Subscribed, ChannelsOf, LoggedIn
  <2>2. CASE d # c
    BY <2>2, <1>1 DEF Subscribed, ChannelsOf, LoggedIn, SingleLogin
  <2>3. QED
    BY <2>1, <2>2
<1>4. ListsAreExact'
  <2> SUFFICES ASSUME NEW d \in ConnectionIds, NEW g \in Channels
               PROVE  channelToConnectionIdsList'[g][d] = IF Subscribed(d, g)' THEN 1 ELSE 0
    BY DEF ListsAreExact
  <2>1. channelToConnectionIdsList[g][d] = IF Subscribed(d, g) THEN 1 ELSE 0
    BY DEF ListsAreExact
  <2>2. CASE <<d, g>> = <<c, ch>>
    BY <2>1, <2>2, <1>2, <1>3
  <2>3. CASE <<d, g>> # <<c, ch>>
    BY <2>1, <2>3, <1>3
  <2>4. QED
    BY <2>2, <2>3
<1>5. ConnectedUserHasASession'
  BY DEF ConnectedUserHasASession
<1>6. QED
  BY <1>2, <1>3, <1>4, <1>5

(* disconnect leaves every channel. *)
LEMMA DisconnectIsExact ==
  ASSUME ExactInv, NEW c \in ConnectionIds, LoggedIn(c), Disconnect(c)
  PROVE  /\ \A d \in ConnectionIds, g \in Channels :
              Subscribed(d, g)' <=> Subscribed(d, g) /\ d # c
         /\ ListsAreExact' /\ ConnectedUserHasASession'
<1> USE DEF ExactInv, SharedInv, ConnectionsTypeOK, Disconnect, EndSession, ForgetSubscriptions
<1> DEFINE u == connectionIdToUsername[c]
<1>1. u \in Usernames
  BY DEF LoggedIn, OrNull
<1>2. ASSUME NEW d \in ConnectionIds, NEW g \in Channels
      PROVE  Subscribed(d, g)' <=> Subscribed(d, g) /\ d # c
  <2>1. CASE d = c
    BY <2>1, <1>1 DEF Subscribed, LoggedIn
  <2>2. CASE d # c
    BY <2>2, <1>1 DEF Subscribed, ChannelsOf, LoggedIn, SingleLogin
  <2>3. QED
    BY <2>1, <2>2
<1>3. ListsAreExact'
  <2> SUFFICES ASSUME NEW d \in ConnectionIds, NEW g \in Channels
               PROVE  channelToConnectionIdsList'[g][d] = IF Subscribed(d, g)' THEN 1 ELSE 0
    BY DEF ListsAreExact
  <2>1. channelToConnectionIdsList[g][d] = IF Subscribed(d, g) THEN 1 ELSE 0
    BY DEF ListsAreExact
  <2>2. CASE d = c
    <3>1. channelToConnectionIdsList'[g][c] = 0
      BY <2>1, <2>2 DEF Subscribed
    <3>2. QED
      BY <2>2, <3>1, <1>2
  <2>3. CASE d # c
    BY <2>1, <2>3, <1>2
  <2>4. QED
    BY <2>2, <2>3
<1>4. ConnectedUserHasASession'
  BY <1>1 DEF ConnectedUserHasASession
<1>5. QED
  BY <1>2, <1>3, <1>4

-----------------------------------------------------------------------------
(* The forum's variables, as the refinement mapping of StompServer gives them *)

opened  == {c \in ConnectionIds : IsOpen(c)}
members == {m \in ConnectionIds \X Channels : Subscribed(m[1], m[2])}
deliveries == [c \in ConnectionIds |-> reportsTo(c)]

forumVars == <<opened, passcode, connectionIdToUsername, members, deliveries>>

(* Next, step by step, with the polite clients' promise *)
PoliteStep(c) ==
  \/ \E f \in Requests : PoliteReceive(c, f)
  \/ LeaveLoop(c)
  \/ ConnectionLost(c)

(* What a step that leaves the shared state alone does to the forum *)
LEMMA MembersStay ==
  ASSUME \A d \in ConnectionIds, ch \in Channels : Subscribed(d, ch)' <=> Subscribed(d, ch)
  PROVE  members' = members
BY DEF members

LEMMA SubscriptionsStay ==
  ASSUME UNCHANGED sharedVars, NEW d \in ConnectionIds, NEW ch \in Channels
  PROVE  Subscribed(d, ch)' <=> Subscribed(d, ch)
BY DEF sharedVars, userVars, Subscribed, ChannelsOf, LoggedIn

(* Frames that are no reports deliver nothing. *)
LEMMA NoReports ==
  ASSUME \A d \in ConnectionIds : \A e \in FramesOf(sent'[d]) : e.command # "MESSAGE"
  PROVE  deliveries' = F!Nobody
<1>1. \A d \in ConnectionIds : reportsTo(d)' = {}
  BY DEF reportsTo, FramesOf
<1>2. QED
  BY <1>1 DEF deliveries, F!Nobody

LEMMA NothingDelivers ==
  ASSUME sent' = Nothing
  PROVE  deliveries' = F!Nobody
<1>1. \A d \in ConnectionIds : FramesOf(sent'[d]) = {}
  BY DEF Nothing, FramesOf
<1>2. QED
  BY <1>1, NoReports

LEMMA ReplyDelivers ==
  ASSUME NEW c \in ConnectionIds, NEW frames, Reply(c, frames),
         \A e \in FramesOf(frames) : e.command # "MESSAGE"
  PROVE  deliveries' = F!Nobody
<1>1. /\ sent'[c] = frames
      /\ \A d \in ConnectionIds \ {c} : FramesOf(sent'[d]) = {}
  BY DEF Reply, Nothing, FramesOf
<1>2. QED
  BY <1>1, NoReports

LEMMA ReceiptDelivers ==
  ASSUME NEW c \in ConnectionIds, NEW f, Reply(c, RequestedReceipt(f))
  PROVE  deliveries' = F!Nobody
<1>1. ReceiptFrame(f.receipt_id).command # "MESSAGE"
  BY DEF ReceiptFrame
<1>2. FramesOf(RequestedReceipt(f)) \subseteq {ReceiptFrame(f.receipt_id)}
  BY ReceiptFrames
<1>3. QED
  BY <1>1, <1>2, ReplyDelivers

LEMMA RefusalDelivers ==
  ASSUME NEW c \in ConnectionIds, NEW f, NEW reason, RefuseAndDisconnect(c, f, reason)
  PROVE  deliveries' = F!Nobody
<1> DEFINE error == ErrorFrame(reason, f.receipt_id, {})
           receipt == ReceiptFrame(f.receipt_id)
<1>1. \E frames : Reply(c, frames) /\ FramesOf(frames) \subseteq {error, receipt}
  BY RefusalFrames
<1>2. error.command # "MESSAGE" /\ receipt.command # "MESSAGE"
  BY DEF ErrorFrame, ReceiptFrame
<1>3. QED
  BY <1>1, <1>2, ReplyDelivers

LEMMA MalformedDelivers ==
  ASSUME NEW c \in ConnectionIds, NEW f, NEW expected, RefuseMalformed(c, f, expected)
  PROVE  deliveries' = F!Nobody
<1> DEFINE error == ErrorFrame("malformed frame received", f.receipt, expected)
<1>1. FramesOf(<<error>>) = {error} /\ error.command # "MESSAGE"
  BY FewFrames DEF ErrorFrame
<1>2. QED
  BY <1>1, ReplyDelivers DEF RefuseMalformed

(* With exact lists a report is the first frame every member gets, and the only report. *)
LEMMA RelayDelivers ==
  ASSUME ExactInv, NEW c \in ConnectionIds, NEW f, NEW ch \in Channels, NEW i,
         \A d \in ConnectionIds : WritesTo(d, c, f, ch, i)
  PROVE  deliveries' = [d \in ConnectionIds |->
                          IF d \in opened /\ <<d, ch>> \in members THEN {<<1, ch>>} ELSE {}]
<1> DEFINE report == MessageFrame(i, ch, nextMessageId)
           receipt == ReceiptFrame(f.receipt_id)
<1> SUFFICES ASSUME NEW d \in ConnectionIds
             PROVE  reportsTo(d)' = IF d \in opened /\ <<d, ch>> \in members
                                    THEN {<<1, ch>>} ELSE {}
  BY DEF deliveries
<1>1. /\ report.command = "MESSAGE" /\ report.destination = ch
      /\ receipt.command # "MESSAGE"
  BY DEF MessageFrame, ReceiptFrame
<1>2. /\ d \in opened <=> IsOpen(d)
      /\ <<d, ch>> \in members <=> Subscribed(d, ch)
  BY DEF opened, members
<1>3. ConnectionsTypeOK
  BY DEF ExactInv, SharedInv
<1>4. ReportsThenReceipt(d, f, ch, i)
  BY <1>3, RelayFrames
<1>5. /\ DOMAIN Copies(d, ch, report) = IF IsOpen(d) THEN 1 .. channelToConnectionIdsList[ch][d] ELSE {}
      /\ DOMAIN Copies(d, ch, report) \subseteq DOMAIN sent'[d]
      /\ \A k \in DOMAIN sent'[d] :
           sent'[d][k] = IF k \in DOMAIN Copies(d, ch, report) THEN report ELSE receipt
  BY <1>4 DEF ReportsThenReceipt
<1>6. DOMAIN Copies(d, ch, report) = IF IsOpen(d) /\ Subscribed(d, ch) THEN {1} ELSE {}
  <2>1. channelToConnectionIdsList[ch][d] = IF Subscribed(d, ch) THEN 1 ELSE 0
    BY DEF ExactInv, ListsAreExact
  <2>2. 1 .. 1 = {1} /\ 1 .. 0 = {}
    OBVIOUS
  <2>3. QED
    BY <1>5, <2>1, <2>2
<1>7. {k \in DOMAIN sent'[d] : sent'[d][k].command = "MESSAGE"} = DOMAIN Copies(d, ch, report)
  BY <1>1, <1>5
<1>8. reportsTo(d)' = {<<k, sent'[d][k].destination>> : k \in DOMAIN Copies(d, ch, report)}
  BY <1>7 DEF reportsTo
<1>9. \A k \in DOMAIN Copies(d, ch, report) : sent'[d][k].destination = ch
  BY <1>1, <1>5
<1>10. QED
  BY <1>2, <1>6, <1>8, <1>9

-----------------------------------------------------------------------------
(* What a frame does, for a client that sends no CONNECT within a session: the lists  *)
(* stay exact, and the forum takes a step                                             *)

Exactly == ListsAreExact /\ ConnectedUserHasASession

LEMMA QuietStep ==
  ASSUME UNCHANGED sharedVars, UNCHANGED opened, deliveries' = F!Nobody
  PROVE  F!Next
<1>1. members' = members
  BY SubscriptionsStay, MembersStay
<1>2. F!Quiet
  BY <1>1 DEF F!Quiet, opened, members, deliveries, sharedVars, userVars
<1>3. QED
  BY <1>2 DEF F!Next

LEMMA UnchangedIsExact ==
  ASSUME Exactly, UNCHANGED sharedVars
  PROVE  Exactly'
BY DEF Exactly, sharedVars, userVars, ListsAreExact, ConnectedUserHasASession,
       Subscribed, ChannelsOf, LoggedIn

LEMMA OpenedStay ==
  ASSUME UNCHANGED connectionIdToConnectionHandler
  PROVE  opened' = opened
BY DEF opened, IsOpen

LEMMA LogoutStep ==
  ASSUME ExactInv, NEW c \in ConnectionIds, LoggedIn(c), Disconnect(c),
         UNCHANGED <<connectionIdToConnectionHandler, passcode>>,
         deliveries' = F!Nobody
  PROVE  F!Next /\ Exactly'
<1>1. members' = {m \in members : m[1] # c}
  BY DisconnectIsExact DEF members
<1>2. connectionIdToUsername' = [connectionIdToUsername EXCEPT ![c] = Null]
  BY DEF Disconnect, EndSession
<1>3. F!Logout(c)
  BY <1>1, <1>2, OpenedStay DEF F!Logout, opened, members, deliveries, LoggedIn
<1>4. QED
  BY <1>3, DisconnectIsExact DEF F!Next, Exactly

LEMMA RefusalStep ==
  ASSUME ExactInv, NEW c \in ConnectionIds, NEW f, NEW reason,
         RefuseAndDisconnect(c, f, reason)
  PROVE  F!Next /\ Exactly'
<1>1. deliveries' = F!Nobody
  BY RefusalDelivers
<1>2. CASE LoggedIn(c) /\ Disconnect(c)
  BY <1>1, <1>2, LogoutStep DEF RefuseAndDisconnect
<1>3. CASE UNCHANGED sharedVars
  BY <1>1, <1>3, QuietStep, OpenedStay, UnchangedIsExact
     DEF RefuseAndDisconnect, ExactInv, Exactly
<1>4. QED
  BY <1>2, <1>3 DEF RefuseAndDisconnect

LEMMA MalformedStep ==
  ASSUME ExactInv, NEW c \in ConnectionIds, NEW f, NEW expected,
         RefuseMalformed(c, f, expected)
  PROVE  F!Next /\ Exactly'
<1>1. UNCHANGED sharedVars /\ opened' = opened
  BY OpenedStay DEF RefuseMalformed, connectionsVars
<1>2. QED
  BY <1>1, MalformedDelivers, QuietStep, UnchangedIsExact DEF ExactInv, Exactly

(* A CONNECT that logs in *)
LEMMA LoginStep ==
  ASSUME ExactInv, NEW c \in ConnectionIds, ~LoggedIn(c),
         NEW u \in Usernames, NEW p \in Passcodes, ~isConnected[u],
         passcode[u] \in {Null, p}, passcode' = [passcode EXCEPT ![u] = p],
         Connect(c, u), Reply(c, <<ConnectedFrame>>),
         UNCHANGED <<connectionIdToConnectionHandler, channelToConnectionIdsList,
                     subscriptionIdToChannel, channelToSubscriptionId>>
  PROVE  F!Next /\ Exactly'
<1>1. ConnectedFrame.command # "MESSAGE" /\ FramesOf(<<ConnectedFrame>>) = {ConnectedFrame}
  BY FewFrames DEF ConnectedFrame
<1>2. deliveries' = F!Nobody
  BY <1>1, ReplyDelivers
<1>3. members' = members
  BY LoginIsExact, MembersStay
<1>4. \A d \in ConnectionIds : connectionIdToUsername[d] # u
  BY NullAssumption DEF ExactInv, SharedInv, UsersMatchSessions, LoggedIn
<1>5. connectionIdToUsername' = [connectionIdToUsername EXCEPT ![c] = u]
  BY DEF Connect
<1>6. F!Login(c, u, p)
  BY <1>2, <1>3, <1>4, <1>5, OpenedStay DEF F!Login, opened, members, deliveries, LoggedIn
<1>7. QED
  BY <1>6, LoginIsExact DEF F!Next, Exactly

LEMMA ConnectFrameStep ==
  ASSUME ExactInv, NEW c \in ConnectionIds, ~LoggedIn(c), NEW f \in Requests,
         f.command = "CONNECT", connectProcess(c, f)
  PROVE  F!Next /\ Exactly'
<1>1. CASE \E expected : RefuseMalformed(c, f, expected)
  BY <1>1, MalformedStep
<1>2. CASE \E reason : RefuseAndDisconnect(c, f, reason)
  BY <1>2, RefusalStep
<1>3. CASE login(c, f)
  <2>1. f.login \in Usernames /\ f.passcode \in Passcodes
    BY FrameShape
  <2>2. CASE ~Registered(f.login)
    <3>1. /\ ~isConnected[f.login] /\ passcode[f.login] = Null
          /\ RegisterUser(f.login, f.passcode) /\ Connect(c, f.login)
          /\ Reply(c, <<ConnectedFrame>>)
          /\ UNCHANGED <<connectionIdToConnectionHandler, channelToConnectionIdsList,
                         subscriptionIdToChannel, channelToSubscriptionId>>
      BY <1>3, <2>1, <2>2 DEF login, Registered, ExactInv, SharedInv, UsersMatchSessions
    <3>2. QED
      BY <2>1, <3>1, LoginStep DEF RegisterUser
  <2>3. CASE /\ ~isConnected[f.login] /\ passcode[f.login] = f.passcode
             /\ Connect(c, f.login) /\ Reply(c, <<ConnectedFrame>>)
             /\ UNCHANGED <<connectionIdToConnectionHandler, channelToConnectionIdsList,
                            subscriptionIdToChannel, channelToSubscriptionId, passcode>>
    <3>1. passcode' = [passcode EXCEPT ![f.login] = f.passcode]
      BY <2>1, <2>3 DEF ExactInv, SharedInv, ConnectionsTypeOK
    <3>2. QED
      BY <2>1, <2>3, <3>1, LoginStep
  <2>4. CASE RefuseAndDisconnect(c, f, "Wrong password")
    BY <2>4, RefusalStep
  <2>5. CASE /\ Reply(c, <<ErrorFrame(AlreadyLoggedIn, f.receipt_id, {})>>)
             /\ UNCHANGED connectionsVars
    <3> DEFINE error == ErrorFrame(AlreadyLoggedIn, f.receipt_id, {})
    <3>1. error.command # "MESSAGE" /\ FramesOf(<<error>>) = {error}
      BY FewFrames DEF ErrorFrame
    <3>2. deliveries' = F!Nobody
      BY <2>5, <3>1, ReplyDelivers
    <3>3. QED
      BY <2>5, <3>2, QuietStep, OpenedStay, UnchangedIsExact
         DEF connectionsVars, ExactInv, Exactly
  <2>6. QED
    BY <1>3, <2>2, <2>3, <2>4, <2>5 DEF login
<1>4. QED
  BY <1>1, <1>2, <1>3 DEF connectProcess

LEMMA SendFrameStep ==
  ASSUME ExactInv, NEW c \in ConnectionIds, LoggedIn(c), NEW f \in Requests,
         f.command = "SEND", sendProcess(c, f)
  PROVE  F!Next /\ Exactly'
<1>1. CASE \E expected : RefuseMalformed(c, f, expected)
  BY <1>1, MalformedStep
<1>2. CASE \E reason : RefuseAndDisconnect(c, f, reason)
  BY <1>2, RefusalStep
<1>3. ASSUME f.destination \in ChannelsOf(c), NEW ch \in Channels, ch = f.destination, NEW i,
             sent' = [d \in ConnectionIds |->
                        Copies(d, ch, MessageFrame(i, ch, nextMessageId))
                          \o (IF d = c THEN RequestedReceipt(f) ELSE <<>>)],
             UNCHANGED <<connectionIdToConnectionHandler, sharedVars>>
      PROVE  F!Next /\ Exactly'
  <2>1. deliveries' = [d \in ConnectionIds |->
                         IF d \in opened /\ <<d, ch>> \in members THEN {<<1, ch>>} ELSE {}]
    <3>1. \A d \in ConnectionIds : WritesTo(d, c, f, ch, i)
      BY <1>3 DEF WritesTo
    <3>2. QED
      BY <3>1, RelayDelivers
  <2>2. <<c, ch>> \in members
    BY <1>3 DEF members, Subscribed
  <2>3. members' = members /\ opened' = opened
    BY <1>3, SubscriptionsStay, MembersStay, OpenedStay
  <2>4. F!Post(c, ch)
    BY <1>3, <2>1, <2>2, <2>3
       DEF F!Post, opened, members, deliveries, sharedVars, userVars
  <2>5. QED
    BY <1>3, <2>4, UnchangedIsExact DEF F!Next, ExactInv, Exactly
<1>4. f.destination \in Channels
  BY FrameShape
<1>5. QED
  BY <1>1, <1>2, <1>3, <1>4 DEF sendProcess

LEMMA SubscribeFrameStep ==
  ASSUME ExactInv, NEW c \in ConnectionIds, LoggedIn(c), NEW f \in Requests,
         f.command = "SUBSCRIBE", subscribeProcess(c, f)
  PROVE  F!Next /\ Exactly'
<1>1. CASE \E expected : RefuseMalformed(c, f, expected)
  BY <1>1, MalformedStep
<1>2. CASE \E reason : RefuseAndDisconnect(c, f, reason)
  BY <1>2, RefusalStep
<1>3. ASSUME NEW ch \in Channels, NEW i \in SubscriptionIds, ch \notin ChannelsOf(c),
             Subscribe(c, ch, i), Reply(c, RequestedReceipt(f)),
             UNCHANGED <<connectionIdToConnectionHandler, connectionIdToUsername,
                         passcode, isConnected>>
      PROVE  F!Next /\ Exactly'
  <2>1. deliveries' = F!Nobody
    BY <1>3, ReceiptDelivers
  <2>2. /\ \A d \in ConnectionIds, g \in Channels :
             Subscribed(d, g)' <=> Subscribed(d, g) \/ <<d, g>> = <<c, ch>>
        /\ Exactly'
    BY <1>3, SubscribeIsExact DEF Exactly
  <2>3. members' = members \cup {<<c, ch>>}
    BY <2>2 DEF members
  <2>4. <<c, ch>> \notin members
    BY <1>3 DEF members, Subscribed
  <2>5. F!Join(c, ch)
    BY <1>3, <2>1, <2>3, <2>4, OpenedStay
       DEF F!Join, opened, members, deliveries, LoggedIn
  <2>6. QED
    BY <2>2, <2>5 DEF F!Next
<1>4. f.destination \in Channels /\ f.id \in SubscriptionIds
  BY FrameShape
<1>5. QED
  BY <1>1, <1>2, <1>3, <1>4 DEF subscribeProcess

LEMMA UnsubscribeFrameStep ==
  ASSUME ExactInv, NEW c \in ConnectionIds, LoggedIn(c), NEW f \in Requests,
         f.command = "UNSUBSCRIBE", unsubscribeProcess(c, f)
  PROVE  F!Next /\ Exactly'
<1> DEFINE channel == subscriptionIdToChannel[connectionIdToUsername[c]][f.id]
<1>1. CASE \E expected : RefuseMalformed(c, f, expected)
  BY <1>1, MalformedStep
<1>2. CASE \E reason : RefuseAndDisconnect(c, f, reason)
  BY <1>2, RefusalStep
<1>3. ASSUME NEW ch \in Channels, NEW i \in SubscriptionIds,
             subscriptionIdToChannel[connectionIdToUsername[c]][i] = ch,
             Unsubscribe(c, ch), Reply(c, RequestedReceipt(f)),
             UNCHANGED <<connectionIdToConnectionHandler, connectionIdToUsername,
                         passcode, isConnected>>
      PROVE  F!Next /\ Exactly'
  <2>1. deliveries' = F!Nobody
    BY <1>3, ReceiptDelivers
  <2>2. /\ Subscribed(c, ch)
        /\ \A d \in ConnectionIds, g \in Channels :
             Subscribed(d, g)' <=> Subscribed(d, g) /\ <<d, g>> # <<c, ch>>
        /\ Exactly'
    BY <1>3, UnsubscribeIsExact DEF Exactly
  <2>3. members' = members \ {<<c, ch>>} /\ <<c, ch>> \in members
    BY <2>2 DEF members
  <2>4. F!Leave(c, ch)
    BY <1>3, <2>1, <2>3, OpenedStay DEF F!Leave, opened, members, deliveries
  <2>5. QED
    BY <2>2, <2>4 DEF F!Next
<1>4. f.id \in SubscriptionIds
  BY FrameShape
<1>5. channel # Null => channel \in Channels
  BY <1>4 DEF ExactInv, SharedInv, ConnectionsTypeOK, LoggedIn, OrNull
<1>6. QED
  BY <1>1, <1>2, <1>3, <1>4, <1>5 DEF unsubscribeProcess

LEMMA ProcessStep ==
  ASSUME ExactInv, NEW c \in ConnectionIds, NEW f \in Requests,
         f.command = "CONNECT" => ~LoggedIn(c), process(c, f)
  PROVE  F!Next /\ Exactly'
<1>1. CASE \E reason : RefuseAndDisconnect(c, f, reason)
  BY <1>1, RefusalStep
<1>2. CASE LoggedIn(c) /\ disconnectProcess(c, f)
  BY <1>2, ReceiptDelivers, LogoutStep DEF disconnectProcess
<1>3. QED
  BY <1>1, <1>2, ConnectFrameStep, SendFrameStep, SubscribeFrameStep, UnsubscribeFrameStep
     DEF process

-----------------------------------------------------------------------------
(* The invariant of polite clients, and the refinement *)

LEMMA ExactPart == PoliteInv => IInv /\ ExactInv /\ Exactly
BY IInvShares DEF PoliteInv, ExactInv, Exactly

LEMMA InitPoliteInv == Init => PoliteInv
<1>1. Init => IInv
  BY InitIInv
<1>2. Init => ListsAreExact /\ ConnectedUserHasASession /\ SessionsHaveHandlers
  BY DEF Init, ConnectionsInit, ListsAreExact, ConnectedUserHasASession,
         SessionsHaveHandlers, Subscribed, LoggedIn
<1>3. QED
  BY <1>1, <1>2 DEF PoliteInv

LEMMA PoliteStepsAreSteps == [PoliteNext]_vars => [Next]_vars
BY DEF PoliteNext, Next, PoliteReceive, ThreadStep

(* Whoever sends a frame, logs out or closes a socket has one. *)
LEMMA SessionsKeepHandlers ==
  ASSUME PoliteInv, [Next]_vars
  PROVE  SessionsHaveHandlers'
<1>1. ConnectionsTypeOK /\ SharedInv
  BY ExactPart DEF ExactInv, SharedInv
<1>2. ASSUME NEW c \in ConnectionIds, NEW f \in Requests, Receive(c, f)
      PROVE  SessionsHaveHandlers'
  <2>1. UNCHANGED connectionIdToConnectionHandler
    BY <1>2, ExactPart, ProcessKeepsHandlers DEF Receive, IInv, TypeOK
  <2>2. \A d \in ConnectionIds \ {c} : connectionIdToUsername'[d] = connectionIdToUsername[d]
    BY <1>1, <1>2, ProcessConcerns DEF Receive, OnlyConcerns, placeOf
  <2>3. connectionIdToConnectionHandler[c] # Null
    BY <1>2, SocketsAssumption DEF Receive, IsOpen
  <2>4. QED
    BY <2>1, <2>2, <2>3 DEF PoliteInv, SessionsHaveHandlers, LoggedIn
<1>3. CASE Accept
  BY <1>1, <1>3, SocketsAssumption
     DEF Accept, AddClient, sharedVars, ConnectionsTypeOK,
         PoliteInv, SessionsHaveHandlers, LoggedIn
<1>4. ASSUME NEW c \in ConnectionIds, IsOpen(c), CloseHandler(c), UNCHANGED sharedVars
      PROVE  SessionsHaveHandlers'
  BY <1>1, <1>4, SocketsAssumption
     DEF CloseHandler, IsOpen, sharedVars, ConnectionsTypeOK,
         PoliteInv, SessionsHaveHandlers, LoggedIn
<1>5. CASE UNCHANGED vars
  BY <1>5 DEF vars, connectionsVars, sharedVars, PoliteInv, SessionsHaveHandlers, LoggedIn
<1>6. QED
  BY <1>2, <1>3, <1>4, <1>5 DEF Next, ThreadStep, LeaveLoop, ConnectionLost

(* What a step of the server with polite clients is, for the forum *)
LEMMA ServerStep ==
  ASSUME PoliteInv, [PoliteNext]_vars
  PROVE  [F!Next]_(F!vars) /\ Exactly'
<1>1. ASSUME NEW c \in ConnectionIds, NEW f \in Requests, PoliteReceive(c, f)
      PROVE  F!Next /\ Exactly'
  BY <1>1, ExactPart, ProcessStep DEF PoliteReceive, Receive
<1>2. CASE Accept
  <2> DEFINE c == nextConnectionId
  <2>1. c \in ConnectionIds /\ ~LoggedIn(c)
    BY <1>2, BoundsAssumption
       DEF Accept, PoliteInv, IInv, TypeOK, ConnectionIds, SessionsHaveHandlers
  <2>2. /\ UNCHANGED sharedVars
        /\ connectionIdToConnectionHandler' =
             [connectionIdToConnectionHandler EXCEPT ![c] = "open"]
    BY <1>2 DEF Accept, AddClient
  <2>3. members' = members /\ deliveries' = F!Nobody
    BY <1>2, <2>2, SubscriptionsStay, MembersStay, NothingDelivers DEF Accept
  <2>4. opened' = opened \cup {c}
    BY <2>1, <2>2, ExactPart DEF opened, IsOpen, ExactInv, SharedInv, ConnectionsTypeOK
  <2>5. F!Open(c)
    BY <2>1, <2>2, <2>3, <2>4
       DEF F!Open, opened, members, deliveries, LoggedIn, sharedVars, userVars
  <2>6. QED
    BY <2>1, <2>2, <2>5, ExactPart, UnchangedIsExact DEF F!Next
<1>3. ASSUME NEW c \in ConnectionIds, CloseHandler(c), sent' = Nothing, UNCHANGED sharedVars
      PROVE  F!Next /\ Exactly'
  <2>1. members' = members /\ deliveries' = F!Nobody
    BY <1>3, SubscriptionsStay, MembersStay, NothingDelivers
  <2>2. opened' = opened \ {c}
    BY <1>3, ExactPart
       DEF CloseHandler, opened, IsOpen, ExactInv, SharedInv, ConnectionsTypeOK
  <2>3. F!Close(c)
    BY <1>3, <2>1, <2>2 DEF F!Close, opened, members, deliveries, sharedVars, userVars
  <2>4. QED
    BY <1>3, <2>3, ExactPart, UnchangedIsExact DEF F!Next
<1>4. CASE UNCHANGED vars
  <2>1. UNCHANGED <<sharedVars, opened>>
    BY <1>4, OpenedStay DEF vars, connectionsVars
  <2>2. deliveries' = deliveries
    BY <1>4 DEF vars, protocolVars, deliveries, reportsTo
  <2>3. members' = members
    BY <2>1, SubscriptionsStay, MembersStay
  <2>4. UNCHANGED F!vars
    BY <2>1, <2>2, <2>3 DEF F!vars, opened, members, deliveries, sharedVars, userVars
  <2>5. QED
    BY <2>1, <2>4, ExactPart, UnchangedIsExact
<1>5. QED
  BY <1>1, <1>2, <1>3, <1>4 DEF PoliteNext, LeaveLoop, ConnectionLost

LEMMA NextPoliteInv == PoliteInv /\ [PoliteNext]_vars => PoliteInv'
<1> SUFFICES ASSUME PoliteInv, [PoliteNext]_vars PROVE PoliteInv'
  OBVIOUS
<1>1. IInv'
  BY ExactPart, PoliteStepsAreSteps, NextIInv
<1>2. SessionsHaveHandlers'
  BY PoliteStepsAreSteps, SessionsKeepHandlers
<1>3. Exactly'
  BY ServerStep
<1>4. QED
  BY <1>1, <1>2, <1>3 DEF PoliteInv, Exactly

(* The inductive invariant holds for clients that log in once per connection. *)
THEOREM PoliteInvariance == PoliteSpec => []PoliteInv
BY InitPoliteInv, NextPoliteInv, PTL DEF PoliteSpec

(* For clients that log in once per connection a channel's list holds each of its
   subscribers exactly once, and nobody else. *)
THEOREM ListsHoldTheSubscribers == PoliteSpec => []ListsAreExact
BY PoliteInvariance, PTL DEF PoliteInv

(* For such clients a user is marked connected only while some connection has the
   user's session. *)
THEOREM ConnectedUsersHaveSessions == PoliteSpec => []ConnectedUserHasASession
BY PoliteInvariance, PTL DEF PoliteInv

(* For such clients the server implements the forum: exclusive logins, and reports
   delivered exactly once to exactly the members who can be reached. *)
THEOREM ServerImplementsForum == PoliteSpec => ImplementsForum
<1>1. Init => F!Init
  <2> SUFFICES ASSUME Init PROVE F!Init
    OBVIOUS
  <2>1. opened = {} /\ members = {}
    BY SocketsAssumption DEF Init, ConnectionsInit, opened, members, IsOpen, Subscribed, LoggedIn
  <2>2. deliveries = F!Nobody
    BY DEF Init, Nothing, deliveries, reportsTo, F!Nobody
  <2>3. QED
    BY <2>1, <2>2 DEF F!Init, opened, members, deliveries, Init, ConnectionsInit
<1>2. PoliteInv /\ [PoliteNext]_vars => [F!Next]_(F!vars)
  BY ServerStep
<1>3. QED
  BY <1>1, <1>2, PoliteInvariance, PTL DEF PoliteSpec, ImplementsForum, F!Spec
============================================================================
