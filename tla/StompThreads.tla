----------------------------- MODULE StompThreads -----------------------------
(***************************************************************************)
(* The handlers of StompProtocol.java on the threads that run them, all    *)
(* working on the maps and lists of ConnectionsImpl without a lock.        *)
(*                                                                         *)
(* A step is one access to something another thread may change.  Such an   *)
(* access is taken to be atomic and seen at once by every thread; looking  *)
(* a User up and using it at once is one step.  Replies go to the socket   *)
(* of the thread's own connection and are left out, StompProtocol has      *)
(* them; the reports, which go to the sockets of others, are kept.         *)
(***************************************************************************)
EXTENDS Frames, SequencesExt

CONSTANTS
  ConnectionIds,   \* connections accepted
  MaxMessages,     \* bound: reports forwarded
  NameOf           \* the user who sits at each connection's client

ASSUME MaxMessagesAssumption == MaxMessages \in Nat

ASSUME NamesAssumption == NameOf \in [ConnectionIds -> Usernames]

ASSUME NoConnectionIsNull == Null \notin ConnectionIds

(* The objects the server creates.  A connection creates at most one User per name
   and one list per channel: neither is ever taken out of its map. *)
Users == ConnectionIds \X Usernames
Lists == OrNull(ConnectionIds) \X Channels

ASSUME ObjectsAssumption == Null \notin Users \cup Lists

VARIABLES
  connectionIdToUsername,
  usernameToUser,
  passcode, isConnected, subscriptionIdToChannel, channelToSubscriptionId,
  channelToConnectionIdsList,
  content,          \* the connection ids in each list
  nextMessageId,
  thread            \* where each connection's thread is, and its local variables

userVars == <<passcode, isConnected, subscriptionIdToChannel, channelToSubscriptionId>>
listVars == <<channelToConnectionIdsList, content>>

sharedVars == <<connectionIdToUsername, usernameToUser, userVars, listVars, nextMessageId>>

vars == <<sharedVars, thread>>

allButContent ==
  <<connectionIdToUsername, usernameToUser, userVars, channelToConnectionIdsList, nextMessageId>>

allButSubscriptions ==
  <<connectionIdToUsername, usernameToUser, passcode, isConnected, listVars, nextMessageId>>

(* at: what the thread does next; "read" between two frames, "closed" after the last.
   next, stale: the iterator over list, and whether another thread has modified the
   list since it was made.  addressee: what next() returned, the connection to send to.
   reached: who got the report so far. *)
Thread(at) ==
  [at |-> at, frame |-> Null, user |-> Null, channel |-> Null, channels |-> {},
   list |-> Null, next |-> 1, stale |-> FALSE, messageId |-> 0, counter |-> 0,
   addressee |-> Null, reached |-> {}]

(* Some channels, if any, have been subscribed to before, so that their list exists. *)
Init ==
  /\ connectionIdToUsername = [c \in ConnectionIds |-> Null]
  /\ usernameToUser = [u \in Usernames |-> Null]
  /\ passcode = [o \in Users |-> Null]
  /\ isConnected = [o \in Users |-> FALSE]
  /\ subscriptionIdToChannel = [o \in Users |-> [i \in SubscriptionIds |-> Null]]
  /\ channelToSubscriptionId = [o \in Users |-> [ch \in Channels |-> Null]]
  /\ channelToConnectionIdsList \in {[ch \in Channels |-> IF ch \in old THEN <<Null, ch>> ELSE Null]
                                      : old \in SUBSET Channels}
  /\ content = [l \in Lists |-> <<>>]
  /\ nextMessageId = 0
  /\ thread = [c \in ConnectionIds |-> Thread("read")]

-----------------------------------------------------------------------------
(* Helpers *)

At(c, where) == thread[c].at = where

Goto(c, where) == thread' = [thread EXCEPT ![c].at = where]

(* The handler returns and the thread reads on. *)
Return(c) == thread' = [thread EXCEPT ![c] = Thread("read")]

(* The thread leaves its loop, by itself or by an exception: the socket is closed. *)
End(c) == thread' = [thread EXCEPT ![c] = Thread("closed")]

(* getUserByConnectionId(c), for a logged-in c *)
UserOf(c) == usernameToUser[connectionIdToUsername[c]]

ChannelsOf(o) == {ch \in Channels : channelToSubscriptionId[o][ch] # Null}

(* c's thread modifies list l: the iterators of the other threads are stale. *)
Modify(c, l, ids, own) ==
  /\ content' = [content EXCEPT ![l] = ids]
  /\ thread' = [d \in ConnectionIds |->
                  IF d = c THEN own
                  ELSE [thread[d] EXCEPT !.stale = @ \/ thread[d].list = l]]

-----------------------------------------------------------------------------
(* process: the frame's checks and the first look at the shared maps *)

expectedHeaders(f) ==
  CASE f.command = "CONNECT"     -> ConnectHeaders
    [] f.command = "SEND"        -> SendHeaders
    [] f.command = "SUBSCRIBE"   -> SubscribeHeaders
    [] f.command = "UNSUBSCRIBE" -> UnsubscribeHeaders
    [] OTHER                     -> {}

Malformed(f) == ~(expectedHeaders(f) \subseteq f.headers)

ReceiveConnect(c, f) ==
  LET o == usernameToUser[f.login] IN
  /\ f.command = "CONNECT"
  /\ \/ Malformed(f) /\ End(c)
     \/ /\ ~Malformed(f)
        /\ f.version # "1.2" \/ f.host # "stomp.cs.bgu.ac.il"
        /\ Goto(c, "disconnect")
     \/ /\ ~Malformed(f)
        /\ f.version = "1.2" /\ f.host = "stomp.cs.bgu.ac.il"
        /\ thread' = [thread EXCEPT ![c].at = IF o = Null THEN "register" ELSE "check",
                                    ![c].frame = f, ![c].user = o]

ReceiveOther(c, f) ==
  /\ f.command # "CONNECT"
  /\ \/ /\ connectionIdToUsername[c] = Null
        /\ Goto(c, "disconnect")
     \/ /\ connectionIdToUsername[c] # Null
        /\ Malformed(f)
        /\ End(c)
     \/ /\ connectionIdToUsername[c] # Null
        /\ f.command \in {"DISCONNECT", "WRONG-COMMAND"}
        /\ Goto(c, "disconnect")
     \/ /\ connectionIdToUsername[c] # Null
        /\ f.command = "SEND" => nextMessageId < MaxMessages
        /\ f.command \in {"SEND", "SUBSCRIBE", "UNSUBSCRIBE"}
        /\ ~Malformed(f)
        /\ thread' = [thread EXCEPT ![c].at = f.command, ![c].frame = f]

Receive(c, f) ==
  /\ At(c, "read")
  /\ ReceiveConnect(c, f) \/ ReceiveOther(c, f)
  /\ UNCHANGED sharedVars

(* The client is gone, or its bytes make the decoder throw. *)
ConnectionLost(c) ==
  /\ At(c, "read")
  /\ End(c)
  /\ UNCHANGED sharedVars

-----------------------------------------------------------------------------
(* connectProcess *)

(* registerUser(userName, new User(loginPasscode)) *)
Register(c) ==
  LET f == thread[c].frame
      o == <<c, f.login>>
  IN
  /\ At(c, "register")
  /\ passcode' = [passcode EXCEPT ![o] = f.passcode]
  /\ usernameToUser' = [usernameToUser EXCEPT ![f.login] = o]
  /\ Goto(c, "connect")
  /\ UNCHANGED <<connectionIdToUsername, isConnected, subscriptionIdToChannel,
                 channelToSubscriptionId, listVars, nextMessageId>>

(* user.isConnected() and user.isCorrectPasscode(loginPasscode) *)
Check(c) ==
  LET o == thread[c].user IN
  /\ At(c, "check")
  /\ \/ isConnected[o] /\ Return(c)
     \/ ~isConnected[o] /\ passcode[o] = thread[c].frame.passcode /\ Goto(c, "connect")
     \/ ~isConnected[o] /\ passcode[o] # thread[c].frame.passcode /\ Goto(c, "disconnect")
  /\ UNCHANGED sharedVars

Connect(c) ==
  /\ At(c, "connect")
  /\ connectionIdToUsername' = [connectionIdToUsername EXCEPT ![c] = thread[c].frame.login]
  /\ Goto(c, "mark")
  /\ UNCHANGED <<usernameToUser, userVars, listVars, nextMessageId>>

(* user.connect(), for the User registered by now *)
Mark(c) ==
  /\ At(c, "mark")
  /\ isConnected' = [isConnected EXCEPT ![usernameToUser[thread[c].frame.login]] = TRUE]
  /\ Return(c)
  /\ UNCHANGED <<connectionIdToUsername, usernameToUser, passcode, subscriptionIdToChannel,
                 channelToSubscriptionId, listVars, nextMessageId>>

-----------------------------------------------------------------------------
(* getConnectionIdsListByChannel, for the thread's channel *)

FindList(c) ==
  LET l == channelToConnectionIdsList[thread[c].channel] IN
  /\ At(c, "find list")
  /\ thread' = [thread EXCEPT ![c].at = IF l = Null THEN "create list" ELSE "use list",
                              ![c].list = l]
  /\ UNCHANGED sharedVars

(* Two threads may both have found no list. *)
CreateList(c) ==
  LET l == <<c, thread[c].channel>> IN
  /\ At(c, "create list")
  /\ channelToConnectionIdsList' =
       [channelToConnectionIdsList EXCEPT ![thread[c].channel] = l]
  /\ thread' = [thread EXCEPT ![c].at = "use list", ![c].list = l]
  /\ UNCHANGED <<connectionIdToUsername, usernameToUser, userVars, content, nextMessageId>>

-----------------------------------------------------------------------------
(* subscribeProcess and unsubscribeProcess *)

CheckSubscribed(c) ==
  LET ch == thread[c].frame.destination IN
  /\ At(c, "SUBSCRIBE")
  /\ \/ ch \in ChannelsOf(UserOf(c)) /\ Goto(c, "disconnect")
     \/ /\ ch \notin ChannelsOf(UserOf(c))
        /\ thread' = [thread EXCEPT ![c].at = "subscribe", ![c].channel = ch]
  /\ UNCHANGED sharedVars

(* Mutant: the id leads to itself. *)
SubscribeUserSwapped(c) ==
  LET o == UserOf(c)
      i == thread[c].frame.id
  IN
  /\ At(c, "subscribe")
  /\ subscriptionIdToChannel' = [subscriptionIdToChannel EXCEPT ![o][i] = i]
  /\ channelToSubscriptionId' = [channelToSubscriptionId EXCEPT ![o][thread[c].channel] = i]
  /\ Goto(c, "find list")
  /\ UNCHANGED allButSubscriptions

(* user.subscribe(subscriptionId, channel) *)
SubscribeUser(c) ==
  LET o == UserOf(c)
      i == thread[c].frame.id
      ch == thread[c].channel
  IN
  /\ At(c, "subscribe")
  /\ subscriptionIdToChannel' = [subscriptionIdToChannel EXCEPT ![o][i] = ch]
  /\ channelToSubscriptionId' = [channelToSubscriptionId EXCEPT ![o][ch] = i]
  /\ Goto(c, "find list")
  /\ UNCHANGED allButSubscriptions

(* list.add(connectionId) *)
Enlist(c) ==
  LET l == thread[c].list IN
  /\ At(c, "use list")
  /\ thread[c].frame.command = "SUBSCRIBE"
  /\ Modify(c, l, Append(content[l], c), Thread("read"))
  /\ UNCHANGED allButContent

CheckUnsubscribed(c) ==
  LET ch == subscriptionIdToChannel[UserOf(c)][thread[c].frame.id] IN
  /\ At(c, "UNSUBSCRIBE")
  /\ \/ ch = Null /\ Goto(c, "disconnect")
     \/ /\ ch # Null
        /\ thread' = [thread EXCEPT ![c].at = "unsubscribe", ![c].channel = ch]
  /\ UNCHANGED sharedVars

(* user.unsubscribe(channel): the id removed is the one the channel has by now. *)
UnsubscribeUser(c) ==
  LET o == UserOf(c)
      ch == thread[c].channel
      i == channelToSubscriptionId[o][ch]
  IN
  /\ At(c, "unsubscribe")
  /\ channelToSubscriptionId' = [channelToSubscriptionId EXCEPT ![o][ch] = Null]
  /\ subscriptionIdToChannel' =
       [j \in Users |-> IF j = o THEN [k \in SubscriptionIds |->
                                         IF k = i THEN Null ELSE subscriptionIdToChannel[o][k]]
                        ELSE subscriptionIdToChannel[j]]
  /\ Goto(c, "find list")
  /\ UNCHANGED allButSubscriptions

(* Mutant: the head of the list is removed, whoever it is. *)
DelistHead(c) ==
  LET l == thread[c].list IN
  /\ At(c, "use list")
  /\ thread[c].frame.command = "UNSUBSCRIBE"
  /\ Modify(c, l, Tail(content[l]), Thread("read"))
  /\ UNCHANGED allButContent

(* Mutant: the connection stays in the list. *)
DelistNobody(c) ==
  /\ At(c, "use list")
  /\ thread[c].frame.command = "UNSUBSCRIBE"
  /\ Return(c)
  /\ UNCHANGED sharedVars

(* list.remove(connectionId): the first occurrence; nothing is modified without one. *)
Delist(c) ==
  LET l == thread[c].list IN
  /\ At(c, "use list")
  /\ thread[c].frame.command = "UNSUBSCRIBE"
  /\ \/ /\ Contains(content[l], c)
        /\ Modify(c, l, RemoveFirst(content[l], c), Thread("read"))
     \/ /\ ~Contains(content[l], c)
        /\ Return(c)
        /\ UNCHANGED content
  /\ UNCHANGED allButContent

-----------------------------------------------------------------------------
(* sendProcess *)

CheckSender(c) ==
  LET ch == thread[c].frame.destination IN
  /\ At(c, "SEND")
  /\ \/ ch \notin ChannelsOf(UserOf(c)) /\ Goto(c, "disconnect")
     \/ /\ ch \in ChannelsOf(UserOf(c))
        /\ thread' = [thread EXCEPT ![c].at = "take id", ![c].channel = ch]
  /\ UNCHANGED sharedVars

(* int sendId = nextMessageId; nextMessageId++, which reads again, then writes *)
TakeId(c) ==
  /\ At(c, "take id")
  /\ thread' = [thread EXCEPT ![c].at = "read counter", ![c].messageId = nextMessageId]
  /\ UNCHANGED sharedVars

ReadCounter(c) ==
  /\ At(c, "read counter")
  /\ thread' = [thread EXCEPT ![c].at = "write counter", ![c].counter = nextMessageId]
  /\ UNCHANGED sharedVars

WriteCounter(c) ==
  /\ At(c, "write counter")
  /\ nextMessageId' = thread[c].counter + 1
  /\ Goto(c, "find list")
  /\ UNCHANGED <<connectionIdToUsername, usernameToUser, userVars, listVars>>

(* The for loop gets its iterator. *)
StartSending(c) ==
  /\ At(c, "use list")
  /\ thread[c].frame.command = "SEND"
  /\ thread' = [thread EXCEPT ![c].at = "send", ![c].stale = FALSE]
  /\ UNCHANGED sharedVars

(* hasNext compares with the size the list has now *)
HasNext(c) == thread[c].next <= Len(content[thread[c].list])

SendLast(c) == ~HasNext(c) /\ Return(c)

SendLoop(c) ==
  /\ At(c, "send")
  /\ SendLast(c) \/ (HasNext(c) /\ Goto(c, "send_next"))
  /\ UNCHANGED sharedVars

(* next() fails after a modification by another thread, and the exception ends this
   thread in the middle of the report or of removeIf. *)
Interrupted(c) == thread[c].stale /\ End(c)

(* next() returns whom the iterator stands at. *)
SendNext(c) ==
  /\ At(c, "send_next")
  /\ \/ Interrupted(c)
     \/ /\ ~thread[c].stale
        /\ thread' = [thread EXCEPT ![c].at = "send_to", ![c].next = @ + 1,
                                    ![c].addressee = content[thread[c].list][thread[c].next]]
  /\ UNCHANGED sharedVars

(* currentCH.send(msg): until then others may run, the addressee's thread too.  Writing
   to a socket that is closed fails without a word. *)
SendTo(c) ==
  LET d == thread[c].addressee IN
  /\ At(c, "send_to")
  /\ thread' = [thread EXCEPT ![c].at = "send", ![c].addressee = Null,
                              ![c].reached = IF At(d, "closed") THEN @ ELSE @ \cup {d}]
  /\ UNCHANGED sharedVars

-----------------------------------------------------------------------------
(* disconnect, for DISCONNECT and every refusal but that of a malformed frame *)

(* Without a user the first line dereferences null.  The channels are those the user
   has now; the code iterates over the live key set. *)
Disconnect(c) ==
  /\ At(c, "disconnect")
  /\ \/ connectionIdToUsername[c] = Null /\ End(c)
     \/ /\ connectionIdToUsername[c] # Null
        /\ thread' = [thread EXCEPT ![c] = [Thread("leave channels") EXCEPT
                                              !.user = UserOf(c), !.channels = ChannelsOf(UserOf(c))]]
  /\ UNCHANGED sharedVars

(* channelToConnectionIdsList.get(channel), and removeIf gets its iterator; a channel
   without a list yet makes it throw *)
LeaveChannel(c) ==
  /\ At(c, "leave channels")
  /\ \E ch \in thread[c].channels :
       LET l == channelToConnectionIdsList[ch] IN
       \/ l = Null /\ End(c)
       \/ /\ l # Null
          /\ thread' = [thread EXCEPT ![c].at = "removeIf", ![c].channels = @ \ {ch},
                                      ![c].list = l, ![c].next = 1, ![c].stale = FALSE]
  /\ UNCHANGED sharedVars

RemoveLoop(c) ==
  /\ At(c, "removeIf")
  /\ \/ HasNext(c) /\ Goto(c, "remove_next")
     \/ /\ ~HasNext(c)
        /\ thread' = [thread EXCEPT ![c].at = "leave channels", ![c].list = Null,
                                    ![c].next = 1, ![c].stale = FALSE]
  /\ UNCHANGED sharedVars

(* next(), the comparison and remove, which also fails after a modification: as if that
   had come before next(). *)
RemoveNext(c) ==
  LET l == thread[c].list
      n == thread[c].next
  IN
  /\ At(c, "remove_next")
  /\ \/ Interrupted(c) /\ UNCHANGED content
     \/ /\ ~thread[c].stale
        /\ content[l][n] = c
        /\ Modify(c, l, RemoveAt(content[l], n), [thread[c] EXCEPT !.at = "removeIf"])
     \/ /\ ~thread[c].stale
        /\ content[l][n] # c
        /\ thread' = [thread EXCEPT ![c].at = "removeIf", ![c].next = n + 1]
        /\ UNCHANGED content
  /\ UNCHANGED allButContent

EndSession(c) ==
  /\ At(c, "leave channels")
  /\ thread[c].channels = {}
  /\ connectionIdToUsername' = [connectionIdToUsername EXCEPT ![c] = Null]
  /\ Goto(c, "log out")
  /\ UNCHANGED <<usernameToUser, userVars, listVars, nextMessageId>>

(* Mutant: the User stays marked as connected. *)
LogOutKeepsFlag(c) ==
  LET o == thread[c].user IN
  /\ At(c, "log out")
  /\ subscriptionIdToChannel' =
       [subscriptionIdToChannel EXCEPT ![o] = [i \in SubscriptionIds |-> Null]]
  /\ channelToSubscriptionId' =
       [channelToSubscriptionId EXCEPT ![o] = [ch \in Channels |-> Null]]
  /\ End(c)
  /\ UNCHANGED allButSubscriptions

(* User.disconnect; after it the thread leaves its loop *)
LogOut(c) ==
  LET o == thread[c].user IN
  /\ At(c, "log out")
  /\ isConnected' = [isConnected EXCEPT ![o] = FALSE]
  /\ subscriptionIdToChannel' =
       [subscriptionIdToChannel EXCEPT ![o] = [i \in SubscriptionIds |-> Null]]
  /\ channelToSubscriptionId' =
       [channelToSubscriptionId EXCEPT ![o] = [ch \in Channels |-> Null]]
  /\ End(c)
  /\ UNCHANGED <<connectionIdToUsername, usernameToUser, passcode, listVars, nextMessageId>>

-----------------------------------------------------------------------------
Handle(c) ==
  \/ Register(c) \/ Check(c) \/ Connect(c) \/ Mark(c)
  \/ FindList(c) \/ CreateList(c)
  \/ CheckSubscribed(c) \/ SubscribeUser(c) \/ Enlist(c)
  \/ CheckUnsubscribed(c) \/ UnsubscribeUser(c) \/ Delist(c)
  \/ CheckSender(c) \/ TakeId(c) \/ ReadCounter(c) \/ WriteCounter(c)
  \/ StartSending(c) \/ SendLoop(c) \/ SendNext(c) \/ SendTo(c)
  \/ Disconnect(c) \/ LeaveChannel(c) \/ RemoveLoop(c) \/ RemoveNext(c)
  \/ EndSession(c) \/ LogOut(c)

Next ==
  \E c \in ConnectionIds :
    \/ \E f \in Requests : Receive(c, f)
    \/ ConnectionLost(c)
    \/ Handle(c)

Spec == Init /\ [][Next]_vars

(* Users who log in under their own name and use one connection at a time: the next
   one when the one before is closed. *)
OwnTurn(c) ==
  \A d \in ConnectionIds \ {c} :
    NameOf[d] = NameOf[c] =>
      At(d, "closed") \/ (At(d, "read") /\ connectionIdToUsername[d] = Null)

OwnNameNext ==
  \E c \in ConnectionIds :
    \/ \E f \in Requests :
         /\ f.command = "CONNECT" => f.login = NameOf[c] /\ OwnTurn(c)
         /\ Receive(c, f)
    \/ ConnectionLost(c)
    \/ Handle(c)

OwnNameSpec == Init /\ [][OwnNameNext]_vars

-----------------------------------------------------------------------------
(* Properties of users who use one connection at a time *)

Subscribed(c, ch) ==
  /\ connectionIdToUsername[c] # Null
  /\ ch \in ChannelsOf(UserOf(c))

Iterating == {"send", "send_next", "send_to", "removeIf", "remove_next"}

(* The variables hold values of their types; an iterator stands in a list. *)
TypeOK ==
  /\ connectionIdToUsername \in [ConnectionIds -> OrNull(Usernames)]
  /\ usernameToUser \in [Usernames -> OrNull(Users)]
  /\ passcode \in [Users -> OrNull(Passcodes)]
  /\ isConnected \in [Users -> BOOLEAN]
  /\ subscriptionIdToChannel \in [Users -> [SubscriptionIds -> OrNull(Channels)]]
  /\ channelToSubscriptionId \in [Users -> [Channels -> OrNull(SubscriptionIds)]]
  /\ channelToConnectionIdsList \in [Channels -> OrNull(Lists)]
  /\ content \in [Lists -> Seq(ConnectionIds)]
  /\ nextMessageId \in Nat
  /\ \A c \in ConnectionIds :
       /\ thread[c].at \in Iterating => thread[c].list \in Lists
       /\ At(c, "send_to") => thread[c].addressee \in ConnectionIds

(* However the handlers interleave, a connection between two frames that is logged in
   is so under its user's name and as a User marked connected, and a User marked
   connected has a connection that is, or was when it was lost, logged in. *)
SessionsMatchUsers ==
  /\ \A c \in ConnectionIds :
       At(c, "read") /\ connectionIdToUsername[c] # Null =>
         connectionIdToUsername[c] = NameOf[c] /\ isConnected[UserOf(c)]
  /\ \A o \in Users :
       isConnected[o] =>
         /\ usernameToUser[o[2]] = o
         /\ \E c \in ConnectionIds : connectionIdToUsername[c] = o[2] \/ At(c, "log out")

(* A list is never taken out of the map, nor is one that is there replaced. *)
OldChannels == {ch \in Channels : channelToConnectionIdsList[ch] = <<Null, ch>>}

(* A channel whose list was there from the start lists everyone who is between two
   frames exactly once if subscribed, and else not at all. *)
ListsAreExact ==
  \A c \in ConnectionIds, ch \in OldChannels :
    At(c, "read") =>
      Cardinality({k \in DOMAIN content[<<Null, ch>>] : content[<<Null, ch>>][k] = c}) =
        IF Subscribed(c, ch) THEN 1 ELSE 0

(* Every channel somebody is subscribed to has a list, when a frame is read as well as
   in disconnect, which does not create one (subscribe, disconnect). *)
SubscribedChannelsHaveAList ==
  \A c \in ConnectionIds :
    /\ At(c, "read") =>
         \A ch \in Channels : Subscribed(c, ch) => channelToConnectionIdsList[ch] # Null
    /\ \A ch \in thread[c].channels : channelToConnectionIdsList[ch] # Null

(* The loop over a list takes as its next addressee only a connection that is subscribed
   to the channel or whose thread is handling a frame of its own, an UNSUBSCRIBE say:
   never one that has finished leaving by then.  Between this and the sending that
   follows the addressee may leave, and is sent the report all the same.  A list that has
   been replaced in the map since the report started, by the list of a thread that had
   found none, is another matter: unsubscribe does not find it any more, and whoever is
   in it stays. *)
AddresseesAreSubscribed ==
  [][\A c, d \in ConnectionIds :
       /\ At(c, "send_next") /\ At(c, "send_to")'
       /\ thread'[c].addressee = d
       /\ thread[c].list = channelToConnectionIdsList[thread[c].channel]
       /\ At(d, "read")
       => Subscribed(d, thread[c].channel)]_vars

-----------------------------------------------------------------------------
(* Statements of the source that the threads do not keep *)

(* StompProtocol.java:75: "user is not already connected".  No user is logged in on
   two connections. *)
SingleLogin ==
  \A c, d \in ConnectionIds :
    /\ connectionIdToUsername[c] # Null
    /\ connectionIdToUsername[c] = connectionIdToUsername[d]
    => c = d

(* StompProtocol.java:88: "there is no username like this in data-base: create new
   one".  A User is never put in place of another. *)
UsersAreKept ==
  [][\A u \in Usernames : usernameToUser[u] # Null => usernameToUser'[u] = usernameToUser[u]
    ]_usernameToUser

(* ConnectionsImpl.java:98, the way the counter was meant to be read:
   "nextMessageId.getAndIncrement()".  Two reports under way have different ids. *)
MessageIdsDiffer ==
  \A c, d \in ConnectionIds :
    /\ {thread[c].at, thread[d].at} \subseteq {"send", "send_next", "send_to"}
    /\ thread[c].messageId = thread[d].messageId
    => c = d

(* StompProtocol.java:113: "connections send the whole channel this message".  Whoever
   is subscribed between two frames is in the list the channel's reports are sent to. *)
SubscribersAreListed ==
  \A c \in ConnectionIds, ch \in Channels :
    At(c, "read") /\ Subscribed(c, ch) =>
      Contains(content[channelToConnectionIdsList[ch]], c)

(* The same statement: a report that was sent to the end has reached everyone who was
   in the list all the while; the sender is one of them. *)
ReportsReachTheSender ==
  [][\A c \in ConnectionIds :
       At(c, "send") /\ SendLast(c) /\ Contains(content[thread[c].list], c) =>
         c \in thread[c].reached]_vars

(* The same statement: nobody who has left the channel is sent its reports.  One who
   leaves between next() and send is. *)
ReportsReachSubscribersOnly ==
  [][\A c, d \in ConnectionIds :
       /\ d \in thread'[c].reached \ thread[c].reached
       /\ At(d, "read")
       => Subscribed(d, thread[c].channel)]_vars

(* The same statement: the sender's thread does not die in the middle of a report. *)
ReportsAreSentToTheEnd ==
  [][\A c \in ConnectionIds : ~(At(c, "send_next") /\ Interrupted(c))]_vars

(* ConnectionsImpl.java:55: "for each channel remove the connectionId from its
   connectionIds list".  Who has logged out is not in the list of an old channel. *)
LoggedOutIsUnlisted ==
  \A c \in ConnectionIds, ch \in OldChannels :
    At(c, "log out") => ~Contains(content[<<Null, ch>>], c)
==============================================================================
