-------------------------- MODULE StompThreadsProofs --------------------------
(***************************************************************************)
(* What holds on the server's threads however many users there are and     *)
(* however their handlers interleave, when each logs in under their own    *)
(* name on one connection at a time: types, sessions, lists and reports.   *)
(***************************************************************************)
EXTENDS StompThreads, TLAPS, FiniteSetTheorems, SequenceTheorems, WellFoundedInduction

(***************************************************************************)
(* The inductive invariant                                                 *)
(***************************************************************************)
Login   == {"register", "check", "connect", "mark"}
Sending == {"SEND", "take id", "read counter", "write counter", "send", "send_next", "send_to"}
Listing == {"find list", "create list", "use list"}
Leaving == {"leave channels", "removeIf", "remove_next"}

(* The thread handles a frame of a user who is logged in. *)
Working == {"SUBSCRIBE", "subscribe", "UNSUBSCRIBE", "unsubscribe"} \cup Sending \cup Listing

Locations == {"read", "disconnect", "log out", "closed"} \cup Login \cup Working \cup Leaving

ThreadRecord ==
  [at : Locations, frame : OrNull(Requests), user : OrNull(Users),
   channel : OrNull(Channels), channels : SUBSET Channels, list : OrNull(Lists),
   next : Nat \ {0}, stale : BOOLEAN, messageId : Nat, counter : Nat,
   addressee : OrNull(ConnectionIds), reached : SUBSET ConnectionIds]

Types ==
  /\ connectionIdToUsername \in [ConnectionIds -> OrNull(Usernames)]
  /\ usernameToUser \in [Usernames -> OrNull(Users)]
  /\ passcode \in [Users -> OrNull(Passcodes)]
  /\ isConnected \in [Users -> BOOLEAN]
  /\ subscriptionIdToChannel \in [Users -> [SubscriptionIds -> OrNull(Channels)]]
  /\ channelToSubscriptionId \in [Users -> [Channels -> OrNull(SubscriptionIds)]]
  /\ channelToConnectionIdsList \in [Channels -> OrNull(Lists)]
  /\ content \in [Lists -> Seq(ConnectionIds)]
  /\ nextMessageId \in Nat
  /\ thread \in [ConnectionIds -> ThreadRecord]

Serves(c, commands) == thread[c].frame \in Requests /\ thread[c].frame.command \in commands

(* The thread's local variables hold what its place in the handler says. *)
Placed(c) ==
  /\ thread[c].at \in Login => Serves(c, {"CONNECT"}) /\ thread[c].frame.login = NameOf[c]
  /\ thread[c].at \in {"SUBSCRIBE", "subscribe"} => Serves(c, {"SUBSCRIBE"})
  /\ thread[c].at \in {"UNSUBSCRIBE", "unsubscribe"} => Serves(c, {"UNSUBSCRIBE"})
  /\ thread[c].at \in Sending => Serves(c, {"SEND"})
  /\ thread[c].at \in Listing => Serves(c, {"SUBSCRIBE", "UNSUBSCRIBE", "SEND"})
  /\ thread[c].at \in {"subscribe", "unsubscribe"} \cup (Sending \ {"SEND"}) \cup Listing
       => thread[c].channel \in Channels
  /\ thread[c].at \in {"use list", "send", "send_next", "send_to", "removeIf", "remove_next"} =>
       thread[c].list \in Lists
  /\ At(c, "send_to") => thread[c].addressee \in ConnectionIds
  /\ thread[c].at \in {"send_next", "remove_next"} /\ ~thread[c].stale => HasNext(c)

Idle(c) ==
  \/ At(c, "closed")
  \/ thread[c].at \in {"read", "disconnect"} /\ connectionIdToUsername[c] = Null

(* c's thread has the User of its name to itself, or has died with it. *)
Keeps(c) == connectionIdToUsername[c] # Null \/ At(c, "log out")

Namesakes(c, d) == c # d /\ NameOf[c] = NameOf[d]

(* The connections of one user work one at a time, and one at most is logged in. *)
Turns ==
  \A c, d \in ConnectionIds :
    Namesakes(c, d) => (Idle(c) \/ Idle(d)) /\ ~(Keeps(c) /\ Keeps(d))

OwnUser(c) == usernameToUser[NameOf[c]]

Session(c) ==
  /\ connectionIdToUsername[c] # Null =>
       /\ connectionIdToUsername[c] = NameOf[c]
       /\ OwnUser(c) # Null
       /\ ~At(c, "mark") => isConnected[OwnUser(c)]
  /\ thread[c].at \in {"mark"} \cup Working \cup Leaving => connectionIdToUsername[c] # Null
  /\ At(c, "register") => OwnUser(c) = Null
  /\ At(c, "check") => OwnUser(c) # Null /\ thread[c].user = OwnUser(c)
  /\ thread[c].at \in {"connect", "mark"} => OwnUser(c) # Null /\ ~isConnected[OwnUser(c)]
  /\ thread[c].at \in Leaving => thread[c].user = OwnUser(c)
  /\ At(c, "log out") =>
       /\ connectionIdToUsername[c] = Null
       /\ OwnUser(c) # Null
       /\ thread[c].user = OwnUser(c)

Registered ==
  \A u \in Usernames : usernameToUser[u] # Null => usernameToUser[u][2] = u

ConnectedUser(o) ==
  isConnected[o] =>
    /\ usernameToUser[o[2]] = o
    /\ \E c \in ConnectionIds : NameOf[c] = o[2] /\ Keeps(c)

Subscriptions(o) ==
  /\ \A ch \in ChannelsOf(o) : isConnected[o]
  /\ \A i \in SubscriptionIds :
       subscriptionIdToChannel[o][i] # Null =>
         channelToSubscriptionId[o][subscriptionIdToChannel[o][i]] = i

ServesAt(c, ch, command) ==
  thread[c].at \in Listing /\ thread[c].channel = ch /\ thread[c].frame.command = command

Adding(c, ch) == ServesAt(c, ch, "SUBSCRIBE")

(* Between user.unsubscribe and list.remove, unless the list has been replaced. *)
Removing(c, ch) ==
  /\ ServesAt(c, ch, "UNSUBSCRIBE")
  /\ At(c, "use list") => thread[c].list = channelToConnectionIdsList[ch]

(* What the handler's checks have found out still holds. *)
Checked(c) ==
  LET ch == thread[c].channel IN
  /\ At(c, "subscribe") => ~Subscribed(c, ch)
  /\ At(c, "unsubscribe") => Subscribed(c, ch)
  /\ Adding(c, ch) => Subscribed(c, ch)
  /\ ServesAt(c, ch, "UNSUBSCRIBE") => ~Subscribed(c, ch)

Mapped(ch) == channelToConnectionIdsList[ch] # Null

HasList(c) ==
  /\ \A ch \in Channels :
       Subscribed(c, ch) =>
         Mapped(ch) \/ (thread[c].at \in {"find list", "create list"} /\ thread[c].channel = ch)
  /\ \A ch \in thread[c].channels : Mapped(ch)

Unused(l) == content[l] = <<>> /\ \A d \in ConnectionIds : thread[d].list # l

(* A list belongs to one channel; one that is not in the map yet is unused. *)
ListsOfChannels ==
  \A ch \in Channels :
    /\ Mapped(ch) => channelToConnectionIdsList[ch][2] = ch
    /\ ~Mapped(ch) => \A x \in OrNull(ConnectionIds) : Unused(<<x, ch>>)

ListAtHand(c) ==
  LET ch == thread[c].channel IN
  /\ At(c, "create list") =>
       Unused(<<c, ch>>) /\ channelToConnectionIdsList[ch] \notin {<<c, ch>>, <<Null, ch>>}
  /\ thread[c].at \in {"use list", "send", "send_next", "send_to"} =>
       /\ thread[c].list[2] = ch
       /\ ch \in OldChannels => thread[c].list = <<Null, ch>>

Never(s, c) == \A k \in DOMAIN s : s[k] # c

Once(s, c) == \E k \in DOMAIN s : s[k] = c /\ \A j \in DOMAIN s : s[j] = c => j = k

Listed(c, ch) == (Subscribed(c, ch) /\ ~Adding(c, ch)) \/ Removing(c, ch)

Away(c) == thread[c].at \in {"disconnect", "log out", "closed"} \cup Leaving

(* The list of ch in the map names c at most once, and only if c is subscribed; a
   list that has been there from the start does so if c is. *)
Exact(c, ch) ==
  LET s == content[channelToConnectionIdsList[ch]] IN
  Mapped(ch) /\ ~Away(c) =>
    \/ Listed(c, ch) /\ Once(s, c)
    \/ Never(s, c) /\ ~(Listed(c, ch) /\ ch \in OldChannels)

IInv ==
  /\ Types
  /\ \A c \in ConnectionIds : Placed(c)
  /\ Turns
  /\ \A c \in ConnectionIds : Session(c)
  /\ Registered
  /\ \A o \in Users : ConnectedUser(o)
  /\ \A o \in Users : Subscriptions(o)
  /\ \A c \in ConnectionIds : Checked(c)
  /\ \A c \in ConnectionIds : HasList(c)
  /\ ListsOfChannels
  /\ \A c \in ConnectionIds : ListAtHand(c)
  /\ \A c \in ConnectionIds, ch \in Channels : Exact(c, ch)

-----------------------------------------------------------------------------
(***************************************************************************)
(* Steps                                                                   *)
(***************************************************************************)
OwnReceive(c) ==
  \E f \in Requests :
    /\ f.command = "CONNECT" => f.login = NameOf[c] /\ OwnTurn(c)
    /\ Receive(c, f)

(* The loops over a list. *)
Delivering(c) == SendLoop(c) \/ SendNext(c) \/ SendTo(c)
Unlisting(c) == RemoveLoop(c) \/ RemoveNext(c)

Step(c) == OwnReceive(c) \/ ConnectionLost(c) \/ Handle(c)

(* What a step of another connection's thread leaves alone. *)
Untouched(d) ==
  /\ connectionIdToUsername'[d] = connectionIdToUsername[d]
  /\ thread'[d].at = thread[d].at
  /\ thread'[d].frame = thread[d].frame
  /\ thread'[d].user = thread[d].user
  /\ thread'[d].channel = thread[d].channel
  /\ thread'[d].channels = thread[d].channels
  /\ thread'[d].list = thread[d].list
  /\ thread'[d].next = thread[d].next
  /\ thread'[d].addressee = thread[d].addressee

(***************************************************************************)
(* The lists                                                               *)
(***************************************************************************)
LEMMA RemoveAtElements ==
  ASSUME NEW S, NEW s \in Seq(S), NEW n \in DOMAIN s
  PROVE  LET t == RemoveAt(s, n) IN
         /\ t \in Seq(S)
         /\ Len(t) = Len(s) - 1
         /\ \A k \in 1 .. (n - 1) : t[k] = s[k]
         /\ \A k \in n .. Len(t) : t[k] = s[k + 1]
<1> DEFINE a == SubSeq(s, 1, n - 1)
           b == SubSeq(s, n + 1, Len(s))
<1>1. n \in 1 .. Len(s) /\ Len(s) \in Nat
  OBVIOUS
<1>2. /\ a \in Seq(S) /\ Len(a) = n - 1
      /\ \A k \in 1 .. (n - 1) : a[k] = s[k]
  BY <1>1, SubSeqProperties
<1>3. /\ b \in Seq(S) /\ Len(b) = Len(s) - n
      /\ \A k \in 1 .. (Len(s) - n) : b[k] = s[n + k]
  BY <1>1, SubSeqProperties
<1> HIDE DEF a, b
<1>4. /\ a \o b \in Seq(S)
      /\ Len(a \o b) = Len(s) - 1
      /\ \A k \in 1 .. (Len(s) - 1) : (a \o b)[k] = IF k < n THEN a[k] ELSE b[k - (n - 1)]
  <2>1. /\ a \o b \in Seq(S) /\ Len(a \o b) = Len(a) + Len(b)
        /\ \A k \in 1 .. (Len(a) + Len(b)) : (a \o b)[k] = IF k <= Len(a) THEN a[k] ELSE b[k - Len(a)]
    BY <1>2, <1>3, ConcatProperties
  <2>2. Len(a) + Len(b) = Len(s) - 1
    BY <1>1, <1>2, <1>3
  <2>3. \A k \in 1 .. (Len(s) - 1) : k <= n - 1 <=> k < n
    BY <1>1
  <2> QED
    BY <1>2, <2>1, <2>2, <2>3
<1>5. \A k \in n .. (Len(s) - 1) : b[k - (n - 1)] = s[k + 1]
  <2> TAKE k \in n .. (Len(s) - 1)
  <2>1. k - (n - 1) \in 1 .. (Len(s) - n) /\ n + (k - (n - 1)) = k + 1
    BY <1>1
  <2> QED
    BY <2>1, <1>3
<1>6. RemoveAt(s, n) = a \o b
  BY DEF RemoveAt, a, b
<1>7. \A k \in 1 .. (n - 1) : (a \o b)[k] = s[k]
  BY <1>1, <1>2, <1>4
<1>8. \A k \in n .. (Len(s) - 1) : (a \o b)[k] = s[k + 1]
  BY <1>1, <1>4, <1>5
<1> QED
  BY <1>4, <1>6, <1>7, <1>8

(* The first occurrence is at one of the places. *)
LEMMA RemoveFirstIsRemoveAt ==
  ASSUME NEW S, NEW s \in Seq(S), NEW e, Contains(s, e)
  PROVE  \E n \in DOMAIN s : s[n] = e /\ RemoveFirst(s, e) = RemoveAt(s, n)
<1> DEFINE I == {i \in 1 .. Len(s) : s[i] = e}
<1>1. I \subseteq Nat /\ I # {}
  BY DEF Contains
<1>2. IsWellFoundedOn({ss \in Nat \X Nat : ss[1] < ss[2]}, Nat)
  BY NatLessThanWellFounded, Zenon DEF OpToRel
<1>3. PICK R : R = {ss \in Nat \X Nat : ss[1] < ss[2]}
  OBVIOUS
<1>4. \E x \in I : \A y \in I : x =< y
  <2> HIDE DEF I
  <2>1. PICK x \in I : \A y \in I : ~(<<y, x>> \in R)
    BY <1>1, <1>2, <1>3, WFMin
  <2>2. ASSUME NEW y \in I, y < x PROVE FALSE
    BY <2>1, <2>2, <1>1, <1>3
  <2> QED
    BY <2>1, <2>2, <1>1
<1>5. Min(I) \in I
  BY <1>4 DEF Min
<1>6. RemoveFirst(s, e) = RemoveAt(s, Min(I))
  BY <1>1 DEF RemoveFirst, SelectInSeq, Contains
<1>7. DOMAIN s = 1 .. Len(s)
  OBVIOUS
<1> QED
  BY <1>5, <1>6, <1>7

(* How often an element occurs, after another is added or removed and after itself is. *)
LEMMA AppendCounts ==
  ASSUME NEW S, NEW s \in Seq(S), NEW e \in S, NEW x
  PROVE  LET t == Append(s, e) IN
         /\ x # e => (Never(s, x) => Never(t, x)) /\ (Once(s, x) => Once(t, x))
         /\ Never(s, e) => Once(t, e)
<1> DEFINE t == Append(s, e)
<1>1. /\ Len(s) \in Nat /\ DOMAIN s = 1 .. Len(s)
      /\ DOMAIN t = 1 .. (Len(s) + 1)
      /\ \A k \in 1 .. Len(s) : t[k] = s[k]
      /\ t[Len(s) + 1] = e
  BY AppendProperties
<1> HIDE DEF t
<1>2. \A k \in DOMAIN t : k \in DOMAIN s \/ k = Len(s) + 1
  BY <1>1
<1>3. x # e => (Never(s, x) => Never(t, x)) /\ (Once(s, x) => Once(t, x))
  BY <1>1, <1>2 DEF Never, Once
<1>4. Never(s, e) => Once(t, e)
  <2>1. Len(s) + 1 \in DOMAIN t
    BY <1>1
  <2> QED
    BY <1>1, <1>2, <2>1 DEF Never, Once
<1> QED
  BY <1>3, <1>4 DEF t

LEMMA RemoveAtCounts ==
  ASSUME NEW S, NEW s \in Seq(S), NEW n \in DOMAIN s, NEW x
  PROVE  LET t == RemoveAt(s, n) IN
         /\ x # s[n] => (Never(s, x) => Never(t, x)) /\ (Once(s, x) => Once(t, x))
         /\ Once(s, s[n]) => Never(t, s[n])
<1> DEFINE t == RemoveAt(s, n)
<1>1. /\ Len(s) \in Nat /\ DOMAIN s = 1 .. Len(s) /\ n \in 1 .. Len(s)
      /\ DOMAIN t = 1 .. (Len(s) - 1)
      /\ \A k \in 1 .. (n - 1) : t[k] = s[k]
      /\ \A k \in n .. (Len(s) - 1) : t[k] = s[k + 1]
  BY RemoveAtElements
<1> HIDE DEF t
<1>2. \A k \in DOMAIN t : k < n => k \in DOMAIN s /\ k # n /\ t[k] = s[k]
  BY <1>1
<1>3. \A k \in DOMAIN t : k >= n => k + 1 \in DOMAIN s /\ k + 1 # n /\ t[k] = s[k + 1]
  BY <1>1
<1>4. \A k \in DOMAIN t : k \in Int
  BY <1>1
<1>5. Never(s, x) => Never(t, x)
  BY <1>1, <1>2, <1>3, <1>4 DEF Never
<1>6. ASSUME x # s[n], Once(s, x) PROVE Once(t, x)
  <2>1. PICK k \in DOMAIN s : s[k] = x /\ \A j \in DOMAIN s : s[j] = x => j = k
    BY <1>6 DEF Once
  <2>2. CASE k < n
    <3>1. k \in DOMAIN t /\ t[k] = x
      BY <1>1, <2>1, <2>2
    <3>2. \A j \in DOMAIN t : t[j] = x => j = k
      BY <1>1, <1>2, <1>3, <1>4, <2>1, <2>2
    <3> QED
      BY <3>1, <3>2 DEF Once
  <2>3. CASE k > n
    <3>1. k - 1 \in DOMAIN t /\ t[k - 1] = x
      BY <1>1, <2>1, <2>3
    <3>2. \A j \in DOMAIN t : t[j] = x => j = k - 1
      BY <1>1, <1>2, <1>3, <1>4, <2>1, <2>3
    <3> QED
      BY <3>1, <3>2 DEF Once
  <2> QED
    BY <1>1, <1>6, <2>1, <2>2, <2>3
<1>7. ASSUME Once(s, s[n]) PROVE Never(t, s[n])
  <2>1. \A j \in DOMAIN s : s[j] = s[n] => j = n
    BY <1>7 DEF Once
  <2> QED
    BY <1>1, <1>2, <1>3, <1>4, <2>1 DEF Never
<1> QED
  BY <1>5, <1>6, <1>7 DEF t

-----------------------------------------------------------------------------
(***************************************************************************)
(* Steps, again                                                            *)
(***************************************************************************)
LEMMA FramesHaveTheirHeaders ==
  ASSUME NEW f \in Requests
  PROVE  /\ f.command = "CONNECT" => f.login \in Usernames /\ f.passcode \in Passcodes
         /\ f.command \in {"SEND", "SUBSCRIBE"} => f.destination \in Channels
         /\ f.command \in {"SUBSCRIBE", "UNSUBSCRIBE"} => f.id \in SubscriptionIds
<1>1. f \in ClientFrames
  BY RequestsAssumption
<1> QED
  BY <1>1 DEF ClientFrames

LEMMA FreshThread ==
  ASSUME NEW at \in Locations
  PROVE  Thread(at) \in ThreadRecord
BY DEF Thread, ThreadRecord, OrNull

LEMMA UserIsOwn ==
  ASSUME NEW c \in ConnectionIds, Types, Session(c), connectionIdToUsername[c] # Null
  PROVE  /\ UserOf(c) = OwnUser(c)
         /\ OwnUser(c) \in Users
BY NamesAssumption DEF Types, Session, UserOf, OwnUser, OrNull

LEMMA StaleIsOneField ==
  ASSUME NEW t \in ThreadRecord, NEW b
  PROVE  LET u == [t EXCEPT !.stale = b] IN
         /\ u.at = t.at /\ u.frame = t.frame /\ u.user = t.user /\ u.channel = t.channel
         /\ u.channels = t.channels /\ u.list = t.list /\ u.next = t.next
         /\ u.addressee = t.addressee /\ u.stale = b
         /\ b \in BOOLEAN => u \in ThreadRecord
BY DEF ThreadRecord

LEMMA StepIsLocal ==
  ASSUME NEW c \in ConnectionIds, NEW d \in ConnectionIds, c # d, Types, Step(c)
  PROVE  Untouched(d)
<1> USE DEF Untouched, Types
<1>1. CASE OwnReceive(c)
  BY <1>1 DEF OwnReceive, Receive, ReceiveConnect, ReceiveOther, Goto, End, Thread, sharedVars
<1>2. CASE ConnectionLost(c)
  BY <1>2 DEF ConnectionLost, End, sharedVars
<1>3. CASE Register(c) \/ Check(c) \/ Connect(c) \/ Mark(c)
  BY <1>3 DEF Register, Check, Connect, Mark, Goto, Return, sharedVars
<1>4. CASE FindList(c) \/ CreateList(c) \/ CheckSubscribed(c) \/ SubscribeUser(c)
  BY <1>4 DEF FindList, CreateList, CheckSubscribed, SubscribeUser, Goto, sharedVars,
    allButSubscriptions
<1>5. CASE Enlist(c) \/ Delist(c)
  <2> DEFINE l == thread[c].list
  <2>1. UNCHANGED connectionIdToUsername
    BY <1>5 DEF Enlist, Delist, allButContent
  <2>2. CASE thread'[d] = [thread[d] EXCEPT !.stale = @ \/ thread[d].list = l]
    BY <2>1, <2>2, StaleIsOneField
  <2>3. CASE thread'[d] = thread[d]
    BY <2>1, <2>3
  <2> QED
    BY <1>5, <2>2, <2>3 DEF Enlist, Delist, Modify, Return
<1>6. CASE CheckUnsubscribed(c) \/ UnsubscribeUser(c) \/ CheckSender(c)
  BY <1>6 DEF CheckUnsubscribed, UnsubscribeUser, CheckSender, Goto, sharedVars,
    allButSubscriptions
<1>7. CASE TakeId(c) \/ ReadCounter(c) \/ WriteCounter(c) \/ StartSending(c)
  BY <1>7 DEF TakeId, ReadCounter, WriteCounter, StartSending, Goto, sharedVars
<1>8. CASE Delivering(c)
  BY <1>8 DEF Delivering, SendLoop, Interrupted, SendNext, SendTo, SendLast, Goto, Return, End,
    sharedVars
<1>9. CASE Disconnect(c) \/ LeaveChannel(c) \/ EndSession(c) \/ LogOut(c)
  BY <1>9 DEF Disconnect, LeaveChannel, EndSession, LogOut, Goto, End, sharedVars
<1>10. CASE Unlisting(c)
  <2> DEFINE l == thread[c].list
  <2>1. UNCHANGED connectionIdToUsername
    BY <1>10 DEF Unlisting, RemoveLoop, RemoveNext, allButContent, sharedVars
  <2>2. CASE thread'[d] = [thread[d] EXCEPT !.stale = @ \/ thread[d].list = l]
    BY <2>1, <2>2, StaleIsOneField
  <2>3. CASE thread'[d] = thread[d]
    BY <2>1, <2>3
  <2> QED
    BY <1>10, <2>2, <2>3 DEF Unlisting, RemoveLoop, Interrupted, RemoveNext, Modify, Goto, End
<1> QED
  BY <1>1, <1>2, <1>3, <1>4, <1>5, <1>6, <1>7, <1>8, <1>9, <1>10 DEF Step, Handle, Delivering,
    Unlisting

(* Which actions change which of the shared variables. *)
LEMMA WhoWrites ==
  ASSUME NEW c \in ConnectionIds, Step(c)
  PROVE  /\ UNCHANGED connectionIdToUsername \/ Connect(c) \/ EndSession(c)
         /\ UNCHANGED <<usernameToUser, passcode>> \/ Register(c)
         /\ UNCHANGED isConnected \/ Mark(c) \/ LogOut(c)
         /\ \/ UNCHANGED <<subscriptionIdToChannel, channelToSubscriptionId>>
            \/ SubscribeUser(c) \/ UnsubscribeUser(c) \/ LogOut(c)
         /\ UNCHANGED channelToConnectionIdsList \/ CreateList(c)
         /\ UNCHANGED content \/ Enlist(c) \/ Delist(c) \/ RemoveNext(c)
         /\ UNCHANGED nextMessageId \/ WriteCounter(c)
<1> USE DEF userVars, listVars
<1>1. CASE OwnReceive(c) \/ ConnectionLost(c)
  BY <1>1 DEF OwnReceive, Receive, ConnectionLost, sharedVars
<1>2. CASE Register(c) \/ Connect(c) \/ Mark(c) \/ CreateList(c) \/ WriteCounter(c)
  BY <1>2 DEF Register, Connect, Mark, CreateList, WriteCounter
<1>3. CASE EndSession(c) \/ LogOut(c)
  BY <1>3 DEF EndSession, LogOut
<1>4. CASE Check(c) \/ FindList(c) \/ CheckSubscribed(c) \/ CheckUnsubscribed(c) \/ CheckSender(c)
  BY <1>4 DEF Check, FindList, CheckSubscribed, CheckUnsubscribed, CheckSender, sharedVars
<1>5. CASE TakeId(c) \/ ReadCounter(c) \/ StartSending(c) \/ Disconnect(c) \/ LeaveChannel(c)
  BY <1>5 DEF TakeId, ReadCounter, StartSending, Disconnect, LeaveChannel, sharedVars
<1>6. CASE SubscribeUser(c) \/ UnsubscribeUser(c)
  BY <1>6 DEF SubscribeUser, UnsubscribeUser, allButSubscriptions
<1>7. CASE Enlist(c) \/ Delist(c) \/ RemoveNext(c)
  BY <1>7 DEF Enlist, Delist, RemoveNext, allButContent
<1>8. CASE SendLoop(c) \/ SendNext(c) \/ SendTo(c) \/ RemoveLoop(c)
  BY <1>8 DEF SendLoop, SendNext, SendTo, RemoveLoop, sharedVars
<1> QED
  BY <1>1, <1>2, <1>3, <1>4, <1>5, <1>6, <1>7, <1>8 DEF Step, Handle

(***************************************************************************)
(* Types                                                                   *)
(***************************************************************************)
LEMMA ModifyIsTyped ==
  ASSUME NEW c \in ConnectionIds, NEW l, NEW ids, NEW own \in ThreadRecord,
         thread \in [ConnectionIds -> ThreadRecord], Modify(c, l, ids, own)
  PROVE  thread' \in [ConnectionIds -> ThreadRecord]
<1>1. ASSUME NEW d \in ConnectionIds
      PROVE  [thread[d] EXCEPT !.stale = @ \/ thread[d].list = l] \in ThreadRecord
  <2>1. (thread[d].stale \/ thread[d].list = l) \in BOOLEAN
    OBVIOUS
  <2> QED
    BY <2>1, StaleIsOneField
<1> QED
  BY <1>1 DEF Modify

LEMMA UpdatesAreTyped ==
  ASSUME NEW t \in ThreadRecord, NEW at \in Locations
  PROVE
    /\ [t EXCEPT !.at = at] \in ThreadRecord
    /\ \A f \in Requests : [t EXCEPT !.at = at, !.frame = f] \in ThreadRecord
    /\ \A f \in Requests, o \in OrNull(Users) :
         [t EXCEPT !.at = at, !.frame = f, !.user = o] \in ThreadRecord
    /\ \A l \in OrNull(Lists) : [t EXCEPT !.at = at, !.list = l] \in ThreadRecord
    /\ \A ch \in Channels : [t EXCEPT !.at = at, !.channel = ch] \in ThreadRecord
    /\ \A n \in Nat : [t EXCEPT !.at = at, !.messageId = n] \in ThreadRecord
    /\ \A n \in Nat : [t EXCEPT !.at = at, !.counter = n] \in ThreadRecord
    /\ [t EXCEPT !.at = at, !.stale = FALSE] \in ThreadRecord
    /\ \A d \in ConnectionIds :
         [t EXCEPT !.at = at, !.next = t.next + 1, !.addressee = d] \in ThreadRecord
    /\ \A ds \in SUBSET ConnectionIds :
         [t EXCEPT !.at = at, !.addressee = Null, !.reached = ds] \in ThreadRecord
    /\ \A o \in Users, chs \in SUBSET Channels :
         [t EXCEPT !.at = at, !.user = o, !.channels = chs] \in ThreadRecord
    /\ \A chs \in SUBSET Channels, l \in Lists :
         [t EXCEPT !.at = at, !.channels = chs, !.list = l, !.next = 1, !.stale = FALSE]
           \in ThreadRecord
    /\ [t EXCEPT !.at = at, !.next = t.next + 1] \in ThreadRecord
    /\ [t EXCEPT !.at = at, !.list = Null, !.next = 1, !.stale = FALSE] \in ThreadRecord
<1>1. [t EXCEPT !.at = at] \in ThreadRecord
  BY DEF ThreadRecord, OrNull
<1>2. \A f \in Requests : [t EXCEPT !.at = at, !.frame = f] \in ThreadRecord
  BY DEF ThreadRecord, OrNull
<1>3. \A f \in Requests, o \in OrNull(Users) :
      [t EXCEPT !.at = at, !.frame = f, !.user = o] \in ThreadRecord
  BY DEF ThreadRecord, OrNull
<1>4. \A l \in OrNull(Lists) : [t EXCEPT !.at = at, !.list = l] \in ThreadRecord
  BY DEF ThreadRecord, OrNull
<1>5. \A ch \in Channels : [t EXCEPT !.at = at, !.channel = ch] \in ThreadRecord
  BY DEF ThreadRecord, OrNull
<1>6. \A n \in Nat : [t EXCEPT !.at = at, !.messageId = n] \in ThreadRecord
  BY DEF ThreadRecord, OrNull
<1>7. \A n \in Nat : [t EXCEPT !.at = at, !.counter = n] \in ThreadRecord
  BY DEF ThreadRecord, OrNull
<1>8. [t EXCEPT !.at = at, !.stale = FALSE] \in ThreadRecord
  BY DEF ThreadRecord, OrNull
<1>9. \A d \in ConnectionIds :
      [t EXCEPT !.at = at, !.next = t.next + 1, !.addressee = d] \in ThreadRecord
  <2> TAKE d \in ConnectionIds
  <2>1. t.next + 1 \in Nat \ {0} /\ d \in OrNull(ConnectionIds)
    BY DEF ThreadRecord, OrNull
  <2> QED
    BY <2>1 DEF ThreadRecord
<1>10. \A o \in Users, chs \in SUBSET Channels :
      [t EXCEPT !.at = at, !.user = o, !.channels = chs] \in ThreadRecord
  BY DEF ThreadRecord, OrNull
<1>11. \A chs \in SUBSET Channels, l \in Lists :
      [t EXCEPT !.at = at, !.channels = chs, !.list = l, !.next = 1, !.stale = FALSE]
        \in ThreadRecord
  <2> TAKE chs \in SUBSET Channels, l \in Lists
  <2>1. 1 \in Nat \ {0} /\ FALSE \in BOOLEAN /\ l \in OrNull(Lists)
    BY DEF OrNull
  <2> QED
    BY <2>1 DEF ThreadRecord
<1>12. [t EXCEPT !.at = at, !.next = t.next + 1] \in ThreadRecord
  <2>1. t.next + 1 \in Nat \ {0}
    BY DEF ThreadRecord
  <2> QED
    BY <2>1 DEF ThreadRecord
<1>13. \A ds \in SUBSET ConnectionIds :
      [t EXCEPT !.at = at, !.addressee = Null, !.reached = ds] \in ThreadRecord
  BY DEF ThreadRecord, OrNull
<1>14. [t EXCEPT !.at = at, !.list = Null, !.next = 1, !.stale = FALSE] \in ThreadRecord
  <2>1. 1 \in Nat \ {0} /\ FALSE \in BOOLEAN /\ Null \in OrNull(Lists)
    BY DEF OrNull
  <2> QED
    BY <2>1 DEF ThreadRecord
<1> QED
  BY <1>1, <1>2, <1>3, <1>4, <1>5, <1>6, <1>7, <1>8, <1>9, <1>10, <1>11, <1>12, <1>13, <1>14

(* The iterator of a thread that is about to call next() stands at somebody in the list. *)
LEMMA Standing ==
  ASSUME NEW c \in ConnectionIds, Types, Placed(c),
         thread[c].at \in {"send_next", "remove_next"}, ~thread[c].stale
  PROVE  /\ thread[c].list \in Lists
         /\ thread[c].next \in DOMAIN content[thread[c].list]
         /\ content[thread[c].list][thread[c].next] \in ConnectionIds
<1>1. thread[c].list \in Lists /\ thread[c].next \in Nat \ {0}
  BY DEF Placed, Types, ThreadRecord
<1>2. content[thread[c].list] \in Seq(ConnectionIds)
  BY <1>1 DEF Types
<1>3. thread[c].next <= Len(content[thread[c].list])
  BY DEF Placed, HasNext
<1> QED
  BY <1>1, <1>2, <1>3

LEMMA ThreadsAreTyped ==
  ASSUME NEW c \in ConnectionIds, Types, Placed(c), Session(c), Step(c)
  PROVE  thread' \in [ConnectionIds -> ThreadRecord]
<1>1. thread \in [ConnectionIds -> ThreadRecord] /\ thread[c] \in ThreadRecord
  BY DEF Types
<1>2. Thread("read") \in ThreadRecord /\ Thread("closed") \in ThreadRecord
  BY FreshThread DEF Locations
<1>3. \A at \in Locations : [thread EXCEPT ![c].at = at] \in [ConnectionIds -> ThreadRecord]
  BY <1>1, UpdatesAreTyped
<1>4. \A r \in ThreadRecord : [thread EXCEPT ![c] = r] \in [ConnectionIds -> ThreadRecord]
  BY <1>1
<1>5. CASE OwnReceive(c)
  <2>1. PICK f \in Requests : ReceiveConnect(c, f) \/ ReceiveOther(c, f)
    BY <1>5 DEF OwnReceive, Receive
  <2>2. CASE ReceiveConnect(c, f)
    <3>1. usernameToUser[f.login] \in OrNull(Users)
      BY <2>2, FramesHaveTheirHeaders DEF ReceiveConnect, Types
    <3>2. \A at \in {"register", "check"} :
            [thread[c] EXCEPT !.at = at, !.frame = f, !.user = usernameToUser[f.login]]
              \in ThreadRecord
      BY <1>1, <3>1, UpdatesAreTyped DEF Locations, Login
    <3> QED
      BY <1>1, <1>2, <1>3, <2>2, <3>2 DEF ReceiveConnect, Goto, End, Locations
  <2>3. CASE ReceiveOther(c, f)
    <3>1. f.command \in Locations =>
            [thread[c] EXCEPT !.at = f.command, !.frame = f] \in ThreadRecord
      BY <1>1, UpdatesAreTyped
    <3> QED
      BY <1>1, <1>2, <1>3, <2>3, <3>1 DEF ReceiveOther, Goto, End, Locations, Working, Sending
  <2> QED
    BY <2>1, <2>2, <2>3
<1>6. CASE ConnectionLost(c)
  BY <1>1, <1>2, <1>6 DEF ConnectionLost, End
<1>7. CASE Register(c) \/ Check(c) \/ Connect(c) \/ Mark(c) \/ EndSession(c) \/ LogOut(c)
  <2>1. \/ \E at \in {"connect", "mark", "disconnect", "log out"} : Goto(c, at)
        \/ Return(c) \/ End(c)
    BY <1>7 DEF Register, Check, Connect, Mark, EndSession, LogOut
  <2> QED
    BY <1>1, <1>2, <1>3, <2>1 DEF Goto, Return, End, Locations, Login
<1>8. CASE FindList(c)
  <2>1. channelToConnectionIdsList[thread[c].channel] \in OrNull(Lists)
    BY <1>8 DEF FindList, At, Placed, Listing, Types
  <2>2. \A at \in {"create list", "use list"} :
          [thread[c] EXCEPT !.at = at, !.list = channelToConnectionIdsList[thread[c].channel]]
            \in ThreadRecord
    BY <1>1, <2>1, UpdatesAreTyped DEF Locations, Working, Listing
  <2> QED
    BY <1>1, <1>8, <2>2 DEF FindList
<1>9. CASE CreateList(c)
  <2>1. <<c, thread[c].channel>> \in OrNull(Lists)
    BY <1>9 DEF CreateList, At, Placed, Listing, Lists, OrNull
  <2>2. [thread[c] EXCEPT !.at = "use list", !.list = <<c, thread[c].channel>>] \in ThreadRecord
    BY <1>1, <2>1, UpdatesAreTyped DEF Locations, Working, Listing
  <2> QED
    BY <1>1, <1>9, <2>2 DEF CreateList
<1>10. CASE CheckSubscribed(c)
  <2>1. thread[c].frame.destination \in Channels
    BY <1>10, FramesHaveTheirHeaders DEF CheckSubscribed, At, Placed, Serves
  <2>2. [thread[c] EXCEPT !.at = "subscribe", !.channel = thread[c].frame.destination]
          \in ThreadRecord
    BY <1>1, <2>1, UpdatesAreTyped DEF Locations, Working
  <2> QED
    BY <1>1, <1>3, <1>10, <2>2 DEF CheckSubscribed, Goto, Locations
<1>11. CASE SubscribeUser(c) \/ UnsubscribeUser(c) \/ WriteCounter(c)
  BY <1>3, <1>11 DEF SubscribeUser, UnsubscribeUser, WriteCounter, Goto, Locations, Working,
    Listing
<1>12. CASE Enlist(c)
  BY <1>1, <1>2, <1>12, ModifyIsTyped DEF Enlist
<1>13. CASE CheckUnsubscribed(c)
  <2> DEFINE ch == subscriptionIdToChannel[UserOf(c)][thread[c].frame.id]
  <2>1. thread[c].frame.id \in SubscriptionIds
    BY <1>13, FramesHaveTheirHeaders DEF CheckUnsubscribed, At, Placed, Serves
  <2>2. UserOf(c) \in Users
    BY <1>13, UserIsOwn DEF CheckUnsubscribed, At, Session, Working
  <2>3. ch \in OrNull(Channels)
    BY <2>1, <2>2 DEF Types
  <2>4. ch # Null => [thread[c] EXCEPT !.at = "unsubscribe", !.channel = ch] \in ThreadRecord
    BY <1>1, <2>3, UpdatesAreTyped DEF Locations, Working, OrNull
  <2> QED
    BY <1>1, <1>3, <1>13, <2>4 DEF CheckUnsubscribed, Goto, Locations
<1>14. CASE Delist(c)
  BY <1>1, <1>2, <1>14, ModifyIsTyped DEF Delist, Return
<1>15. CASE CheckSender(c)
  <2>1. thread[c].frame.destination \in Channels
    BY <1>15, FramesHaveTheirHeaders DEF CheckSender, At, Placed, Serves, Sending
  <2>2. [thread[c] EXCEPT !.at = "take id", !.channel = thread[c].frame.destination]
          \in ThreadRecord
    BY <1>1, <2>1, UpdatesAreTyped DEF Locations, Working, Sending
  <2> QED
    BY <1>1, <1>3, <1>15, <2>2 DEF CheckSender, Goto, Locations
<1>16. CASE TakeId(c) \/ ReadCounter(c) \/ StartSending(c)
  <2>1. /\ [thread[c] EXCEPT !.at = "read counter", !.messageId = nextMessageId] \in ThreadRecord
        /\ [thread[c] EXCEPT !.at = "write counter", !.counter = nextMessageId] \in ThreadRecord
        /\ [thread[c] EXCEPT !.at = "send", !.stale = FALSE] \in ThreadRecord
    BY <1>1, UpdatesAreTyped DEF Locations, Working, Sending, Types
  <2> QED
    BY <1>1, <1>16, <2>1 DEF TakeId, ReadCounter, StartSending
<1>17. CASE Delivering(c)
  <2> DEFINE d == content[thread[c].list][thread[c].next]
             to == thread[c].addressee
  <2>1. CASE SendLoop(c)
    BY <1>1, <1>2, <1>3, <2>1 DEF SendLoop, SendLast, Goto, Return, Locations, Working, Sending
  <2>2. CASE SendNext(c) /\ ~thread[c].stale
    <3>1. d \in ConnectionIds
      BY <2>2, Standing DEF SendNext, At
    <3>2. [thread[c] EXCEPT !.at = "send_to", !.next = thread[c].next + 1, !.addressee = d]
            \in ThreadRecord
      BY <1>1, <3>1, UpdatesAreTyped DEF Locations, Working, Sending
    <3>3. thread' = [thread EXCEPT ![c].at = "send_to", ![c].next = thread[c].next + 1,
                                  ![c].addressee = d]
      BY <2>2 DEF SendNext, Interrupted
    <3>4. thread' = [thread EXCEPT ![c] =
                       [thread[c] EXCEPT !.at = "send_to", !.next = thread[c].next + 1, !.addressee = d]]
      <4> HIDE DEF d
      <4> QED
        BY <1>1, <3>3
    <3> QED
      BY <1>4, <3>2, <3>4
  <2>3. CASE SendTo(c)
    <3>1. to \in ConnectionIds
      BY <2>3 DEF SendTo, Placed
    <3> DEFINE ds == IF At(to, "closed") THEN thread[c].reached ELSE thread[c].reached \cup {to}
    <3>2. ds \in SUBSET ConnectionIds
      BY <1>1, <3>1 DEF ThreadRecord
    <3>3. thread' = [thread EXCEPT ![c] =
                       [thread[c] EXCEPT !.at = "send", !.addressee = Null, !.reached = ds]]
      BY <2>3 DEF SendTo
    <3> HIDE DEF ds
    <3>4. [thread[c] EXCEPT !.at = "send", !.addressee = Null, !.reached = ds] \in ThreadRecord
      BY <1>1, <3>2, UpdatesAreTyped DEF Locations, Working, Sending
    <3> QED
      BY <1>4, <3>3, <3>4
  <2> QED
    BY <1>1, <1>2, <1>17, <2>1, <2>2, <2>3 DEF Delivering, SendNext, Interrupted, End
<1>18. CASE Disconnect(c)
  <2>1. connectionIdToUsername[c] # Null =>
          [Thread("leave channels") EXCEPT !.user = UserOf(c), !.channels = ChannelsOf(UserOf(c))]
            \in ThreadRecord
    <3> SUFFICES ASSUME connectionIdToUsername[c] # Null
                 PROVE  [Thread("leave channels") EXCEPT !.user = UserOf(c),
                           !.channels = ChannelsOf(UserOf(c))] \in ThreadRecord
      OBVIOUS
    <3>1. UserOf(c) \in Users /\ ChannelsOf(UserOf(c)) \in SUBSET Channels
      BY UserIsOwn DEF ChannelsOf
    <3>2. Thread("leave channels") \in ThreadRecord /\ Thread("leave channels").at = "leave channels"
      BY FreshThread DEF Locations, Leaving, Thread
    <3>3. [Thread("leave channels") EXCEPT !.user = UserOf(c), !.channels = ChannelsOf(UserOf(c))]
            \in ThreadRecord
      BY <3>1, <3>2 DEF ThreadRecord, OrNull
    <3> QED
      BY <3>3
  <2> QED
    BY <1>1, <1>2, <1>4, <1>18, <2>1 DEF Disconnect, End
<1>19. CASE LeaveChannel(c)
  <2>1. PICK ch \in thread[c].channels :
          LET l == channelToConnectionIdsList[ch] IN
          \/ l = Null /\ End(c)
          \/ /\ l # Null
             /\ thread' = [thread EXCEPT ![c].at = "removeIf", ![c].channels = @ \ {ch},
                                         ![c].list = l, ![c].next = 1, ![c].stale = FALSE]
    BY <1>19 DEF LeaveChannel
  <2> DEFINE l == channelToConnectionIdsList[ch]
  <2>2. thread[c].channels \ {ch} \in SUBSET Channels /\ l \in OrNull(Lists)
    BY <1>1, <2>1 DEF Types, ThreadRecord
  <2>3. l # Null => [thread[c] EXCEPT !.at = "removeIf", !.channels = thread[c].channels \ {ch},
                       !.list = l, !.next = 1, !.stale = FALSE] \in ThreadRecord
    BY <1>1, <2>2, UpdatesAreTyped DEF Locations, Leaving, OrNull
  <2> QED
    BY <1>1, <1>2, <2>1, <2>3 DEF End
<1>20. CASE RemoveLoop(c)
  <2>1. [thread[c] EXCEPT !.at = "leave channels", !.list = Null, !.next = 1, !.stale = FALSE]
          \in ThreadRecord
    BY <1>1, UpdatesAreTyped DEF Locations, Leaving
  <2> QED
    BY <1>1, <1>3, <1>20, <2>1 DEF RemoveLoop, Goto, Locations, Leaving
<1>21. CASE RemoveNext(c)
  <2>1. /\ [thread[c] EXCEPT !.at = "removeIf", !.next = thread[c].next + 1] \in ThreadRecord
        /\ [thread[c] EXCEPT !.at = "removeIf"] \in ThreadRecord
    BY <1>1, UpdatesAreTyped DEF Locations, Leaving
  <2> QED
    BY <1>1, <1>2, <1>21, <2>1, ModifyIsTyped DEF RemoveNext, Interrupted, End
<1> QED
  BY <1>5, <1>6, <1>7, <1>8, <1>9, <1>10, <1>11, <1>12, <1>13, <1>14, <1>15, <1>16, <1>17,
    <1>18, <1>19, <1>20, <1>21 DEF Step, Handle, Delivering

LEMMA ListsAreTyped ==
  ASSUME NEW c \in ConnectionIds, Types, Placed(c), Step(c)
  PROVE  /\ channelToConnectionIdsList' \in [Channels -> OrNull(Lists)]
         /\ content' \in [Lists -> Seq(ConnectionIds)]
<1>1. /\ channelToConnectionIdsList \in [Channels -> OrNull(Lists)]
      /\ content \in [Lists -> Seq(ConnectionIds)]
      /\ thread[c] \in ThreadRecord
  BY DEF Types
<1>2. ASSUME CreateList(c)
      PROVE  channelToConnectionIdsList' \in [Channels -> OrNull(Lists)]
  <2>1. <<c, thread[c].channel>> \in OrNull(Lists)
    BY <1>2 DEF CreateList, At, Placed, Listing, Lists, OrNull
  <2> QED
    BY <1>1, <1>2, <2>1 DEF CreateList
<1>3. \A l \in Lists, ids \in Seq(ConnectionIds) :
        [content EXCEPT ![l] = ids] \in [Lists -> Seq(ConnectionIds)]
  BY <1>1
<1>4. ASSUME Enlist(c) \/ Delist(c) \/ RemoveNext(c)
      PROVE  content' \in [Lists -> Seq(ConnectionIds)]
  <2> DEFINE l == thread[c].list
             n == thread[c].next
  <2>1. l \in Lists /\ content[l] \in Seq(ConnectionIds)
    BY <1>1, <1>4 DEF Enlist, Delist, RemoveNext, At, Placed
  <2>2. CASE Enlist(c)
    BY <1>3, <2>1, <2>2, AppendProperties DEF Enlist, Modify
  <2>3. CASE Delist(c)
    <3>1. Contains(content[l], c) => RemoveFirst(content[l], c) \in Seq(ConnectionIds)
      BY <2>1, RemoveFirstIsRemoveAt, RemoveAtElements
    <3> QED
      BY <1>1, <1>3, <2>1, <2>3, <3>1 DEF Delist, Modify
  <2>4. CASE RemoveNext(c)
    <3>1. ~thread[c].stale => RemoveAt(content[l], n) \in Seq(ConnectionIds)
      BY <2>1, <2>4, Standing, RemoveAtElements DEF RemoveNext, At
    <3> QED
      BY <1>1, <1>3, <2>1, <2>4, <3>1 DEF RemoveNext, Interrupted, Modify
  <2> QED
    BY <1>4, <2>2, <2>3, <2>4
<1> QED
  BY <1>1, <1>2, <1>4, WhoWrites

LEMMA UsersAreTyped ==
  ASSUME NEW c \in ConnectionIds, Types, Placed(c), Step(c)
  PROVE  /\ connectionIdToUsername' \in [ConnectionIds -> OrNull(Usernames)]
         /\ usernameToUser' \in [Usernames -> OrNull(Users)]
         /\ passcode' \in [Users -> OrNull(Passcodes)]
         /\ isConnected' \in [Users -> BOOLEAN]
         /\ subscriptionIdToChannel' \in [Users -> [SubscriptionIds -> OrNull(Channels)]]
         /\ channelToSubscriptionId' \in [Users -> [Channels -> OrNull(SubscriptionIds)]]
         /\ nextMessageId' \in Nat
<1>1. connectionIdToUsername' \in [ConnectionIds -> OrNull(Usernames)]
  <2>1. Connect(c) => thread[c].frame.login \in Usernames
    BY FramesHaveTheirHeaders DEF Connect, At, Placed, Login, Serves
  <2> QED
    BY <2>1, WhoWrites DEF Connect, EndSession, Types, OrNull
<1>2. /\ usernameToUser' \in [Usernames -> OrNull(Users)]
      /\ passcode' \in [Users -> OrNull(Passcodes)]
  <2>1. Register(c) => /\ thread[c].frame.login \in Usernames
                       /\ thread[c].frame.passcode \in Passcodes
    BY FramesHaveTheirHeaders DEF Register, At, Placed, Login, Serves
  <2>2. Register(c) => <<c, thread[c].frame.login>> \in Users
    BY <2>1 DEF Users
  <2> QED
    BY <2>1, <2>2, WhoWrites DEF Register, Types, OrNull
<1>3. isConnected' \in [Users -> BOOLEAN]
  BY WhoWrites DEF Mark, LogOut, Types
<1>4. /\ subscriptionIdToChannel' \in [Users -> [SubscriptionIds -> OrNull(Channels)]]
      /\ channelToSubscriptionId' \in [Users -> [Channels -> OrNull(SubscriptionIds)]]
  <2>1. SubscribeUser(c) => /\ thread[c].frame.id \in SubscriptionIds
                            /\ thread[c].channel \in Channels
    BY FramesHaveTheirHeaders DEF SubscribeUser, At, Placed, Serves
  <2>2. CASE SubscribeUser(c)
    BY <2>1, <2>2 DEF SubscribeUser, Types, OrNull
  <2>3. CASE UnsubscribeUser(c)
    BY <2>3 DEF UnsubscribeUser, Types, OrNull
  <2>4. CASE LogOut(c)
    BY <2>4 DEF LogOut, Types, OrNull
  <2> QED
    BY <2>2, <2>3, <2>4, WhoWrites DEF Types
<1>5. nextMessageId' \in Nat
  <2>1. thread[c] \in ThreadRecord /\ nextMessageId \in Nat
    BY DEF Types
  <2>2. thread[c].counter + 1 \in Nat
    BY <2>1 DEF ThreadRecord
  <2> QED
    BY <2>1, <2>2, WhoWrites DEF WriteCounter
<1> QED
  BY <1>1, <1>2, <1>3, <1>4, <1>5

LEMMA TypesHold ==
  ASSUME NEW c \in ConnectionIds, Types, Placed(c), Session(c), Step(c)
  PROVE  Types'
BY ThreadsAreTyped, ListsAreTyped, UsersAreTyped DEF Types

-----------------------------------------------------------------------------
(***************************************************************************)
(* Places in the handlers                                                  *)
(***************************************************************************)
(* What the acting thread keeps, wherever it goes next. *)
KeepsFrame(c) == thread'[c].frame = thread[c].frame
KeepsUser(c) == thread'[c].user = thread[c].user /\ thread'[c].channels = thread[c].channels
KeepsList(c) == thread'[c].list = thread[c].list
KeepsChannel(c) == thread'[c].channel = thread[c].channel

GoesTo(c, at) == thread'[c].at = at

MovesTo(c, at) ==
  GoesTo(c, at) /\ KeepsFrame(c) /\ KeepsUser(c) /\ KeepsList(c) /\ KeepsChannel(c)

StartsAt(c, at) == thread'[c] = Thread(at)

LEMMA Moves ==
  ASSUME NEW c \in ConnectionIds, Types
  PROVE
    /\ \A at : Goto(c, at) => MovesTo(c, at)
    /\ Return(c) => StartsAt(c, "read")
    /\ End(c) => StartsAt(c, "closed")
    /\ FindList(c) =>
         LET l == channelToConnectionIdsList[thread[c].channel] IN
         /\ GoesTo(c, IF l = Null THEN "create list" ELSE "use list")
         /\ thread'[c].list = l
         /\ KeepsFrame(c) /\ KeepsUser(c) /\ KeepsChannel(c)
    /\ CreateList(c) =>
         /\ GoesTo(c, "use list") /\ thread'[c].list = <<c, thread[c].channel>>
         /\ KeepsFrame(c) /\ KeepsUser(c) /\ KeepsChannel(c)
    /\ CheckSubscribed(c) =>
         LET ch == thread[c].frame.destination IN
         \/ ch \in ChannelsOf(UserOf(c)) /\ MovesTo(c, "disconnect")
         \/ /\ ch \notin ChannelsOf(UserOf(c))
            /\ GoesTo(c, "subscribe") /\ thread'[c].channel = ch
            /\ KeepsFrame(c) /\ KeepsUser(c) /\ KeepsList(c)
    /\ CheckUnsubscribed(c) =>
         LET ch == subscriptionIdToChannel[UserOf(c)][thread[c].frame.id] IN
         \/ ch = Null /\ MovesTo(c, "disconnect")
         \/ /\ ch # Null
            /\ GoesTo(c, "unsubscribe") /\ thread'[c].channel = ch
            /\ KeepsFrame(c) /\ KeepsUser(c) /\ KeepsList(c)
    /\ CheckSender(c) =>
         LET ch == thread[c].frame.destination IN
         \/ MovesTo(c, "disconnect")
         \/ /\ ch \in ChannelsOf(UserOf(c))
            /\ GoesTo(c, "take id") /\ thread'[c].channel = ch
            /\ KeepsFrame(c) /\ KeepsUser(c) /\ KeepsList(c)
    /\ TakeId(c) => MovesTo(c, "read counter")
    /\ ReadCounter(c) => MovesTo(c, "write counter")
    /\ StartSending(c) => MovesTo(c, "send")
    /\ Enlist(c) => StartsAt(c, "read")
    /\ Delist(c) => StartsAt(c, "read")
    /\ SendLoop(c) => StartsAt(c, "read") \/ MovesTo(c, "send_next")
    /\ SendNext(c) =>
         \/ StartsAt(c, "closed")
         \/ /\ ~thread[c].stale /\ MovesTo(c, "send_to")
            /\ thread'[c].addressee = content[thread[c].list][thread[c].next]
    /\ SendTo(c) => MovesTo(c, "send")
    /\ Disconnect(c) =>
         \/ connectionIdToUsername[c] = Null /\ StartsAt(c, "closed")
         \/ /\ connectionIdToUsername[c] # Null
            /\ GoesTo(c, "leave channels") /\ thread'[c].user = UserOf(c)
            /\ thread'[c].channels = ChannelsOf(UserOf(c)) /\ thread'[c].list = Null
    /\ LeaveChannel(c) =>
         \/ StartsAt(c, "closed")
         \/ \E ch \in thread[c].channels :
              /\ channelToConnectionIdsList[ch] # Null
              /\ GoesTo(c, "removeIf") /\ thread'[c].list = channelToConnectionIdsList[ch]
              /\ thread'[c].user = thread[c].user
              /\ thread'[c].channels = thread[c].channels \ {ch}
    /\ RemoveLoop(c) =>
         \/ MovesTo(c, "remove_next")
         \/ GoesTo(c, "leave channels") /\ thread'[c].list = Null /\ KeepsUser(c)
    /\ RemoveNext(c) => StartsAt(c, "closed") \/ MovesTo(c, "removeIf")
<1> USE DEF MovesTo, GoesTo, StartsAt, KeepsFrame, KeepsUser, KeepsList, KeepsChannel
<1>1. thread \in [ConnectionIds -> ThreadRecord] /\ thread[c] \in ThreadRecord
  BY DEF Types
<1>2. \A at : Goto(c, at) => MovesTo(c, at)
  BY <1>1 DEF Goto, ThreadRecord
<1>3. (Return(c) => StartsAt(c, "read")) /\ (End(c) => StartsAt(c, "closed"))
  BY <1>1 DEF Return, End
<1> HIDE DEF MovesTo, StartsAt
<1>4. ASSUME FindList(c)
      PROVE  LET l == channelToConnectionIdsList[thread[c].channel] IN
             /\ GoesTo(c, IF l = Null THEN "create list" ELSE "use list")
             /\ thread'[c].list = l
             /\ KeepsFrame(c) /\ KeepsUser(c) /\ KeepsChannel(c)
  BY <1>1, <1>4 DEF FindList, ThreadRecord
<1>5. ASSUME CreateList(c)
      PROVE  /\ GoesTo(c, "use list") /\ thread'[c].list = <<c, thread[c].channel>>
             /\ KeepsFrame(c) /\ KeepsUser(c) /\ KeepsChannel(c)
  BY <1>1, <1>5 DEF CreateList, ThreadRecord
<1>6. \A at, ch :
        thread' = [thread EXCEPT ![c].at = at, ![c].channel = ch] =>
          GoesTo(c, at) /\ thread'[c].channel = ch /\ KeepsFrame(c) /\ KeepsUser(c) /\ KeepsList(c)
  BY <1>1 DEF ThreadRecord
<1>7. ASSUME CheckSubscribed(c)
      PROVE  LET ch == thread[c].frame.destination IN
             \/ ch \in ChannelsOf(UserOf(c)) /\ MovesTo(c, "disconnect")
             \/ /\ ch \notin ChannelsOf(UserOf(c))
                /\ GoesTo(c, "subscribe") /\ thread'[c].channel = ch
                /\ KeepsFrame(c) /\ KeepsUser(c) /\ KeepsList(c)
  BY <1>2, <1>6, <1>7 DEF CheckSubscribed
<1>8. ASSUME CheckUnsubscribed(c)
      PROVE  LET ch == subscriptionIdToChannel[UserOf(c)][thread[c].frame.id] IN
             \/ ch = Null /\ MovesTo(c, "disconnect")
             \/ /\ ch # Null
                /\ GoesTo(c, "unsubscribe") /\ thread'[c].channel = ch
                /\ KeepsFrame(c) /\ KeepsUser(c) /\ KeepsList(c)
  BY <1>2, <1>6, <1>8 DEF CheckUnsubscribed
<1>9. ASSUME CheckSender(c)
      PROVE  LET ch == thread[c].frame.destination IN
             \/ MovesTo(c, "disconnect")
             \/ /\ ch \in ChannelsOf(UserOf(c))
                /\ GoesTo(c, "take id") /\ thread'[c].channel = ch
                /\ KeepsFrame(c) /\ KeepsUser(c) /\ KeepsList(c)
  <2> DEFINE ch == thread[c].frame.destination
  <2>1. CASE ch \notin ChannelsOf(UserOf(c))
    BY <1>2, <1>9, <2>1 DEF CheckSender
  <2>2. CASE ch \in ChannelsOf(UserOf(c))
    <3>1. thread' = [thread EXCEPT ![c].at = "take id", ![c].channel = ch]
      BY <1>9, <2>2 DEF CheckSender
    <3> QED
      BY <1>6, <2>2, <3>1
  <2> QED
    BY <2>1, <2>2
<1>10. TakeId(c) => MovesTo(c, "read counter")
  <2>1. ASSUME TakeId(c)
        PROVE  thread'[c] = [thread[c] EXCEPT !.at = "read counter", !.messageId = nextMessageId]
    BY <1>1, <2>1 DEF TakeId
  <2> QED
    BY <1>1, <2>1 DEF ThreadRecord, MovesTo
<1>11. ReadCounter(c) => MovesTo(c, "write counter")
  <2>1. ASSUME ReadCounter(c)
        PROVE  thread'[c] = [thread[c] EXCEPT !.at = "write counter", !.counter = nextMessageId]
    BY <1>1, <2>1 DEF ReadCounter
  <2> QED
    BY <1>1, <2>1 DEF ThreadRecord, MovesTo
<1>12. StartSending(c) => MovesTo(c, "send")
  <2>1. ASSUME StartSending(c) PROVE thread'[c] = [thread[c] EXCEPT !.at = "send", !.stale = FALSE]
    BY <1>1, <2>1 DEF StartSending
  <2> QED
    BY <1>1, <2>1 DEF ThreadRecord, MovesTo
<1>13. (Enlist(c) => StartsAt(c, "read")) /\ (Delist(c) => StartsAt(c, "read"))
  BY <1>3 DEF Enlist, Delist, Modify, StartsAt
<1>14. /\ SendLoop(c) => StartsAt(c, "read") \/ MovesTo(c, "send_next")
       /\ SendNext(c) =>
            \/ StartsAt(c, "closed")
            \/ /\ ~thread[c].stale /\ MovesTo(c, "send_to")
               /\ thread'[c].addressee = content[thread[c].list][thread[c].next]
       /\ SendTo(c) => MovesTo(c, "send")
  <2>1. SendLoop(c) => StartsAt(c, "read") \/ MovesTo(c, "send_next")
    BY <1>2, <1>3 DEF SendLoop, SendLast
  <2>2. ASSUME SendNext(c), ~Interrupted(c)
        PROVE  /\ ~thread[c].stale /\ MovesTo(c, "send_to")
               /\ thread'[c].addressee = content[thread[c].list][thread[c].next]
    <3> DEFINE d == content[thread[c].list][thread[c].next]
    <3>1. /\ ~thread[c].stale
          /\ thread'[c] = [thread[c] EXCEPT !.at = "send_to", !.next = @ + 1, !.addressee = d]
      BY <1>1, <2>2 DEF SendNext
    <3> HIDE DEF d
    <3>2. MovesTo(c, "send_to") /\ thread'[c].addressee = d
      BY <1>1, <3>1 DEF ThreadRecord, MovesTo
    <3> QED
      BY <3>1, <3>2 DEF d
  <2>3. ASSUME SendTo(c) PROVE MovesTo(c, "send")
    <3>1. PICK ds : thread'[c] = [thread[c] EXCEPT !.at = "send", !.addressee = Null, !.reached = ds]
      BY <1>1, <2>3 DEF SendTo
    <3> QED
      BY <1>1, <3>1 DEF ThreadRecord, MovesTo
  <2> QED
    BY <1>3, <2>1, <2>2, <2>3 DEF Interrupted
<1>15. ASSUME Disconnect(c)
       PROVE  \/ connectionIdToUsername[c] = Null /\ StartsAt(c, "closed")
              \/ /\ connectionIdToUsername[c] # Null
                 /\ GoesTo(c, "leave channels") /\ thread'[c].user = UserOf(c)
                 /\ thread'[c].channels = ChannelsOf(UserOf(c)) /\ thread'[c].list = Null
  <2>1. CASE connectionIdToUsername[c] = Null
    BY <1>3, <1>15, <2>1 DEF Disconnect
  <2>2. CASE connectionIdToUsername[c] # Null
    <3>1. thread'[c] = [Thread("leave channels") EXCEPT !.user = UserOf(c),
                                                        !.channels = ChannelsOf(UserOf(c))]
      BY <1>1, <1>15, <2>2 DEF Disconnect
    <3> QED
      BY <2>2, <3>1 DEF Thread
  <2> QED
    BY <2>1, <2>2
<1>16. ASSUME LeaveChannel(c)
       PROVE  \/ StartsAt(c, "closed")
              \/ \E ch \in thread[c].channels :
                   /\ channelToConnectionIdsList[ch] # Null
                   /\ GoesTo(c, "removeIf") /\ thread'[c].list = channelToConnectionIdsList[ch]
                   /\ thread'[c].user = thread[c].user
                   /\ thread'[c].channels = thread[c].channels \ {ch}
  <2>1. PICK ch \in thread[c].channels :
          LET l == channelToConnectionIdsList[ch] IN
          \/ l = Null /\ End(c)
          \/ /\ l # Null
             /\ thread' = [thread EXCEPT ![c].at = "removeIf", ![c].channels = @ \ {ch},
                                         ![c].list = l, ![c].next = 1, ![c].stale = FALSE]
    BY <1>16 DEF LeaveChannel
  <2> DEFINE l == channelToConnectionIdsList[ch]
  <2>2. CASE l = Null
    BY <1>3, <2>1, <2>2
  <2>3. CASE l # Null
    <3>1. thread'[c] = [thread[c] EXCEPT !.at = "removeIf", !.channels = @ \ {ch},
                                         !.list = l, !.next = 1, !.stale = FALSE]
      BY <1>1, <2>1, <2>3
    <3> QED
      BY <1>1, <2>3, <3>1 DEF ThreadRecord
  <2> QED
    BY <2>2, <2>3
<1>17. ASSUME RemoveLoop(c)
       PROVE  \/ MovesTo(c, "remove_next")
              \/ GoesTo(c, "leave channels") /\ thread'[c].list = Null /\ KeepsUser(c)
  <2>1. ASSUME ~Goto(c, "remove_next")
        PROVE  GoesTo(c, "leave channels") /\ thread'[c].list = Null /\ KeepsUser(c)
    <3>1. thread'[c] = [thread[c] EXCEPT !.at = "leave channels", !.list = Null, !.next = 1,
                                         !.stale = FALSE]
      BY <1>1, <1>17, <2>1 DEF RemoveLoop
    <3> QED
      BY <1>1, <3>1 DEF ThreadRecord
  <2> QED
    BY <1>2, <2>1
<1>18. ASSUME RemoveNext(c) PROVE StartsAt(c, "closed") \/ MovesTo(c, "removeIf")
  <2>1. CASE Interrupted(c)
    BY <1>3, <2>1 DEF Interrupted
  <2>2. CASE ~Interrupted(c)
    <3>1. \/ thread'[c] = [thread[c] EXCEPT !.at = "removeIf"]
          \/ thread'[c] = [thread[c] EXCEPT !.at = "removeIf", !.next = thread[c].next + 1]
      BY <1>1, <1>18, <2>2 DEF RemoveNext, Modify
    <3> QED
      BY <1>1, <3>1 DEF ThreadRecord, MovesTo
  <2> QED
    BY <2>1, <2>2
<1> QED
  BY <1>2, <1>3, <1>4, <1>5, <1>7, <1>8, <1>9, <1>10, <1>11, <1>12, <1>13, <1>14, <1>15, <1>16,
    <1>17, <1>18

LEMMA StartFields ==
  ASSUME NEW c \in ConnectionIds, NEW at, StartsAt(c, at)
  PROVE  /\ thread'[c].at = at /\ thread'[c].list = Null /\ thread'[c].channels = {}
BY DEF StartsAt, Thread

LEMMA ReceiveMoves ==
  ASSUME NEW c \in ConnectionIds, Types, NEW f \in Requests,
         ReceiveConnect(c, f) \/ ReceiveOther(c, f)
  PROVE  \/ StartsAt(c, "closed")
         \/ MovesTo(c, "disconnect")
         \/ /\ f.command = "CONNECT" /\ thread'[c].frame = f
            /\ thread'[c].user = usernameToUser[f.login]
            /\ GoesTo(c, IF usernameToUser[f.login] = Null THEN "register" ELSE "check")
            /\ thread'[c].channels = thread[c].channels /\ KeepsList(c)
         \/ /\ f.command \in {"SEND", "SUBSCRIBE", "UNSUBSCRIBE"} /\ thread'[c].frame = f
            /\ GoesTo(c, f.command)
            /\ connectionIdToUsername[c] # Null
            /\ KeepsUser(c) /\ KeepsList(c)
<1>1. thread \in [ConnectionIds -> ThreadRecord] /\ thread[c] \in ThreadRecord
  BY DEF Types
<1>2. CASE ReceiveConnect(c, f)
  <2>1. CASE StartsAt(c, "closed") \/ MovesTo(c, "disconnect")
    BY <2>1
  <2>2. CASE thread' = [thread EXCEPT
               ![c].at = IF usernameToUser[f.login] = Null THEN "register" ELSE "check",
               ![c].frame = f, ![c].user = usernameToUser[f.login]]
    BY <1>1, <1>2, <2>2 DEF ReceiveConnect, GoesTo, KeepsList, ThreadRecord
  <2> QED
    BY <1>2, <2>1, <2>2, Moves DEF ReceiveConnect
<1>3. CASE ReceiveOther(c, f)
  <2>1. CASE StartsAt(c, "closed") \/ MovesTo(c, "disconnect")
    BY <2>1
  <2>2. CASE thread' = [thread EXCEPT ![c].at = f.command, ![c].frame = f]
    <3>1. GoesTo(c, f.command) /\ thread'[c].frame = f /\ KeepsUser(c) /\ KeepsList(c)
      BY <1>1, <2>2 DEF GoesTo, KeepsUser, KeepsList, ThreadRecord
    <3>2. CASE connectionIdToUsername[c] # Null /\ f.command \in {"SEND", "SUBSCRIBE", "UNSUBSCRIBE"}
      BY <3>1, <3>2
    <3> QED
      BY <1>3, <2>1, <3>2, Moves DEF ReceiveOther
  <2> QED
    BY <1>3, <2>1, <2>2, Moves DEF ReceiveOther
<1> QED
  BY <1>2, <1>3

(* Where each action leads. *)
LEMMA NextPlaces ==
  ASSUME NEW c \in ConnectionIds, Types
  PROVE  LET next == thread'[c].at IN
         /\ OwnReceive(c) => next \in {"closed", "disconnect", "register", "check", "SEND",
                                        "SUBSCRIBE", "UNSUBSCRIBE"}
         /\ ConnectionLost(c) \/ LogOut(c) => next = "closed"
         /\ Register(c) => next = "connect"
         /\ Check(c) => next \in {"read", "connect", "disconnect"}
         /\ Connect(c) => next = "mark"
         /\ Mark(c) \/ Enlist(c) \/ Delist(c) => next = "read"
         /\ FindList(c) => next \in {"create list", "use list"}
         /\ CreateList(c) => next = "use list"
         /\ CheckSubscribed(c) => next \in {"disconnect", "subscribe"}
         /\ CheckUnsubscribed(c) => next \in {"disconnect", "unsubscribe"}
         /\ CheckSender(c) => next \in {"disconnect", "take id"}
         /\ SubscribeUser(c) \/ UnsubscribeUser(c) \/ WriteCounter(c) => next = "find list"
         /\ TakeId(c) => next = "read counter"
         /\ ReadCounter(c) => next = "write counter"
         /\ StartSending(c) => next = "send"
         /\ SendLoop(c) => next \in {"read", "send_next"}
         /\ SendNext(c) => next \in {"closed", "send_to"}
         /\ SendTo(c) => next = "send"
         /\ Disconnect(c) => next \in {"closed", "leave channels"}
         /\ LeaveChannel(c) => next \in {"closed", "removeIf"}
         /\ RemoveLoop(c) => next \in {"remove_next", "leave channels"}
         /\ RemoveNext(c) => next \in {"closed", "removeIf"}
         /\ EndSession(c) => next = "log out"
<1> USE DEF GoesTo
<1>1. /\ \A at : StartsAt(c, at) => GoesTo(c, at)
      /\ \A at : MovesTo(c, at) => GoesTo(c, at)
  BY StartFields DEF MovesTo
<1>2. /\ \A at : Goto(c, at) => thread'[c].at = at
      /\ Return(c) => thread'[c].at = "read"
      /\ End(c) => thread'[c].at = "closed"
  BY <1>1, Moves
<1>3. OwnReceive(c) => thread'[c].at \in {"closed", "disconnect", "register", "check", "SEND",
         "SUBSCRIBE", "UNSUBSCRIBE"}
  BY <1>1, ReceiveMoves DEF OwnReceive, Receive
<1>4. ConnectionLost(c) \/ LogOut(c) => thread'[c].at = "closed"
  BY <1>2 DEF ConnectionLost, LogOut
<1>5. Register(c) => thread'[c].at = "connect"
  BY <1>2 DEF Register
<1>6. Check(c) => thread'[c].at \in {"read", "connect", "disconnect"}
  BY <1>2 DEF Check
<1>7. Connect(c) => thread'[c].at = "mark"
  BY <1>2 DEF Connect
<1>8. Mark(c) \/ Enlist(c) \/ Delist(c) => thread'[c].at = "read"
  BY <1>1, <1>2, Moves DEF Mark
<1>9. FindList(c) => thread'[c].at \in {"create list", "use list"}
  BY Moves
<1>10. CreateList(c) => thread'[c].at = "use list"
  BY Moves
<1>11. CheckSubscribed(c) => thread'[c].at \in {"disconnect", "subscribe"}
  BY <1>1, Moves
<1>12. CheckUnsubscribed(c) => thread'[c].at \in {"disconnect", "unsubscribe"}
  BY <1>1, Moves
<1>13. CheckSender(c) => thread'[c].at \in {"disconnect", "take id"}
  BY <1>1, Moves
<1>14. SubscribeUser(c) \/ UnsubscribeUser(c) \/ WriteCounter(c) => thread'[c].at = "find list"
  BY <1>2 DEF SubscribeUser, UnsubscribeUser, WriteCounter
<1>15. TakeId(c) => thread'[c].at = "read counter"
  BY <1>1, Moves
<1>16. ReadCounter(c) => thread'[c].at = "write counter"
  BY <1>1, Moves
<1>17. StartSending(c) => thread'[c].at = "send"
  BY <1>1, Moves
<1>18. /\ SendLoop(c) => thread'[c].at \in {"read", "send_next"}
       /\ SendNext(c) => thread'[c].at \in {"closed", "send_to"}
       /\ SendTo(c) => thread'[c].at = "send"
  BY <1>1, Moves
<1>19. Disconnect(c) => thread'[c].at \in {"closed", "leave channels"}
  BY <1>1, Moves
<1>20. LeaveChannel(c) => thread'[c].at \in {"closed", "removeIf"}
  BY <1>1, Moves
<1>21. /\ RemoveLoop(c) => thread'[c].at \in {"remove_next", "leave channels"}
       /\ RemoveNext(c) => thread'[c].at \in {"closed", "removeIf"}
  BY <1>1, Moves
<1>22. EndSession(c) => thread'[c].at = "log out"
  BY <1>2 DEF EndSession
<1> QED
  BY <1>3, <1>4, <1>5, <1>6, <1>7, <1>8, <1>9, <1>10, <1>11, <1>12, <1>13, <1>14,
    <1>15, <1>16, <1>17, <1>18, <1>19, <1>20, <1>21, <1>22

(* hasNext has said that the iterator stands at somebody. *)
LEMMA LoopTurns ==
  ASSUME NEW c \in ConnectionIds, Types,
         \/ SendLoop(c) /\ thread'[c].at = "send_next"
         \/ RemoveLoop(c) /\ thread'[c].at = "remove_next"
  PROVE  HasNext(c)'
<1>1. thread \in [ConnectionIds -> ThreadRecord] /\ thread[c] \in ThreadRecord
  BY DEF Types
<1>2. UNCHANGED content
  BY DEF SendLoop, RemoveLoop, sharedVars, listVars
<1>3. CASE SendLoop(c) /\ thread'[c].at = "send_next"
  <2>1. ~Return(c)
    BY <1>1, <1>3 DEF Return, Thread
  <2>2. HasNext(c) /\ thread' = [thread EXCEPT ![c].at = "send_next"]
    BY <1>3, <2>1 DEF SendLoop, SendLast, Goto
  <2>3. thread'[c].next = thread[c].next /\ thread'[c].list = thread[c].list
    BY <1>1, <2>2 DEF ThreadRecord
  <2> QED
    BY <1>2, <2>2, <2>3 DEF HasNext
<1>4. CASE RemoveLoop(c) /\ thread'[c].at = "remove_next"
  <2> DEFINE left == [thread[c] EXCEPT !.at = "leave channels", !.list = Null, !.next = 1,
                                       !.stale = FALSE]
  <2>1. thread' # [thread EXCEPT ![c] = left]
    <3>1. left.at = "leave channels"
      BY <1>1 DEF ThreadRecord
    <3> HIDE DEF left
    <3> QED
      BY <1>1, <1>4, <3>1
  <2>2. HasNext(c) /\ thread' = [thread EXCEPT ![c].at = "remove_next"]
    BY <1>1, <1>4, <2>1 DEF RemoveLoop, Goto
  <2>3. thread'[c].next = thread[c].next /\ thread'[c].list = thread[c].list
    BY <1>1, <2>2 DEF ThreadRecord
  <2> QED
    BY <1>2, <2>2, <2>3 DEF HasNext
<1> QED
  BY <1>3, <1>4

LEMMA LoopPlaces ==
  ASSUME NEW c \in ConnectionIds, Types, Placed(c), Delivering(c) \/ Unlisting(c)
  PROVE  Placed(c)'
<1>1. ASSUME thread'[c].at \in {"read", "closed", "leave channels"} PROVE Placed(c)'
  BY <1>1 DEF Placed, Login, Sending, Listing, At
<1>2. ASSUME NEW at, MovesTo(c, at)
      PROVE  /\ thread'[c].at = at /\ thread'[c].frame = thread[c].frame
             /\ thread'[c].list = thread[c].list /\ thread'[c].channel = thread[c].channel
  BY <1>2 DEF MovesTo, GoesTo, KeepsFrame, KeepsList, KeepsChannel
<1>3. \A at : StartsAt(c, at) => thread'[c].at = at
  BY StartFields
<1>4. CASE Delivering(c)
  <2>1. thread[c].at \in {"send", "send_next", "send_to"}
    BY <1>4 DEF Delivering, SendLoop, SendNext, SendTo, At
  <2>2. Serves(c, {"SEND"}) /\ thread[c].channel \in Channels /\ thread[c].list \in Lists
    BY <2>1 DEF Placed, Sending
  <2>3. ASSUME NEW at \in {"send", "send_next", "send_to"}, MovesTo(c, at),
               at = "send_to" => thread'[c].addressee \in ConnectionIds,
               at = "send_next" => HasNext(c)'
        PROVE  Placed(c)'
    <3>1. /\ Serves(c, {"SEND"})' /\ thread'[c].channel \in Channels
          /\ thread'[c].list \in Lists /\ thread'[c].at = at
      BY <1>2, <2>2, <2>3 DEF Serves
    <3>2. Serves(c, {"SUBSCRIBE", "UNSUBSCRIBE", "SEND"})'
      BY <3>1 DEF Serves
    <3> QED
      BY <2>3, <3>1, <3>2 DEF Placed, Login, Sending, Listing, At
  <2>4. CASE SendLoop(c)
    BY <1>1, <1>2, <1>3, <2>3, <2>4, LoopTurns, Moves
  <2>5. CASE SendNext(c)
    <3>1. thread[c].at = "send_next"
      BY <2>5 DEF SendNext, At
    <3> QED
      BY <1>1, <1>3, <2>3, <2>5, <3>1, Standing, Moves
  <2>6. CASE SendTo(c)
    BY <2>3, <2>6, Moves
  <2> QED
    BY <1>4, <2>4, <2>5, <2>6 DEF Delivering
<1>5. CASE Unlisting(c)
  <2>1. thread[c].at \in {"removeIf", "remove_next"}
    BY <1>5 DEF Unlisting, RemoveLoop, RemoveNext, At
  <2>2. thread[c].list \in Lists
    BY <2>1 DEF Placed
  <2>3. ASSUME NEW at \in {"removeIf", "remove_next"}, MovesTo(c, at),
               at = "remove_next" => HasNext(c)'
        PROVE  Placed(c)'
    BY <1>2, <2>2, <2>3 DEF Placed, Login, Sending, Listing, At
  <2> QED
    BY <1>1, <1>2, <1>3, <1>5, <2>3, LoopTurns, Moves DEF Unlisting, GoesTo
<1> QED
  BY <1>4, <1>5

LEMMA OwnPlace ==
  ASSUME NEW c \in ConnectionIds, Types, Placed(c), Session(c), Step(c)
  PROVE  Placed(c)'
<1> USE DEF Placed, Serves, Login, Sending, Listing, At, GoesTo, KeepsFrame, KeepsList, KeepsChannel
<1>1. thread \in [ConnectionIds -> ThreadRecord] /\ thread[c] \in ThreadRecord
  BY DEF Types
<1>2. StartsAt(c, "read") \/ StartsAt(c, "closed") => Placed(c)'
  <2>1. GoesTo(c, "read") \/ GoesTo(c, "closed") => Placed(c)'
    OBVIOUS
  <2> QED
    BY <2>1, StartFields
<1>3. GoesTo(c, "disconnect") \/ GoesTo(c, "log out") \/ GoesTo(c, "leave channels") => Placed(c)'
  OBVIOUS
<1>4. \A at : MovesTo(c, at) => GoesTo(c, at) /\ KeepsFrame(c) /\ KeepsList(c) /\ KeepsChannel(c)
  BY DEF MovesTo
<1>5. CASE OwnReceive(c)
  <2>1. PICK f \in Requests : /\ ReceiveConnect(c, f) \/ ReceiveOther(c, f)
                              /\ f.command = "CONNECT" => f.login = NameOf[c]
    BY <1>5 DEF OwnReceive, Receive
  <2>2. \/ StartsAt(c, "closed") \/ GoesTo(c, "disconnect")
        \/ /\ f.command = "CONNECT" /\ thread'[c].frame = f
           /\ GoesTo(c, "register") \/ GoesTo(c, "check")
        \/ /\ f.command \in {"SEND", "SUBSCRIBE", "UNSUBSCRIBE"} /\ thread'[c].frame = f
           /\ GoesTo(c, f.command)
    BY <1>4, <2>1, ReceiveMoves
  <2> QED
    BY <1>2, <1>3, <2>1, <2>2
<1>6. CASE ConnectionLost(c)
  BY <1>2, <1>6, Moves DEF ConnectionLost
<1>7. CASE Register(c) \/ Connect(c)
  <2>1. GoesTo(c, "connect") \/ GoesTo(c, "mark")
    BY <1>4, <1>7, Moves DEF Register, Connect
  <2>2. KeepsFrame(c)
    BY <1>4, <1>7, Moves DEF Register, Connect
  <2> QED
    BY <1>7, <2>1, <2>2 DEF Register, Connect
<1>8. CASE Check(c) \/ Mark(c)
  <2>1. \/ StartsAt(c, "read") \/ GoesTo(c, "disconnect")
        \/ At(c, "check") /\ GoesTo(c, "connect") /\ KeepsFrame(c)
    BY <1>4, <1>8, Moves DEF Check, Mark
  <2> QED
    BY <1>2, <1>3, <2>1
<1>9. CASE FindList(c)
  <2>1. channelToConnectionIdsList[thread[c].channel] \in OrNull(Lists)
    BY <1>9 DEF FindList, Types
  <2>2. /\ Serves(c, {"SUBSCRIBE", "UNSUBSCRIBE", "SEND"}) /\ thread[c].channel \in Channels
    BY <1>9 DEF FindList
  <2>3. /\ KeepsFrame(c) /\ KeepsChannel(c)
        /\ \/ GoesTo(c, "create list")
           \/ GoesTo(c, "use list") /\ thread'[c].list \in Lists
    BY <1>9, <2>1, Moves DEF OrNull
  <2> QED
    BY <2>2, <2>3
<1>10. CASE CreateList(c)
  <2>1. <<c, thread[c].channel>> \in Lists
    BY <1>10 DEF CreateList, Lists, OrNull
  <2> QED
    BY <1>10, <2>1, Moves DEF CreateList
<1>11. CASE CheckSubscribed(c)
  <2>1. thread[c].frame.destination \in Channels
    BY <1>11, FramesHaveTheirHeaders DEF CheckSubscribed
  <2> QED
    BY <1>3, <1>4, <1>11, <2>1, Moves DEF CheckSubscribed
<1>12. CASE CheckSender(c)
  <2>1. thread[c].frame.destination \in Channels
    BY <1>12, FramesHaveTheirHeaders DEF CheckSender
  <2> QED
    BY <1>3, <1>4, <1>12, <2>1, Moves DEF CheckSender
<1>13. CASE SubscribeUser(c) \/ UnsubscribeUser(c) \/ WriteCounter(c)
  <2>1. MovesTo(c, "find list")
    BY <1>13, Moves DEF SubscribeUser, UnsubscribeUser, WriteCounter
  <2>2. /\ Serves(c, {"SUBSCRIBE", "UNSUBSCRIBE", "SEND"}) /\ thread[c].channel \in Channels
    BY <1>13 DEF SubscribeUser, UnsubscribeUser, WriteCounter
  <2>3. GoesTo(c, "find list") /\ KeepsFrame(c) /\ KeepsChannel(c)
    BY <1>4, <2>1
  <2> QED
    BY <2>2, <2>3
<1>14. CASE Enlist(c) \/ Delist(c)
  BY <1>2, <1>14, Moves
<1>15. CASE CheckUnsubscribed(c)
  <2>1. thread[c].frame.id \in SubscriptionIds
    BY <1>15, FramesHaveTheirHeaders DEF CheckUnsubscribed
  <2>2. UserOf(c) \in Users
    BY <1>15, UserIsOwn DEF CheckUnsubscribed, Session, Working
  <2>3. subscriptionIdToChannel[UserOf(c)][thread[c].frame.id] \in OrNull(Channels)
    <3>1. subscriptionIdToChannel \in [Users -> [SubscriptionIds -> OrNull(Channels)]]
      BY DEF Types
    <3>2. subscriptionIdToChannel[UserOf(c)] \in [SubscriptionIds -> OrNull(Channels)]
      BY <2>2, <3>1
    <3> QED
      BY <2>1, <3>2
  <2>4. Serves(c, {"UNSUBSCRIBE"})
    BY <1>15 DEF CheckUnsubscribed
  <2>5. CASE MovesTo(c, "disconnect")
    BY <1>3, <1>4, <2>5
  <2>6. CASE /\ GoesTo(c, "unsubscribe") /\ KeepsFrame(c)
             /\ thread'[c].channel = subscriptionIdToChannel[UserOf(c)][thread[c].frame.id]
             /\ subscriptionIdToChannel[UserOf(c)][thread[c].frame.id] # Null
    <3>1. thread'[c].channel \in Channels
      BY <2>3, <2>6 DEF OrNull
    <3> QED
      BY <2>4, <2>6, <3>1
  <2> QED
    BY <1>15, <2>5, <2>6, Moves
<1>16. CASE TakeId(c) \/ ReadCounter(c) \/ StartSending(c)
  <2>1. /\ GoesTo(c, "read counter") \/ GoesTo(c, "write counter") \/ GoesTo(c, "send")
        /\ KeepsFrame(c) /\ KeepsList(c) /\ KeepsChannel(c)
    BY <1>4, <1>16, Moves
  <2>2. CASE TakeId(c) \/ ReadCounter(c)
    <3>1. Serves(c, {"SEND"}) /\ thread[c].channel \in Channels
      BY <2>2 DEF TakeId, ReadCounter
    <3>2. GoesTo(c, "read counter") \/ GoesTo(c, "write counter")
      BY <1>4, <2>2, Moves
    <3> QED
      BY <2>1, <3>1, <3>2
  <2>3. CASE StartSending(c)
    <3>1. Serves(c, {"SEND"}) /\ thread[c].channel \in Channels /\ thread[c].list \in Lists
      BY <2>3 DEF StartSending
    <3>2. GoesTo(c, "send")
      BY <1>4, <2>3, Moves
    <3> QED
      BY <2>1, <3>1, <3>2
  <2> QED
    BY <1>16, <2>2, <2>3
<1>17. CASE Delivering(c) \/ Unlisting(c)
  BY <1>17, LoopPlaces
<1>18. CASE Disconnect(c) \/ EndSession(c) \/ LogOut(c)
  BY <1>2, <1>3, <1>4, <1>18, Moves DEF EndSession, LogOut
<1>19. CASE LeaveChannel(c)
  <2>1. CASE StartsAt(c, "closed")
    BY <1>2, <2>1
  <2>2. CASE ~StartsAt(c, "closed")
    <3>1. PICK ch \in thread[c].channels :
            /\ channelToConnectionIdsList[ch] # Null
            /\ GoesTo(c, "removeIf") /\ thread'[c].list = channelToConnectionIdsList[ch]
      BY <1>19, <2>2, Moves
    <3>2. channelToConnectionIdsList[ch] \in OrNull(Lists)
      BY <1>1, <3>1 DEF Types, ThreadRecord
    <3> QED
      BY <3>1, <3>2 DEF OrNull
  <2> QED
    BY <2>1, <2>2
<1> QED
  BY <1>5, <1>6, <1>7, <1>8, <1>9, <1>10, <1>11, <1>12, <1>13, <1>14, <1>15, <1>16, <1>17,
    <1>18, <1>19 DEF Step, Handle, Delivering, Unlisting

(* Whoever modifies a list that another thread iterates over makes its iterator stale. *)
LEMMA OthersIterators ==
  ASSUME NEW c \in ConnectionIds, NEW d \in ConnectionIds, c # d, Types, Placed(c), Placed(d),
         Step(c), thread[d].at \in {"send_next", "remove_next"}, ~thread'[d].stale
  PROVE  ~thread[d].stale /\ HasNext(d)'
<1> DEFINE l == thread[c].list
           own == thread[d].list
<1>1. /\ thread \in [ConnectionIds -> ThreadRecord] /\ thread[d] \in ThreadRecord
      /\ content \in [Lists -> Seq(ConnectionIds)]
  BY DEF Types
<1>2. own \in Lists
  BY DEF Placed
<1>3. Untouched(d)
  BY StepIsLocal
<1>4. CASE thread'[d].stale = thread[d].stale /\ content'[own] = content[own]
  BY <1>3, <1>4 DEF Placed, HasNext, Untouched
<1>5. CASE /\ thread'[d] = [thread[d] EXCEPT !.stale = @ \/ thread[d].list = l]
           /\ \E ids : content' = [content EXCEPT ![l] = ids]
  <2>1. thread'[d].stale = (thread[d].stale \/ own = l)
    BY <1>1, <1>5, StaleIsOneField
  <2>2. ~thread[d].stale /\ own # l
    BY <2>1
  <2>3. content'[own] = content[own]
    BY <1>1, <1>2, <1>5, <2>2
  <2> QED
    BY <1>3, <2>2, <2>3 DEF Placed, HasNext, Untouched
<1>6. CASE Enlist(c) \/ Delist(c) \/ RemoveNext(c)
  <2>1. \/ thread'[d] = thread[d] /\ UNCHANGED content
        \/ \E ids, new : Modify(c, l, ids, new)
    BY <1>1, <1>6 DEF Enlist, Delist, RemoveNext, Interrupted, Return, End
  <2> QED
    BY <1>4, <1>5, <2>1 DEF Modify
<1>7. CASE ~(Enlist(c) \/ Delist(c) \/ RemoveNext(c))
  <2>1. UNCHANGED content
    BY <1>7, WhoWrites
  <2>2. thread'[d] = thread[d]
    BY <1>1, <1>7 DEF Step, OwnReceive, Receive, ReceiveConnect, ReceiveOther, ConnectionLost,
      Handle, Register, Check, Connect, Mark, FindList, CreateList, CheckSubscribed,
      SubscribeUser, CheckUnsubscribed, UnsubscribeUser, CheckSender, TakeId, ReadCounter,
      WriteCounter, StartSending, SendLoop, SendLast, SendNext, SendTo, Disconnect,
      LeaveChannel, RemoveLoop, EndSession, LogOut, Interrupted, Goto, Return, End
  <2> QED
    BY <1>4, <2>1, <2>2
<1> QED
  BY <1>6, <1>7

LEMMA PlacesHold ==
  ASSUME NEW c \in ConnectionIds, Types, \A d \in ConnectionIds : Placed(d), Session(c), Step(c)
  PROVE  (\A d \in ConnectionIds : Placed(d))'
<1>1. ASSUME NEW d \in ConnectionIds PROVE Placed(d)'
  <2>1. CASE d # c
    <3>1. Untouched(d)
      BY <2>1, StepIsLocal
    <3>2. thread[d].at \in {"send_next", "remove_next"} /\ ~thread'[d].stale => HasNext(d)'
      BY <2>1, OthersIterators
    <3>3. Placed(d)
      OBVIOUS
    <3> HIDE DEF HasNext
    <3> QED
      BY <3>1, <3>2, <3>3 DEF Untouched, Placed, Serves, At
  <2> QED
    BY <2>1, OwnPlace
<1> QED
  BY <1>1

-----------------------------------------------------------------------------
(***************************************************************************)
(* Sessions                                                                *)
(***************************************************************************)
LEMMA OwnUsersDiffer ==
  ASSUME NEW c \in ConnectionIds, NEW d \in ConnectionIds, Types, Registered,
         OwnUser(c) # Null, NameOf[c] # NameOf[d]
  PROVE  OwnUser(c) # OwnUser(d)
BY NamesAssumption DEF Registered, OwnUser, Types

(* Where a thread is that does not wait for its next frame. *)
LEMMA ActsInTurn ==
  ASSUME NEW c \in ConnectionIds, NEW d \in ConnectionIds, Turns, Namesakes(c, d),
         \/ thread[c].at \notin {"read", "disconnect", "closed"}
         \/ connectionIdToUsername[c] # Null /\ ~At(c, "closed")
  PROVE  Idle(d) /\ ~Idle(c)
BY DEF Turns, Idle, At

(* The name the thread registers, enters and marks is the connection's own. *)
LEMMA LoginIsOwn ==
  ASSUME NEW c \in ConnectionIds, Types, Placed(c)
  PROVE  /\ Register(c) => /\ usernameToUser' = [usernameToUser EXCEPT ![NameOf[c]] = <<c, NameOf[c]>>]
                            /\ At(c, "register")
         /\ Connect(c) => /\ connectionIdToUsername' = [connectionIdToUsername EXCEPT ![c] = NameOf[c]]
                           /\ At(c, "connect")
         /\ Mark(c) => /\ isConnected' = [isConnected EXCEPT ![OwnUser(c)] = TRUE]
                        /\ At(c, "mark")
BY DEF Register, Connect, Mark, Placed, OwnUser, Login, At

LEMMA LogOutIsOwn ==
  ASSUME NEW c \in ConnectionIds, Session(c), LogOut(c)
  PROVE  /\ At(c, "log out")
         /\ isConnected' = [isConnected EXCEPT ![OwnUser(c)] = FALSE]
BY DEF LogOut, Session

LEMMA RegisteredHolds ==
  ASSUME NEW c \in ConnectionIds, Types, Placed(c), Registered, Step(c)
  PROVE  Registered'
<1>1. CASE Register(c)
  <2>1. usernameToUser' = [usernameToUser EXCEPT ![NameOf[c]] = <<c, NameOf[c]>>]
    BY <1>1, LoginIsOwn
  <2> QED
    BY <2>1, NamesAssumption DEF Registered, Types
<1> QED
  BY <1>1, WhoWrites DEF Registered

(* The object a first login registers has never been marked. *)
LEMMA NewUserIsUnmarked ==
  ASSUME NEW c \in ConnectionIds, Types, Session(c), \A o \in Users : ConnectedUser(o),
         At(c, "register")
  PROVE  /\ <<c, NameOf[c]>> \in Users
         /\ ~isConnected[<<c, NameOf[c]>>]
<1>1. <<c, NameOf[c]>> \in Users
  BY NamesAssumption DEF Users
<1>2. OwnUser(c) = Null
  BY DEF Session
<1> QED
  BY <1>1, <1>2, ObjectsAssumption DEF ConnectedUser, OwnUser

LEMMA OthersSession ==
  ASSUME NEW c \in ConnectionIds, NEW d \in ConnectionIds, c # d,
         Types, Placed(c), Turns, Session(c), Session(d), Registered, Step(c)
  PROVE  Session(d)'
<1>1. Untouched(d)
  BY StepIsLocal
<1>2. CASE NameOf[d] # NameOf[c]
  <2>1. UNCHANGED OwnUser(d)
    BY <1>2, LoginIsOwn, WhoWrites, NamesAssumption DEF OwnUser, Types
  <2>2. OwnUser(d) # Null => isConnected'[OwnUser(d)] = isConnected[OwnUser(d)]
    <3>1. OwnUser(d) # Null => OwnUser(d) \in Users
      BY NamesAssumption DEF OwnUser, Types, OrNull
    <3>2. OwnUser(d) # Null => OwnUser(d) # OwnUser(c)
      BY <1>2, OwnUsersDiffer
    <3> QED
      BY <3>1, <3>2, LoginIsOwn, LogOutIsOwn, WhoWrites DEF Types
  <2> QED
    BY <1>1, <2>1, <2>2 DEF Session, At, Untouched
<1>3. CASE NameOf[d] = NameOf[c]
  <2>1. Namesakes(c, d) /\ OwnUser(c) = OwnUser(d)
    BY <1>3 DEF Namesakes, OwnUser
  <2>2. CASE UNCHANGED <<usernameToUser, isConnected>>
    BY <1>1, <2>2 DEF Session, At, Untouched, OwnUser
  <2>3. CASE ~UNCHANGED <<usernameToUser, isConnected>>
    <3>1. At(c, "register") \/ At(c, "mark") \/ At(c, "log out")
      BY <2>3, WhoWrites, LoginIsOwn, LogOutIsOwn
    <3>2. Idle(d)
      BY <2>1, <3>1, ActsInTurn DEF At
    <3>3. connectionIdToUsername[d] = Null
      <4>1. CASE At(c, "register")
        BY <2>1, <4>1 DEF Session
      <4>2. CASE At(c, "mark") \/ At(c, "log out")
        BY <2>1, <4>2 DEF Session, Turns, Keeps, At
      <4> QED
        BY <3>1, <4>1, <4>2
    <3> QED
      BY <1>1, <3>2, <3>3 DEF Session, At, Untouched, Idle, Working, Leaving, Sending, Listing
  <2> QED
    BY <2>2, <2>3
<1> QED
  BY <1>2, <1>3

LEMMA OwnSession ==
  ASSUME NEW c \in ConnectionIds, Types, Placed(c), Session(c),
         \A o \in Users : ConnectedUser(o), Step(c)
  PROVE  Session(c)'
<1> USE DEF At, GoesTo
<1>1. connectionIdToUsername \in [ConnectionIds -> OrNull(Usernames)]
      /\ usernameToUser \in [Usernames -> OrNull(Users)]
      /\ isConnected \in [Users -> BOOLEAN]
      /\ NameOf[c] \in Usernames /\ NameOf[c] # Null
  BY NamesAssumption, NullAssumption DEF Types
<1>2. \A at : StartsAt(c, at) => GoesTo(c, at)
  BY StartFields
<1>3. \A at : MovesTo(c, at) => GoesTo(c, at) /\ KeepsUser(c)
  BY DEF MovesTo
<1>4. CASE Register(c)
  <2>1. GoesTo(c, "connect")
    BY <1>3, <1>4, Moves DEF Register
  <2>2. UNCHANGED <<connectionIdToUsername, isConnected>>
    BY <1>4 DEF Register
  <2>3. usernameToUser' = [usernameToUser EXCEPT ![NameOf[c]] = <<c, NameOf[c]>>]
    BY <1>4, LoginIsOwn
  <2>4. OwnUser(c)' = <<c, NameOf[c]>>
    BY <1>1, <2>3 DEF OwnUser
  <2>5. /\ <<c, NameOf[c]>> \in Users /\ <<c, NameOf[c]>> # Null
        /\ ~isConnected[<<c, NameOf[c]>>]
    BY <1>4, LoginIsOwn, NewUserIsUnmarked, ObjectsAssumption
  <2>6. connectionIdToUsername[c] = Null
    BY <1>4, LoginIsOwn DEF Session
  <2> QED
    BY <2>1, <2>2, <2>4, <2>5, <2>6 DEF Session, Working, Leaving, Sending, Listing
<1>5. CASE Connect(c)
  <2>1. GoesTo(c, "mark")
    BY <1>3, <1>5, Moves DEF Connect
  <2>2. UNCHANGED <<OwnUser(c), isConnected>>
    BY <1>5 DEF Connect, OwnUser, userVars
  <2>3. connectionIdToUsername'[c] = NameOf[c]
    BY <1>1, <1>5, LoginIsOwn
  <2> QED
    BY <1>1, <1>5, <2>1, <2>2, <2>3, LoginIsOwn DEF Session, Working, Leaving, Sending, Listing
<1>6. CASE Mark(c)
  <2>1. GoesTo(c, "read")
    BY <1>2, <1>6, Moves DEF Mark
  <2>2. UNCHANGED <<OwnUser(c), connectionIdToUsername>>
    BY <1>6 DEF Mark, OwnUser
  <2>3. OwnUser(c) # Null => isConnected'[OwnUser(c)]
    BY <1>1, <1>6, LoginIsOwn DEF OwnUser, OrNull
  <2> QED
    BY <2>1, <2>2, <2>3 DEF Session, Working, Leaving, Sending, Listing
<1>7. CASE EndSession(c)
  <2>1. GoesTo(c, "log out") /\ KeepsUser(c)
    BY <1>3, <1>7, Moves DEF EndSession
  <2>2. UNCHANGED <<OwnUser(c), isConnected>>
    BY <1>7 DEF EndSession, OwnUser, userVars
  <2>3. connectionIdToUsername'[c] = Null
    BY <1>1, <1>7 DEF EndSession
  <2>4. OwnUser(c) # Null /\ thread[c].user = OwnUser(c)
    BY <1>7 DEF EndSession, Session, Leaving
  <2> QED
    BY <2>1, <2>2, <2>3, <2>4 DEF Session, KeepsUser, Working, Leaving, Sending, Listing
<1>8. CASE LogOut(c)
  <2>1. GoesTo(c, "closed")
    BY <1>2, <1>8, Moves DEF LogOut
  <2>2. connectionIdToUsername'[c] = Null
    BY <1>8 DEF LogOut, Session
  <2> QED
    BY <2>1, <2>2 DEF Session, Working, Leaving, Sending, Listing
<1>9. CASE ~(Register(c) \/ Connect(c) \/ Mark(c) \/ EndSession(c) \/ LogOut(c))
  <2>1. UNCHANGED <<connectionIdToUsername[c], OwnUser(c), isConnected>>
    BY <1>9, WhoWrites DEF OwnUser
  <2>2. ~At(c, "mark") /\ ~At(c, "log out")
    BY <1>9 DEF Step, OwnReceive, Receive, ConnectionLost, Handle, Check, FindList, CreateList,
      CheckSubscribed, SubscribeUser, Enlist, CheckUnsubscribed, UnsubscribeUser, Delist,
      CheckSender, TakeId, ReadCounter, WriteCounter, StartSending, SendLoop, SendNext, SendTo,
      Disconnect, LeaveChannel, RemoveLoop, RemoveNext
  <2>3. \/ GoesTo(c, "read") \/ GoesTo(c, "closed") \/ GoesTo(c, "disconnect") => Session(c)'
    BY <2>1, <2>2 DEF Session, Working, Leaving, Sending, Listing
  <2>4. connectionIdToUsername[c] # Null /\ thread'[c].at \in Working => Session(c)'
    BY <2>1, <2>2 DEF Session, Working, Leaving, Sending, Listing
  <2>5. CASE OwnReceive(c)
    <3>1. PICK f \in Requests : /\ ReceiveConnect(c, f) \/ ReceiveOther(c, f)
                                /\ f.command = "CONNECT" => f.login = NameOf[c]
      BY <2>5 DEF OwnReceive, Receive
    <3>2. CASE /\ f.command = "CONNECT" /\ thread'[c].user = usernameToUser[f.login]
               /\ GoesTo(c, IF usernameToUser[f.login] = Null THEN "register" ELSE "check")
      BY <2>1, <2>2, <3>1, <3>2 DEF Session, OwnUser, Working, Leaving, Sending, Listing
    <3> QED
      BY <1>2, <1>3, <2>3, <2>4, <3>1, <3>2, ReceiveMoves DEF Working, Sending
  <2>6. CASE ConnectionLost(c)
    BY <1>2, <2>3, <2>6, Moves DEF ConnectionLost
  <2>7. CASE Check(c)
    <3>1. \/ GoesTo(c, "read") \/ GoesTo(c, "disconnect")
          \/ GoesTo(c, "connect") /\ ~isConnected[thread[c].user]
      BY <1>2, <1>3, <2>7, Moves DEF Check
    <3>2. OwnUser(c) # Null /\ thread[c].user = OwnUser(c)
      BY <2>7 DEF Check, Session
    <3>3. GoesTo(c, "connect") /\ ~isConnected[thread[c].user] => Session(c)'
      BY <2>1, <2>2, <3>2 DEF Session, Working, Leaving, Sending, Listing
    <3> QED
      BY <2>3, <3>1, <3>3
  <2>8. CASE \/ FindList(c) \/ CreateList(c) \/ CheckSubscribed(c) \/ SubscribeUser(c)
             \/ Enlist(c) \/ CheckUnsubscribed(c) \/ UnsubscribeUser(c) \/ Delist(c)
             \/ CheckSender(c) \/ TakeId(c) \/ ReadCounter(c) \/ WriteCounter(c)
             \/ StartSending(c) \/ SendLoop(c) \/ SendNext(c) \/ SendTo(c)
    <3>1. thread[c].at \in Working
      BY <2>8 DEF FindList, CreateList, CheckSubscribed, SubscribeUser, Enlist, CheckUnsubscribed,
        UnsubscribeUser, Delist, CheckSender, TakeId, ReadCounter, WriteCounter, StartSending,
        SendLoop, SendNext, SendTo, Working, Sending, Listing
    <3>2. connectionIdToUsername[c] # Null
      BY <3>1 DEF Session
    <3>3. \/ GoesTo(c, "read") \/ GoesTo(c, "closed") \/ GoesTo(c, "disconnect")
          \/ thread'[c].at \in Working
      BY <1>2, <1>3, <2>8, Moves DEF SubscribeUser, UnsubscribeUser, WriteCounter, Working,
        Sending, Listing
    <3> QED
      BY <2>3, <2>4, <3>2, <3>3
  <2>9. CASE Disconnect(c)
    <3>1. connectionIdToUsername[c] # Null => UserOf(c) = OwnUser(c)
      BY UserIsOwn
    <3>2. CASE connectionIdToUsername[c] # Null /\ GoesTo(c, "leave channels")
               /\ thread'[c].user = UserOf(c)
      BY <2>1, <2>2, <3>1, <3>2 DEF Session, Working, Leaving, Sending, Listing
    <3> QED
      BY <1>2, <2>3, <2>9, <3>2, Moves
  <2>10. CASE LeaveChannel(c) \/ RemoveLoop(c) \/ RemoveNext(c)
    <3>1. connectionIdToUsername[c] # Null /\ thread[c].user = OwnUser(c)
      BY <2>10 DEF LeaveChannel, RemoveLoop, RemoveNext, Session, Leaving
    <3>2. \/ GoesTo(c, "closed")
          \/ /\ GoesTo(c, "removeIf") \/ GoesTo(c, "remove_next") \/ GoesTo(c, "leave channels")
             /\ thread'[c].user = thread[c].user
      BY <1>2, <1>3, <2>10, Moves DEF KeepsUser
    <3>3. /\ GoesTo(c, "removeIf") \/ GoesTo(c, "remove_next") \/ GoesTo(c, "leave channels")
          /\ thread'[c].user = thread[c].user
          => Session(c)'
      BY <2>1, <2>2, <3>1 DEF Session, Working, Leaving, Sending, Listing
    <3> QED
      BY <2>3, <3>2, <3>3
  <2> QED
    BY <1>9, <2>5, <2>6, <2>7, <2>8, <2>9, <2>10 DEF Step, Handle
<1> QED
  BY <1>4, <1>5, <1>6, <1>7, <1>8, <1>9

LEMMA SessionsHold ==
  ASSUME NEW c \in ConnectionIds, Types, Placed(c), Turns, Registered,
         \A d \in ConnectionIds : Session(d),
         \A o \in Users : ConnectedUser(o), Step(c)
  PROVE  (\A d \in ConnectionIds : Session(d))'
<1>1. ASSUME NEW d \in ConnectionIds PROVE Session(d)'
  <2>1. CASE d # c
    BY <2>1, OthersSession
  <2> QED
    BY <2>1, OwnSession
<1> QED
  BY <1>1

(* A connection's turn begins with a CONNECT when its namesakes are idle. *)
LEMMA TurnBegins ==
  ASSUME NEW c \in ConnectionIds, Types, Placed(c), Session(c), Step(c), Idle(c)
  PROVE  Idle(c)' \/ OwnTurn(c)
<1> USE DEF At, GoesTo
<1>1. /\ \A at : StartsAt(c, at) => GoesTo(c, at)
      /\ \A at : MovesTo(c, at) => GoesTo(c, at)
  BY StartFields DEF MovesTo
<1>2. thread[c].at \in {"read", "disconnect", "closed"}
  BY DEF Idle
<1>3. CASE OwnReceive(c)
  <2>1. PICK f \in Requests : /\ ReceiveConnect(c, f) \/ ReceiveOther(c, f)
                              /\ At(c, "read") /\ UNCHANGED connectionIdToUsername
                              /\ f.command = "CONNECT" => OwnTurn(c)
    BY <1>3 DEF OwnReceive, Receive, sharedVars
  <2> QED
    BY <1>1, <2>1, ReceiveMoves DEF Idle
<1>4. CASE ConnectionLost(c)
  BY <1>1, <1>4, Moves DEF ConnectionLost, Idle
<1>5. CASE Disconnect(c)
  BY <1>1, <1>2, <1>5, Moves DEF Disconnect, Idle
<1>6. OwnReceive(c) \/ ConnectionLost(c) \/ Disconnect(c)
  BY <1>2 DEF Step, Handle, Register, Check, Connect, Mark, FindList, CreateList,
    CheckSubscribed, SubscribeUser, Enlist, CheckUnsubscribed, UnsubscribeUser, Delist,
    CheckSender, TakeId, ReadCounter, WriteCounter, StartSending, SendLoop, SendNext,
    SendTo, LeaveChannel, RemoveLoop, RemoveNext, EndSession, LogOut
<1> QED
  BY <1>3, <1>4, <1>5, <1>6

(* Only a session that begins makes the connection keep its User. *)
LEMMA WhoKeeps ==
  ASSUME NEW c \in ConnectionIds, Types, Placed(c), Session(c), Step(c), Keeps(c)', ~Keeps(c)
  PROVE  Connect(c)
<1> USE DEF At, GoesTo
<1>1. ~EndSession(c)
  BY DEF EndSession, Session, Leaving, Keeps
<1>2. CASE UNCHANGED connectionIdToUsername
  <2>1. thread'[c].at = "log out"
    BY <1>2 DEF Keeps
  <2> QED
    BY <1>1, <2>1, NextPlaces DEF Step, Handle
<1> QED
  BY <1>1, <1>2, WhoWrites

LEMMA TurnsHold ==
  ASSUME NEW c \in ConnectionIds, Types, Placed(c), Turns,
         \A d \in ConnectionIds : Session(d), Step(c)
  PROVE  Turns'
<1>1. ASSUME NEW d \in ConnectionIds, d # c
      PROVE  (Idle(d) => Idle(d)') /\ (Keeps(d)' => Keeps(d))
  BY <1>1, StepIsLocal DEF Untouched, Idle, Keeps, At
<1>2. ASSUME NEW d \in ConnectionIds, Namesakes(c, d)
      PROVE  (Idle(c)' \/ Idle(d)') /\ ~(Keeps(c)' /\ Keeps(d)')
  <2>1. d # c /\ NameOf[d] = NameOf[c]
    BY <1>2 DEF Namesakes
  <2>2. Idle(c)' \/ Idle(d)
    <3>1. CASE Idle(c)
      BY <2>1, <3>1, TurnBegins DEF OwnTurn, Idle, At
    <3> QED
      BY <1>2, <3>1 DEF Turns
  <2>3. ASSUME Keeps(c)', Keeps(d) PROVE FALSE
    <3>1. ~Keeps(c)
      BY <1>2, <2>3 DEF Turns
    <3>2. Connect(c)
      BY <2>3, <3>1, WhoKeeps
    <3>3. At(c, "connect")
      BY <3>2 DEF Connect
    <3>4. Idle(d)
      BY <1>2, <3>3, ActsInTurn DEF At
    <3>5. connectionIdToUsername[d] # Null /\ ~At(d, "mark")
      BY <2>3, <3>4 DEF Keeps, Idle, At
    <3>6. isConnected[OwnUser(d)] /\ ~isConnected[OwnUser(c)]
      BY <3>3, <3>5 DEF Session, At
    <3> QED
      BY <2>1, <3>6 DEF OwnUser
  <2> QED
    BY <1>1, <2>1, <2>2, <2>3
<1>3. ASSUME NEW d \in ConnectionIds, NEW e \in ConnectionIds, Namesakes(d, e)
      PROVE  (Idle(d)' \/ Idle(e)') /\ ~(Keeps(d)' /\ Keeps(e)')
  <2>1. CASE d = c
    BY <1>2, <1>3, <2>1
  <2>2. CASE e = c
    BY <1>2, <1>3, <2>2 DEF Namesakes
  <2>3. CASE d # c /\ e # c
    BY <1>1, <1>3, <2>3 DEF Turns
  <2> QED
    BY <2>1, <2>2, <2>3
<1> QED
  BY <1>3 DEF Turns, Namesakes

LEMMA ConnectedUsersHold ==
  ASSUME NEW c \in ConnectionIds, Types, Placed(c), Session(c), Registered,
         \A o \in Users : ConnectedUser(o), Step(c)
  PROVE  (\A o \in Users : ConnectedUser(o))'
<1> USE DEF At
<1>1. SUFFICES ASSUME NEW o \in Users, isConnected'[o]
               PROVE  /\ usernameToUser'[o[2]] = o
                      /\ \E e \in ConnectionIds : NameOf[e] = o[2] /\ Keeps(e)'
  BY DEF ConnectedUser
<1>2. NameOf[c] \in Usernames /\ o[2] \in Usernames /\ o # Null
  BY NamesAssumption, ObjectsAssumption DEF Users
<1>3. CASE Mark(c)
  <2>1. /\ isConnected' = [isConnected EXCEPT ![OwnUser(c)] = TRUE]
        /\ UNCHANGED <<usernameToUser, connectionIdToUsername>>
    BY <1>3, LoginIsOwn DEF Mark
  <2>2. OwnUser(c) \in Users /\ OwnUser(c)[2] = NameOf[c] /\ connectionIdToUsername[c] # Null
    BY <1>2, <1>3, LoginIsOwn DEF Session, Registered, OwnUser, Types, OrNull
  <2>3. CASE o = OwnUser(c)
    BY <2>1, <2>2, <2>3 DEF OwnUser, Keeps
  <2>4. CASE o # OwnUser(c)
    <3>1. isConnected[o]
      BY <1>1, <2>1, <2>4 DEF Types
    <3>2. PICK e \in ConnectionIds : NameOf[e] = o[2] /\ Keeps(e)
      BY <3>1 DEF ConnectedUser
    <3>3. Keeps(e)'
      BY <1>3, <2>1, <2>2, <3>2, StepIsLocal DEF Keeps, Untouched
    <3> QED
      BY <2>1, <3>1, <3>2, <3>3 DEF ConnectedUser
  <2> QED
    BY <2>3, <2>4
<1>4. CASE ~Mark(c)
  <2>1. isConnected[o]
    BY <1>1, <1>4, LogOutIsOwn, WhoWrites DEF Types
  <2>2. usernameToUser[o[2]] = o
    BY <2>1 DEF ConnectedUser
  <2>3. usernameToUser'[o[2]] = o
    <3>1. CASE Register(c)
      <4>1. usernameToUser[NameOf[c]] = Null
        BY <3>1, LoginIsOwn DEF Session, OwnUser
      <4> QED
        BY <1>2, <2>2, <3>1, <4>1, LoginIsOwn DEF Types
    <3> QED
      BY <2>2, <3>1, WhoWrites
  <2>4. PICK e \in ConnectionIds : NameOf[e] = o[2] /\ Keeps(e)
    BY <2>1 DEF ConnectedUser
  <2>5. CASE e # c
    BY <2>3, <2>4, <2>5, StepIsLocal DEF Keeps, Untouched
  <2>6. CASE e = c
    <3>1. ~LogOut(c)
      <4>1. o = OwnUser(c)
        BY <2>2, <2>4, <2>6 DEF OwnUser
      <4> QED
        BY <1>1, <4>1, LogOutIsOwn DEF Types
    <3>2. CASE EndSession(c)
      <4>1. thread'[c].at = "log out"
        BY <3>2, Moves DEF EndSession, MovesTo, GoesTo
      <4> QED
        BY <2>3, <2>4, <2>6, <4>1 DEF Keeps
    <3>3. CASE ~EndSession(c)
      <4>1. connectionIdToUsername'[c] # Null
        <5>1. ~At(c, "log out")
          BY <3>1 DEF Step, OwnReceive, Receive, ConnectionLost, Handle, Register, Check, Connect,
            Mark, FindList, CreateList, CheckSubscribed, SubscribeUser, Enlist, CheckUnsubscribed,
            UnsubscribeUser, Delist, CheckSender, TakeId, ReadCounter, WriteCounter, StartSending,
            SendLoop, SendNext, SendTo, Disconnect, LeaveChannel, RemoveLoop, RemoveNext, EndSession
        <5>2. connectionIdToUsername[c] # Null
          BY <2>4, <2>6, <5>1 DEF Keeps
        <5> QED
          BY <1>2, <3>3, <5>2, LoginIsOwn, WhoWrites, NullAssumption DEF Types
      <4> QED
        BY <2>3, <2>4, <2>6, <4>1 DEF Keeps
    <3> QED
      BY <3>2, <3>3
  <2> QED
    BY <2>5, <2>6
<1> QED
  BY <1>3, <1>4

-----------------------------------------------------------------------------
(***************************************************************************)
(* Subscriptions                                                           *)
(***************************************************************************)
LEMMA WorksOnOwnUser ==
  ASSUME NEW c \in ConnectionIds, Types, Placed(c), Session(c)
  PROVE  /\ SubscribeUser(c) \/ UnsubscribeUser(c) =>
              /\ connectionIdToUsername[c] # Null
              /\ UserOf(c) = OwnUser(c) /\ OwnUser(c) \in Users /\ isConnected[OwnUser(c)]
              /\ thread[c].channel \in Channels
         /\ LogOut(c) => thread[c].user = OwnUser(c) /\ OwnUser(c) \in Users
<1>1. SubscribeUser(c) \/ UnsubscribeUser(c) => thread[c].at \in {"subscribe", "unsubscribe"}
  BY DEF SubscribeUser, UnsubscribeUser, At
<1>2. LogOut(c) => At(c, "log out")
  BY DEF LogOut
<1>3. OwnUser(c) # Null => OwnUser(c) \in Users
  BY NamesAssumption DEF Types, OwnUser, OrNull
<1> QED
  BY <1>1, <1>2, <1>3, UserIsOwn DEF Session, Placed, Working, At

(* A step changes the subscriptions of its own connection's User only. *)
LEMMA OthersSubscriptions ==
  ASSUME NEW c \in ConnectionIds, NEW d \in ConnectionIds, c # d,
         Types, Placed(c), Turns, Session(c), Session(d), Registered, Step(c),
         NEW ch \in Channels
  PROVE  Subscribed(d, ch)' <=> Subscribed(d, ch)
<1>1. connectionIdToUsername'[d] = connectionIdToUsername[d]
  BY StepIsLocal DEF Untouched
<1>2. CASE connectionIdToUsername[d] = Null
  BY <1>1, <1>2 DEF Subscribed
<1>3. CASE connectionIdToUsername[d] # Null
  <2>1. UserOf(d) = OwnUser(d) /\ OwnUser(d) \in Users /\ OwnUser(d) # Null
    BY <1>3, UserIsOwn DEF Session
  <2>2. UserOf(d)' = UserOf(d)
    <3>1. connectionIdToUsername[d] = NameOf[d]
      BY <1>3 DEF Session
    <3>2. Register(c) => NameOf[d] # NameOf[c]
      BY <2>1, LoginIsOwn DEF Session, OwnUser
    <3>3. usernameToUser'[NameOf[d]] = usernameToUser[NameOf[d]]
      BY <3>2, LoginIsOwn, WhoWrites, NamesAssumption DEF Types
    <3> QED
      BY <1>1, <3>1, <3>3 DEF UserOf
  <2>3. channelToSubscriptionId'[UserOf(d)] = channelToSubscriptionId[UserOf(d)]
    <3>1. CASE SubscribeUser(c) \/ UnsubscribeUser(c) \/ LogOut(c)
      <4>1. Keeps(c) /\ OwnUser(c) \in Users /\ OwnUser(c) # Null
        BY <3>1, WorksOnOwnUser, LogOutIsOwn, ObjectsAssumption DEF Keeps
      <4>2. NameOf[c] # NameOf[d]
        BY <1>3, <4>1 DEF Turns, Namesakes, Keeps
      <4>3. OwnUser(c) # OwnUser(d)
        BY <4>1, <4>2, OwnUsersDiffer
      <4>4. \/ \E i : channelToSubscriptionId' =
                       [channelToSubscriptionId EXCEPT ![OwnUser(c)][thread[c].channel] = i]
            \/ \E m : channelToSubscriptionId' =
                       [channelToSubscriptionId EXCEPT ![OwnUser(c)] = m]
        BY <3>1, WorksOnOwnUser DEF SubscribeUser, UnsubscribeUser, LogOut
      <4> QED
        BY <2>1, <4>1, <4>3, <4>4 DEF Types
    <3> QED
      BY <3>1, WhoWrites
  <2> QED
    BY <1>1, <2>2, <2>3 DEF Subscribed, ChannelsOf
<1> QED
  BY <1>2, <1>3

LEMMA OwnSubscriptions ==
  ASSUME NEW c \in ConnectionIds, Types, Placed(c), Session(c),
         \A o \in Users : Subscriptions(o), Step(c), NEW ch \in Channels
  PROVE  /\ SubscribeUser(c) =>
              (Subscribed(c, ch)' <=> Subscribed(c, ch) \/ ch = thread[c].channel)
         /\ UnsubscribeUser(c) =>
              (Subscribed(c, ch)' <=> Subscribed(c, ch) /\ ch # thread[c].channel)
         /\ EndSession(c) => ~Subscribed(c, ch)'
         /\ \/ SubscribeUser(c) \/ UnsubscribeUser(c) \/ EndSession(c)
            \/ Subscribed(c, ch)' <=> Subscribed(c, ch)
<1>1. CASE SubscribeUser(c) \/ UnsubscribeUser(c)
  <2>1. /\ connectionIdToUsername[c] # Null /\ UserOf(c) \in Users
        /\ thread[c].channel \in Channels /\ UNCHANGED <<connectionIdToUsername, UserOf(c)>>
    BY <1>1, WorksOnOwnUser DEF SubscribeUser, UnsubscribeUser, allButSubscriptions, UserOf
  <2>2. ASSUME SubscribeUser(c)
        PROVE  Subscribed(c, ch)' <=> Subscribed(c, ch) \/ ch = thread[c].channel
    <3>1. thread[c].frame.id # Null
      BY <2>2, FramesHaveTheirHeaders, NullAssumption DEF SubscribeUser, Placed, Serves, At
    <3>2. channelToSubscriptionId'[UserOf(c)][ch] =
            IF ch = thread[c].channel THEN thread[c].frame.id
            ELSE channelToSubscriptionId[UserOf(c)][ch]
      BY <2>1, <2>2 DEF SubscribeUser, Types
    <3> QED
      BY <2>1, <3>1, <3>2 DEF Subscribed, ChannelsOf
  <2>3. ASSUME UnsubscribeUser(c)
        PROVE  Subscribed(c, ch)' <=> Subscribed(c, ch) /\ ch # thread[c].channel
    <3>1. channelToSubscriptionId'[UserOf(c)][ch] =
            IF ch = thread[c].channel THEN Null ELSE channelToSubscriptionId[UserOf(c)][ch]
      BY <2>1, <2>3 DEF UnsubscribeUser, Types
    <3> QED
      BY <2>1, <3>1 DEF Subscribed, ChannelsOf
  <2>4. ~EndSession(c)
    BY <1>1 DEF SubscribeUser, UnsubscribeUser, EndSession, At
  <2> QED
    BY <1>1, <2>2, <2>3, <2>4 DEF SubscribeUser, UnsubscribeUser, At
<1>2. CASE EndSession(c)
  <2>1. connectionIdToUsername'[c] = Null
    BY <1>2 DEF EndSession, Types
  <2> QED
    BY <1>2, <2>1 DEF Subscribed, SubscribeUser, UnsubscribeUser, EndSession, At
<1>3. CASE LogOut(c) \/ Register(c)
  <2>1. connectionIdToUsername[c] = Null /\ UNCHANGED connectionIdToUsername
    BY <1>3, LoginIsOwn, LogOutIsOwn DEF Session, Register, LogOut
  <2>2. ~SubscribeUser(c) /\ ~UnsubscribeUser(c) /\ ~EndSession(c)
    BY <1>3 DEF SubscribeUser, UnsubscribeUser, EndSession, LogOut, Register, At
  <2> QED
    BY <2>1, <2>2 DEF Subscribed
<1>4. CASE Connect(c)
  <2>1. connectionIdToUsername'[c] = NameOf[c]
    BY <1>4, LoginIsOwn DEF Types
  <2>2. At(c, "connect") /\ OwnUser(c) # Null /\ ~isConnected[OwnUser(c)]
    BY <1>4, LoginIsOwn DEF Session, At
  <2>3. connectionIdToUsername[c] = Null
    BY <2>2 DEF Session, At
  <2>4. OwnUser(c) \in Users
    BY <2>2, NamesAssumption DEF Types, OwnUser, OrNull
  <2>5. ch \notin ChannelsOf(OwnUser(c))
    BY <2>2, <2>4 DEF Subscriptions
  <2>6. ChannelsOf(UserOf(c))' = ChannelsOf(OwnUser(c))
    BY <1>4, <2>1 DEF Connect, UserOf, OwnUser, ChannelsOf, userVars
  <2>7. ~SubscribeUser(c) /\ ~UnsubscribeUser(c) /\ ~EndSession(c)
    BY <2>2 DEF SubscribeUser, UnsubscribeUser, EndSession, At
  <2> QED
    BY <2>3, <2>5, <2>6, <2>7 DEF Subscribed
<1>5. CASE ~(SubscribeUser(c) \/ UnsubscribeUser(c) \/ EndSession(c) \/ LogOut(c) \/ Register(c)
            \/ Connect(c))
  BY <1>5, WhoWrites DEF Subscribed, ChannelsOf, UserOf
<1> QED
  BY <1>1, <1>2, <1>3, <1>4, <1>5

LEMMA SubscriptionsHold ==
  ASSUME NEW c \in ConnectionIds, Types, Placed(c), Session(c), Checked(c),
         \A o \in Users : Subscriptions(o), Step(c)
  PROVE  (\A o \in Users : Subscriptions(o))'
<1>1. SUFFICES ASSUME NEW o \in Users PROVE Subscriptions(o)'
  OBVIOUS
<1>2. Subscriptions(o)
  OBVIOUS
<1>3. CASE SubscribeUser(c)
  <2> DEFINE i == thread[c].frame.id
             ch == thread[c].channel
  <2>1. /\ UserOf(c) \in Users /\ isConnected[UserOf(c)] /\ ch \in Channels
        /\ connectionIdToUsername[c] # Null /\ UNCHANGED isConnected
    BY <1>3, WorksOnOwnUser DEF SubscribeUser, allButSubscriptions
  <2>2. CASE o # UserOf(c)
    <3>1. /\ channelToSubscriptionId'[o] = channelToSubscriptionId[o]
          /\ subscriptionIdToChannel'[o] = subscriptionIdToChannel[o]
      BY <1>3, <2>1, <2>2 DEF SubscribeUser, Types
    <3> QED
      BY <1>2, <2>1, <3>1 DEF Subscriptions, ChannelsOf
  <2>3. CASE o = UserOf(c)
    <3>1. channelToSubscriptionId[o][ch] = Null
      BY <1>3, <2>1, <2>3 DEF SubscribeUser, Checked, Subscribed, ChannelsOf
    <3>2. \A e \in Channels : channelToSubscriptionId'[o][e] =
             IF e = ch THEN i ELSE channelToSubscriptionId[o][e]
      BY <1>3, <2>1, <2>3 DEF SubscribeUser, Types
    <3>3. \A j \in SubscriptionIds : subscriptionIdToChannel'[o][j] =
             IF j = i THEN ch ELSE subscriptionIdToChannel[o][j]
      BY <1>3, <2>1, <2>3 DEF SubscribeUser, Types
    <3>4. ASSUME NEW j \in SubscriptionIds, subscriptionIdToChannel'[o][j] # Null
          PROVE  channelToSubscriptionId'[o][subscriptionIdToChannel'[o][j]] = j
      <4>1. CASE j = i
        BY <2>1, <3>2, <3>3, <4>1
      <4>2. CASE j # i
        <5> DEFINE e == subscriptionIdToChannel[o][j]
        <5>1. subscriptionIdToChannel'[o][j] = e /\ e # Null
          BY <3>3, <3>4, <4>2
        <5>2. e \in Channels
          BY <5>1 DEF Types, OrNull
        <5>3. channelToSubscriptionId[o][e] = j
          BY <1>2, <5>1 DEF Subscriptions
        <5>4. e # ch
          BY <3>1, <5>3, NullAssumption
        <5> QED
          BY <3>2, <5>1, <5>2, <5>3, <5>4
      <4> QED
        BY <4>1, <4>2
    <3> QED
      BY <2>1, <2>3, <3>4 DEF Subscriptions, ChannelsOf
  <2> QED
    BY <2>2, <2>3
<1>4. CASE UnsubscribeUser(c)
  <2> DEFINE ch == thread[c].channel
             i == channelToSubscriptionId[UserOf(c)][ch]
  <2>1. /\ UserOf(c) \in Users /\ isConnected[UserOf(c)] /\ ch \in Channels
        /\ UNCHANGED isConnected
    BY <1>4, WorksOnOwnUser DEF UnsubscribeUser, allButSubscriptions
  <2>2. CASE o # UserOf(c)
    <3>1. /\ channelToSubscriptionId'[o] = channelToSubscriptionId[o]
          /\ subscriptionIdToChannel'[o] = subscriptionIdToChannel[o]
      BY <1>4, <2>1, <2>2 DEF UnsubscribeUser, Types
    <3> QED
      BY <1>2, <2>1, <3>1 DEF Subscriptions, ChannelsOf
  <2>3. CASE o = UserOf(c)
    <3>1. \A e \in Channels : channelToSubscriptionId'[o][e] =
             IF e = ch THEN Null ELSE channelToSubscriptionId[o][e]
      BY <1>4, <2>1, <2>3 DEF UnsubscribeUser, Types
    <3>2. \A j \in SubscriptionIds : subscriptionIdToChannel'[o][j] =
             IF j = i THEN Null ELSE subscriptionIdToChannel[o][j]
      BY <1>4, <2>1, <2>3 DEF UnsubscribeUser, Types
    <3>3. ASSUME NEW j \in SubscriptionIds, subscriptionIdToChannel'[o][j] # Null
          PROVE  channelToSubscriptionId'[o][subscriptionIdToChannel'[o][j]] = j
      <4> DEFINE e == subscriptionIdToChannel[o][j]
      <4>1. subscriptionIdToChannel'[o][j] = e /\ e # Null /\ j # i
        BY <3>2, <3>3
      <4>2. e \in Channels
        BY <4>1 DEF Types, OrNull
      <4>3. channelToSubscriptionId[o][e] = j
        BY <1>2, <4>1 DEF Subscriptions
      <4>4. e # ch
        BY <2>3, <4>1, <4>3
      <4> QED
        BY <3>1, <4>1, <4>2, <4>3, <4>4
    <3> QED
      BY <2>1, <2>3, <3>3 DEF Subscriptions, ChannelsOf
  <2> QED
    BY <2>2, <2>3
<1>5. CASE LogOut(c)
  <2>1. thread[c].user = OwnUser(c) /\ OwnUser(c) \in Users
    BY <1>5, WorksOnOwnUser
  <2>2. CASE o = OwnUser(c)
    <3>1. /\ \A ch \in Channels : channelToSubscriptionId'[o][ch] = Null
          /\ \A i \in SubscriptionIds : subscriptionIdToChannel'[o][i] = Null
      BY <1>5, <2>1, <2>2 DEF LogOut, Types
    <3> QED
      BY <3>1 DEF Subscriptions, ChannelsOf
  <2>3. CASE o # OwnUser(c)
    <3>1. /\ channelToSubscriptionId'[o] = channelToSubscriptionId[o]
          /\ subscriptionIdToChannel'[o] = subscriptionIdToChannel[o]
          /\ isConnected'[o] = isConnected[o]
      BY <1>5, <2>1, <2>3 DEF LogOut, Types
    <3> QED
      BY <1>2, <3>1 DEF Subscriptions, ChannelsOf
  <2> QED
    BY <2>2, <2>3
<1>6. CASE ~(SubscribeUser(c) \/ UnsubscribeUser(c) \/ LogOut(c))
  <2>1. isConnected[o] => isConnected'[o]
    <3>1. isConnected' = isConnected \/ \E u : isConnected' = [isConnected EXCEPT ![u] = TRUE]
      BY <1>6, LoginIsOwn, WhoWrites
    <3> QED
      BY <3>1 DEF Types
  <2> QED
    BY <1>2, <1>6, <2>1, WhoWrites DEF Subscriptions, ChannelsOf
<1> QED
  BY <1>3, <1>4, <1>5, <1>6

(* A thread gets to a list by subscribing, unsubscribing or counting a report. *)
LEMMA WhoComesToLists ==
  ASSUME NEW c \in ConnectionIds, Types, Step(c), thread'[c].at \in Listing
  PROVE  \/ /\ SubscribeUser(c) \/ UnsubscribeUser(c) \/ WriteCounter(c)
            /\ MovesTo(c, "find list")
         \/ /\ FindList(c) \/ CreateList(c)
            /\ thread'[c].frame = thread[c].frame /\ thread'[c].channel = thread[c].channel
            /\ thread[c].at \in Listing
<1>1. SubscribeUser(c) \/ UnsubscribeUser(c) \/ WriteCounter(c) \/ FindList(c) \/ CreateList(c)
  BY NextPlaces DEF Step, Handle, Listing
<1>2. CASE SubscribeUser(c) \/ UnsubscribeUser(c) \/ WriteCounter(c)
  BY <1>2, Moves DEF SubscribeUser, UnsubscribeUser, WriteCounter
<1>3. CASE FindList(c) \/ CreateList(c)
  BY <1>3, Moves DEF FindList, CreateList, KeepsFrame, KeepsChannel, Listing, At
<1> QED
  BY <1>1, <1>2, <1>3

LEMMA OwnChecks ==
  ASSUME NEW c \in ConnectionIds, Types, Placed(c), Session(c), Checked(c),
         \A o \in Users : Subscriptions(o), Placed(c)', Step(c)
  PROVE  Checked(c)'
<1> USE DEF At, GoesTo
<1>1. /\ \A at : StartsAt(c, at) => GoesTo(c, at)
      /\ \A at : MovesTo(c, at) => GoesTo(c, at) /\ KeepsFrame(c) /\ KeepsChannel(c)
  BY StartFields DEF MovesTo
<1>2. thread'[c].at \in {"subscribe", "unsubscribe"} =>
        CheckSubscribed(c) \/ CheckUnsubscribed(c)
  BY NextPlaces DEF Step, Handle
<1>3. CASE CheckSubscribed(c)
  <2>1. thread[c].frame.destination \in Channels
    BY <1>3, FramesHaveTheirHeaders DEF CheckSubscribed, Placed, Serves
  <2>2. \/ GoesTo(c, "disconnect")
        \/ /\ GoesTo(c, "subscribe") /\ thread'[c].channel = thread[c].frame.destination
           /\ ~Subscribed(c, thread[c].frame.destination)
    BY <1>1, <1>3, Moves DEF Subscribed
  <2>3. \A ch \in Channels : Subscribed(c, ch)' <=> Subscribed(c, ch)
    BY <1>3, OwnSubscriptions DEF CheckSubscribed, SubscribeUser, UnsubscribeUser, EndSession
  <2> QED
    BY <2>1, <2>2, <2>3 DEF Checked, Adding, ServesAt, Listing, Subscribed
<1>4. CASE CheckUnsubscribed(c)
  <2> DEFINE ch == subscriptionIdToChannel[UserOf(c)][thread[c].frame.id]
  <2>1. thread[c].frame.id \in SubscriptionIds
    BY <1>4, FramesHaveTheirHeaders DEF CheckUnsubscribed, Placed, Serves
  <2>2. connectionIdToUsername[c] # Null
    BY <1>4 DEF CheckUnsubscribed, Session, Working
  <2>3. UserOf(c) \in Users
    BY <2>2, UserIsOwn
  <2>4. ch # Null => ch \in Channels /\ Subscribed(c, ch)
    BY <2>1, <2>2, <2>3, NullAssumption DEF Types, OrNull, Subscriptions, Subscribed, ChannelsOf
  <2>5. \/ GoesTo(c, "disconnect")
        \/ ch # Null /\ GoesTo(c, "unsubscribe") /\ thread'[c].channel = ch
    BY <1>1, <1>4, Moves
  <2>6. \A e \in Channels : Subscribed(c, e)' <=> Subscribed(c, e)
    BY <1>4, OwnSubscriptions DEF CheckUnsubscribed, SubscribeUser, UnsubscribeUser, EndSession
  <2> QED
    BY <2>4, <2>5, <2>6 DEF Checked, Adding, ServesAt, Listing, Subscribed
<1>5. CASE thread'[c].at \in Listing
  <2>1. thread'[c].channel \in Channels
    BY <1>5 DEF Placed, Listing
  <2>2. thread'[c].frame = thread[c].frame /\ thread'[c].channel = thread[c].channel
    BY <1>1, <1>5, WhoComesToLists DEF KeepsFrame, KeepsChannel
  <2>3. CASE SubscribeUser(c)
    <3>1. thread[c].frame.command = "SUBSCRIBE"
      BY <2>3 DEF SubscribeUser, Placed, Serves
    <3> QED
      BY <1>5, <2>1, <2>2, <2>3, <3>1, OwnSubscriptions DEF Checked, Adding, ServesAt, Listing,
        Subscribed
  <2>4. CASE UnsubscribeUser(c)
    <3>1. thread[c].frame.command = "UNSUBSCRIBE"
      BY <2>4 DEF UnsubscribeUser, Placed, Serves
    <3> QED
      BY <1>5, <2>1, <2>2, <2>4, <3>1, OwnSubscriptions DEF Checked, Adding, ServesAt, Listing,
        Subscribed
  <2>5. CASE WriteCounter(c)
    <3>1. thread[c].frame.command = "SEND"
      BY <2>5 DEF WriteCounter, Placed, Serves, Sending
    <3> QED
      BY <1>5, <2>2, <3>1 DEF Checked, Adding, ServesAt, Listing
  <2>6. CASE FindList(c) \/ CreateList(c)
    <3>1. Subscribed(c, thread[c].channel)' <=> Subscribed(c, thread[c].channel)
      BY <2>1, <2>2, <2>6, OwnSubscriptions DEF FindList, CreateList, SubscribeUser,
        UnsubscribeUser, EndSession, Subscribed
    <3>2. thread[c].at \in Listing
      BY <2>6 DEF FindList, CreateList, Listing
    <3> QED
      BY <1>5, <2>2, <3>1, <3>2 DEF Checked, Adding, ServesAt, Listing
  <2> QED
    BY <1>5, <2>3, <2>4, <2>5, <2>6, WhoComesToLists
<1>6. CASE thread'[c].at \notin Listing /\ ~CheckSubscribed(c) /\ ~CheckUnsubscribed(c)
  BY <1>2, <1>6 DEF Checked, Adding, ServesAt
<1> QED
  BY <1>3, <1>4, <1>5, <1>6

LEMMA ChecksHold ==
  ASSUME NEW c \in ConnectionIds, Types, \A d \in ConnectionIds : Placed(d), Turns, Registered,
         \A d \in ConnectionIds : Session(d), \A d \in ConnectionIds : Checked(d),
         \A o \in Users : Subscriptions(o), Step(c)
  PROVE  (\A d \in ConnectionIds : Checked(d))'
<1>1. ASSUME NEW d \in ConnectionIds PROVE Checked(d)'
  <2>1. CASE d # c
    <3>1. Untouched(d)
      BY <2>1, StepIsLocal
    <3>2. thread[d].at \in {"subscribe", "unsubscribe"} \cup Listing => thread[d].channel \in Channels
      BY DEF Placed
    <3>3. \A ch \in Channels : Subscribed(d, ch)' <=> Subscribed(d, ch)
      BY <2>1, OthersSubscriptions
    <3> QED
      BY <3>1, <3>2, <3>3 DEF Checked, Adding, ServesAt, Untouched, At, Subscribed
  <2>2. CASE d = c
    BY <2>2, OwnChecks, OwnPlace
  <2> QED
    BY <2>1, <2>2
<1> QED
  BY <1>1

(* The list a thread creates takes its place in the map. *)
LEMMA NewList ==
  ASSUME NEW c \in ConnectionIds, Types, Placed(c), CreateList(c)
  PROVE  LET ch == thread[c].channel
             l == <<c, ch>>
         IN
         /\ At(c, "create list") /\ ch \in Channels /\ l \in Lists /\ l # Null
         /\ \A e \in Channels :
              channelToConnectionIdsList'[e] = IF e = ch THEN l ELSE channelToConnectionIdsList[e]
         /\ UNCHANGED content
         /\ thread'[c].list = l
<1> DEFINE ch == thread[c].channel
           l == <<c, ch>>
<1>1. At(c, "create list") /\ ch \in Channels /\ l \in Lists
  BY DEF CreateList, Placed, Listing, At, Lists, OrNull
<1>2. l # Null
  BY <1>1, ObjectsAssumption
<1>3. channelToConnectionIdsList \in [Channels -> OrNull(Lists)]
  BY DEF Types
<1>4. channelToConnectionIdsList' = [channelToConnectionIdsList EXCEPT ![ch] = l]
  BY DEF CreateList
<1>5. \A e \in Channels :
        channelToConnectionIdsList'[e] = IF e = ch THEN l ELSE channelToConnectionIdsList[e]
  BY <1>1, <1>3, <1>4
<1>6. UNCHANGED content
  BY DEF CreateList
<1> QED
  BY <1>1, <1>2, <1>5, <1>6, Moves

(* A channel's list stays in the map, or is replaced by another. *)
LEMMA MappedStays ==
  ASSUME NEW c \in ConnectionIds, Types, Placed(c), Step(c), NEW ch \in Channels
  PROVE  /\ Mapped(ch) => Mapped(ch)'
         /\ CreateList(c) => channelToConnectionIdsList'[thread[c].channel] # Null
<1>1. CASE CreateList(c)
  BY <1>1, NewList DEF Mapped
<1> QED
  BY <1>1, WhoWrites DEF Mapped

LEMMA OwnLists ==
  ASSUME NEW c \in ConnectionIds, Types, Placed(c), Session(c), HasList(c),
         \A o \in Users : Subscriptions(o), Step(c)
  PROVE  HasList(c)'
<1> USE DEF At
<1>1. ASSUME NEW ch \in Channels, Subscribed(c, ch)'
      PROVE  \/ Mapped(ch)'
             \/ thread'[c].at \in {"find list", "create list"} /\ thread'[c].channel = ch
  <2>1. CASE SubscribeUser(c)
    <3>1. MovesTo(c, "find list")
      BY <2>1, Moves DEF SubscribeUser
    <3>2. thread'[c].at = "find list" /\ thread'[c].channel = thread[c].channel
      BY <3>1 DEF MovesTo, GoesTo, KeepsChannel
    <3>3. CASE Subscribed(c, ch)
      BY <2>1, <3>3, MappedStays DEF HasList, SubscribeUser
    <3> QED
      BY <1>1, <2>1, <3>2, <3>3, OwnSubscriptions
  <2>2. CASE ~SubscribeUser(c)
    <3>1. Subscribed(c, ch)
      BY <1>1, <2>2, OwnSubscriptions
    <3>2. CASE Mapped(ch)
      BY <3>2, MappedStays
    <3>3. CASE ~Mapped(ch)
      <4>1. thread[c].at \in {"find list", "create list"} /\ thread[c].channel = ch
        BY <3>1, <3>3 DEF HasList
      <4>2. FindList(c) \/ CreateList(c)
        BY <4>1 DEF Step, OwnReceive, Receive, ConnectionLost, Handle, Register, Check, Connect,
          Mark, CheckSubscribed, SubscribeUser, Enlist, CheckUnsubscribed, UnsubscribeUser, Delist,
          CheckSender, TakeId, ReadCounter, WriteCounter, StartSending, SendLoop, SendNext, SendTo,
          Disconnect, LeaveChannel, RemoveLoop, RemoveNext, EndSession, LogOut
      <4> QED
        BY <3>3, <4>1, <4>2, Moves, MappedStays DEF Mapped, GoesTo, KeepsChannel
    <3> QED
      BY <3>2, <3>3
  <2> QED
    BY <2>1, <2>2
<1>2. \/ thread'[c].channels \subseteq thread[c].channels
      \/ /\ Disconnect(c) /\ connectionIdToUsername[c] # Null
         /\ thread'[c].channels = ChannelsOf(UserOf(c))
  <2> USE DEF KeepsUser
  <2>1. /\ \A at : StartsAt(c, at) => thread'[c].channels = {}
        /\ \A at : MovesTo(c, at) => thread'[c].channels = thread[c].channels
    BY StartFields DEF MovesTo
  <2>2. CASE OwnReceive(c)
    BY <2>1, <2>2, ReceiveMoves DEF OwnReceive, Receive
  <2>3. CASE ConnectionLost(c) \/ Register(c) \/ Check(c) \/ Connect(c) \/ Mark(c) \/ LogOut(c)
    BY <2>1, <2>3, Moves DEF ConnectionLost, Register, Check, Connect, Mark, LogOut
  <2>4. CASE SubscribeUser(c) \/ UnsubscribeUser(c) \/ WriteCounter(c) \/ EndSession(c)
    BY <2>1, <2>4, Moves DEF SubscribeUser, UnsubscribeUser, WriteCounter, EndSession
  <2>5. CASE FindList(c) \/ CreateList(c)
    BY <2>5, Moves
  <2>6. CASE CheckSubscribed(c) \/ CheckUnsubscribed(c) \/ CheckSender(c)
    BY <2>1, <2>6, Moves
  <2>7. CASE Enlist(c) \/ Delist(c) \/ TakeId(c) \/ ReadCounter(c) \/ StartSending(c)
    BY <2>1, <2>7, Moves
  <2>8. CASE Delivering(c) \/ Unlisting(c)
    BY <2>1, <2>8, Moves DEF Delivering, Unlisting
  <2>9. CASE Disconnect(c)
    BY <2>1, <2>9, Moves
  <2>10. CASE LeaveChannel(c)
    BY <2>1, <2>10, Moves
  <2> QED
    BY <2>2, <2>3, <2>4, <2>5, <2>6, <2>7, <2>8, <2>9, <2>10 DEF Step, Handle, Delivering, Unlisting
<1>3. ASSUME NEW ch \in thread'[c].channels PROVE Mapped(ch)'
  <2>1. thread[c].channels \subseteq Channels
    BY DEF Types, ThreadRecord
  <2>2. ch \in Channels
    BY <1>2, <2>1 DEF ChannelsOf
  <2>3. Mapped(ch)
    BY <1>2, <2>2 DEF HasList, Disconnect, Subscribed
  <2> QED
    BY <2>2, <2>3, MappedStays
<1> QED
  BY <1>1, <1>3 DEF HasList

LEMMA ChannelListsHold ==
  ASSUME NEW c \in ConnectionIds, Types, \A d \in ConnectionIds : Placed(d), Turns, Registered,
         \A d \in ConnectionIds : Session(d), \A d \in ConnectionIds : HasList(d),
         \A o \in Users : Subscriptions(o), Step(c)
  PROVE  (\A d \in ConnectionIds : HasList(d))'
<1>1. ASSUME NEW d \in ConnectionIds PROVE HasList(d)'
  <2>1. CASE d # c
    <3>1. Untouched(d)
      BY <2>1, StepIsLocal
    <3>2. \A ch \in Channels : Subscribed(d, ch)' <=> Subscribed(d, ch)
      BY <2>1, OthersSubscriptions
    <3>3. thread[d].channels \subseteq Channels
      BY DEF Types, ThreadRecord
    <3>4. \A ch \in Channels : Mapped(ch) => Mapped(ch)'
      BY MappedStays
    <3>5. HasList(d)
      OBVIOUS
    <3> QED
      BY <3>1, <3>2, <3>3, <3>4, <3>5 DEF HasList, Untouched
  <2>2. CASE d = c
    BY <2>2, OwnLists
  <2> QED
    BY <2>1, <2>2
<1> QED
  BY <1>1

-----------------------------------------------------------------------------
(***************************************************************************)
(* One list per channel                                                    *)
(***************************************************************************)
(* Where the list in a thread's hands comes from. *)
LEMMA ListsComeFromTheMap ==
  ASSUME NEW c \in ConnectionIds, Types, Step(c)
  PROVE  \/ thread'[c].list \in {Null, thread[c].list}
         \/ FindList(c)
         \/ CreateList(c)
         \/ \E ch \in Channels : thread'[c].list = channelToConnectionIdsList[ch]
<1> USE DEF KeepsList
<1>1. /\ \A at : StartsAt(c, at) => thread'[c].list = Null
      /\ \A at : MovesTo(c, at) => thread'[c].list = thread[c].list
  BY StartFields DEF MovesTo
<1>2. CASE OwnReceive(c)
  BY <1>1, <1>2, ReceiveMoves DEF OwnReceive, Receive
<1>3. CASE ConnectionLost(c) \/ Register(c) \/ Check(c) \/ Connect(c) \/ Mark(c) \/ LogOut(c)
  BY <1>1, <1>3, Moves DEF ConnectionLost, Register, Check, Connect, Mark, LogOut
<1>4. CASE SubscribeUser(c) \/ UnsubscribeUser(c) \/ WriteCounter(c) \/ EndSession(c)
  BY <1>1, <1>4, Moves DEF SubscribeUser, UnsubscribeUser, WriteCounter, EndSession
<1>5. CASE CheckSubscribed(c) \/ CheckUnsubscribed(c) \/ CheckSender(c)
  BY <1>1, <1>5, Moves
<1>6. CASE Enlist(c) \/ Delist(c) \/ TakeId(c) \/ ReadCounter(c) \/ StartSending(c)
  BY <1>1, <1>6, Moves
<1>7. CASE Delivering(c) \/ Unlisting(c) \/ Disconnect(c)
  BY <1>1, <1>7, Moves DEF Delivering, Unlisting
<1>8. CASE LeaveChannel(c)
  <2>1. thread[c].channels \subseteq Channels
    BY DEF Types, ThreadRecord
  <2> QED
    BY <1>1, <1>8, <2>1, Moves
<1> QED
  BY <1>2, <1>3, <1>4, <1>5, <1>6, <1>7, <1>8 DEF Step, Handle, Delivering, Unlisting

(* A thread modifies the list in its hands, and only to add or remove itself. *)
LEMMA OneListChanges ==
  ASSUME NEW c \in ConnectionIds, Types, Placed(c), Step(c), NEW l \in Lists,
         content'[l] # content[l]
  PROVE  l = thread[c].list /\ (Enlist(c) \/ Delist(c) \/ RemoveNext(c))
<1>1. content \in [Lists -> Seq(ConnectionIds)]
  BY DEF Types
<1>2. Enlist(c) \/ Delist(c) \/ RemoveNext(c)
  BY WhoWrites
<1>3. \E ids : content' = [content EXCEPT ![thread[c].list] = ids]
  BY <1>2 DEF Enlist, Delist, RemoveNext, Modify
<1> QED
  BY <1>1, <1>2, <1>3

LEMMA UnusedStays ==
  ASSUME NEW c \in ConnectionIds, Types, Placed(c), Step(c), NEW l \in Lists, Unused(l),
         \A ch \in Channels : channelToConnectionIdsList[ch] # l,
         CreateList(c) => l # <<c, thread[c].channel>>
  PROVE  Unused(l)'
<1>1. content'[l] = content[l]
  BY OneListChanges DEF Unused
<1>2. ASSUME NEW d \in ConnectionIds PROVE thread'[d].list # l
  <2>1. CASE d # c
    BY <2>1, StepIsLocal DEF Untouched, Unused
  <2>2. CASE d = c
    <3>1. FindList(c) => thread'[c].list = channelToConnectionIdsList[thread[c].channel]
                         /\ thread[c].channel \in Channels
      BY Moves DEF FindList, Placed, Listing, At
    <3>2. CreateList(c) => thread'[c].list # l
      BY NewList
    <3>3. l # Null /\ thread[c].list # l
      BY ObjectsAssumption DEF Unused
    <3> QED
      BY <2>2, <3>1, <3>2, <3>3, ListsComeFromTheMap
  <2> QED
    BY <2>1, <2>2
<1> QED
  BY <1>1, <1>2 DEF Unused

(* A list in the map is that of one channel only. *)
LEMMA ListHasOneChannel ==
  ASSUME ListsOfChannels, NEW ch \in Channels, NEW x \in OrNull(ConnectionIds),
         channelToConnectionIdsList[ch] # <<x, ch>>
  PROVE  \A e \in Channels : channelToConnectionIdsList[e] # <<x, ch>>
<1>1. <<x, ch>> # Null
  BY ObjectsAssumption DEF Lists
<1> QED
  BY <1>1 DEF ListsOfChannels, Mapped

LEMMA OldChannelsStay ==
  ASSUME NEW c \in ConnectionIds, Types, Placed(c), ListAtHand(c), Step(c)
  PROVE  OldChannels' = OldChannels
<1>1. CASE CreateList(c)
  <2> DEFINE ch == thread[c].channel
  <2>1. <<c, ch>> # <<Null, ch>>
    BY NoConnectionIsNull
  <2>2. channelToConnectionIdsList[ch] # <<Null, ch>>
    BY <1>1, NewList DEF ListAtHand
  <2>3. \A e \in Channels : channelToConnectionIdsList'[e] = <<Null, e>>
                             <=> channelToConnectionIdsList[e] = <<Null, e>>
    BY <1>1, <2>1, <2>2, NewList
  <2> QED
    BY <2>3 DEF OldChannels
<1> QED
  BY <1>1, WhoWrites DEF OldChannels

LEMMA ListsOfChannelsHold ==
  ASSUME NEW c \in ConnectionIds, Types, Placed(c), ListsOfChannels, Step(c)
  PROVE  ListsOfChannels'
<1>1. ASSUME NEW ch \in Channels, Mapped(ch)'
      PROVE  channelToConnectionIdsList'[ch][2] = ch
  <2>1. CASE channelToConnectionIdsList'[ch] = channelToConnectionIdsList[ch]
    BY <1>1, <2>1 DEF ListsOfChannels, Mapped
  <2>2. CASE CreateList(c) /\ ch = thread[c].channel
    <3>1. channelToConnectionIdsList'[ch] = <<c, ch>>
      BY <2>2, NewList
    <3> QED
      BY <3>1
  <2> QED
    BY <2>1, <2>2, NewList, WhoWrites
<1>2. ASSUME NEW ch \in Channels, ~Mapped(ch)', NEW x \in OrNull(ConnectionIds)
      PROVE  Unused(<<x, ch>>)'
  <2>1. ~Mapped(ch) /\ (CreateList(c) => ch # thread[c].channel)
    BY <1>2, MappedStays DEF Mapped
  <2>2. <<x, ch>> \in Lists /\ <<x, ch>> # Null
    BY ObjectsAssumption DEF Lists
  <2>3. Unused(<<x, ch>>) /\ \A e \in Channels : channelToConnectionIdsList[e] # <<x, ch>>
    BY <2>1, <2>2, ListHasOneChannel DEF ListsOfChannels, Mapped
  <2> QED
    BY <2>1, <2>2, <2>3, UnusedStays
<1> QED
  BY <1>1, <1>2 DEF ListsOfChannels

LEMMA ListsAtHandHold ==
  ASSUME NEW c \in ConnectionIds, Types, \A d \in ConnectionIds : Placed(d), ListsOfChannels,
         \A d \in ConnectionIds : ListAtHand(d), Step(c)
  PROVE  (\A d \in ConnectionIds : ListAtHand(d))'
<1>1. OldChannels' = OldChannels
  BY OldChannelsStay
<1>2. ASSUME NEW d \in ConnectionIds, NEW ch, thread'[d].channel = ch, At(d, "create list")'
      PROVE  Unused(<<d, ch>>)' /\ channelToConnectionIdsList'[ch] \notin {<<d, ch>>, <<Null, ch>>}
  <2>1. /\ thread[d].channel = ch /\ ch \in Channels
        /\ Unused(<<d, ch>>)
        /\ channelToConnectionIdsList[ch] \notin {<<d, ch>>, <<Null, ch>>}
        /\ d = c => FindList(c)
    <3>1. CASE d # c
      <4>1. At(d, "create list") /\ thread[d].channel = ch
        BY <1>2, <3>1, StepIsLocal DEF Untouched, At
      <4> QED
        BY <3>1, <4>1 DEF ListAtHand, Placed, Listing, At
    <3>2. CASE d = c
      <4>1. FindList(c)
        BY <1>2, <3>2, NextPlaces DEF Step, Handle, At
      <4>2. thread[c].channel = ch /\ channelToConnectionIdsList[ch] = Null
        BY <1>2, <3>2, <4>1, Moves DEF GoesTo, KeepsChannel, At
      <4>3. ch \in Channels
        BY <3>2, <4>1, <4>2 DEF FindList, Placed, Listing, At
      <4>4. <<d, ch>> # Null /\ <<Null, ch>> # Null
        BY <4>3, ObjectsAssumption DEF Lists, OrNull
      <4> QED
        BY <3>2, <4>1, <4>2, <4>3, <4>4 DEF ListsOfChannels, Mapped, OrNull
    <3> QED
      BY <3>1, <3>2
  <2>2. CreateList(c) => d # c
    BY <1>2, <2>1, NextPlaces DEF At
  <2>3. <<d, ch>> \in Lists
    BY <2>1 DEF Lists, OrNull
  <2>4. \A e \in Channels : channelToConnectionIdsList[e] # <<d, ch>>
    BY <2>1, ListHasOneChannel DEF OrNull
  <2>5. Unused(<<d, ch>>)'
    <3>1. CreateList(c) => <<d, ch>> # <<c, thread[c].channel>>
      BY <2>2
    <3>2. Unused(<<d, ch>>)
      BY <2>1
    <3> QED
      BY <2>3, <2>4, <3>1, <3>2, UnusedStays
  <2>6. channelToConnectionIdsList'[ch] \notin {<<d, ch>>, <<Null, ch>>}
    <3>1. CASE CreateList(c) /\ ch = thread[c].channel
      <4>1. channelToConnectionIdsList'[ch] = <<c, ch>>
        BY <3>1, NewList
      <4> QED
        BY <2>2, <3>1, <4>1, NoConnectionIsNull
    <3> QED
      BY <2>1, <3>1, NewList, WhoWrites
  <2> QED
    BY <2>1, <2>5, <2>6
<1>3. ASSUME NEW d \in ConnectionIds, thread'[d].at \in {"use list", "send", "send_next", "send_to"}
      PROVE  LET ch == thread'[d].channel IN
             thread'[d].list[2] = ch /\ (ch \in OldChannels => thread'[d].list = <<Null, ch>>)
  <2> USE DEF KeepsChannel, KeepsList, GoesTo
  <2>1. CASE /\ thread'[d].channel = thread[d].channel
             /\ thread'[d].list = thread[d].list
             /\ thread[d].at \in {"use list", "send", "send_next", "send_to"}
    BY <2>1 DEF ListAtHand
  <2>2. CASE d # c
    BY <1>3, <2>1, <2>2, StepIsLocal DEF Untouched
  <2>3. CASE d = c /\ FindList(c)
    <3> DEFINE ch == thread[c].channel
    <3>1. thread'[c].channel = ch /\ ch \in Channels
      BY <2>3, Moves DEF FindList, Placed, Listing, At
    <3>2. thread'[c].list = channelToConnectionIdsList[ch] /\ Mapped(ch)
      BY <1>3, <2>3, Moves DEF Mapped
    <3> QED
      BY <2>3, <3>1, <3>2 DEF ListsOfChannels, OldChannels
  <2>4. CASE d = c /\ CreateList(c)
    <3> DEFINE ch == thread[c].channel
    <3>1. thread'[c].list = <<c, ch>> /\ thread'[c].channel = ch
      BY <2>4, Moves
    <3>2. ch \notin OldChannels
      BY <2>4, NewList DEF ListAtHand, OldChannels
    <3>3. thread'[c].list[2] = ch
      BY <3>1
    <3> QED
      BY <2>4, <3>1, <3>2, <3>3
  <2>5. CASE d = c /\ (StartSending(c) \/ Delivering(c))
    <3>1. ~StartsAt(c, "closed") /\ ~StartsAt(c, "read")
      BY <1>3, <2>5, StartFields
    <3>2. \E at : MovesTo(c, at)
      BY <2>5, <3>1, Moves DEF Delivering
    <3>3. thread[c].at \in {"use list", "send", "send_next", "send_to"}
      BY <2>5 DEF StartSending, Delivering, SendLoop, SendNext, SendTo, At
    <3> QED
      BY <2>1, <2>5, <3>2, <3>3 DEF MovesTo
  <2> QED
    BY <1>3, <2>2, <2>3, <2>4, <2>5, NextPlaces DEF Step, Handle, Delivering
<1>4. ASSUME NEW d \in ConnectionIds PROVE ListAtHand(d)'
  <2>1. PICK ch : thread'[d].channel = ch
    OBVIOUS
  <2> QED
    BY <1>1, <1>2, <1>3, <2>1 DEF ListAtHand
<1> QED
  BY <1>4

-----------------------------------------------------------------------------
(***************************************************************************)
(* Who is in the lists                                                     *)
(***************************************************************************)
(* The list in c's hands gets c at its end, or loses an occurrence of c. *)
Added(c, l) == l = thread[c].list /\ content'[l] = Append(content[l], c)

Removed(c, l) ==
  /\ l = thread[c].list
  /\ \E n \in DOMAIN content[l] : content[l][n] = c /\ content'[l] = RemoveAt(content[l], n)

LEMMA ListChanges ==
  ASSUME NEW c \in ConnectionIds, Types, Placed(c), Step(c), NEW l \in Lists
  PROVE  /\ content'[l] = content[l] \/ Added(c, l) \/ Removed(c, l)
         /\ Enlist(c) /\ l = thread[c].list => Added(c, l)
         /\ Delist(c) /\ l = thread[c].list =>
              IF Contains(content[l], c) THEN Removed(c, l) ELSE content'[l] = content[l]
<1>1. content \in [Lists -> Seq(ConnectionIds)] /\ content[l] \in Seq(ConnectionIds)
  BY DEF Types
<1>2. \A ids : content' = [content EXCEPT ![l] = ids] => content'[l] = ids
  BY <1>1
<1>3. ASSUME Enlist(c), l = thread[c].list PROVE Added(c, l)
  BY <1>2, <1>3 DEF Enlist, Modify, Added
<1>4. ASSUME Delist(c), l = thread[c].list
      PROVE  IF Contains(content[l], c) THEN Removed(c, l) ELSE content'[l] = content[l]
  <2>1. CASE Contains(content[l], c)
    <3>1. content'[l] = RemoveFirst(content[l], c)
      BY <1>2, <1>4, <2>1 DEF Delist, Modify
    <3> QED
      BY <1>1, <1>4, <2>1, <3>1, RemoveFirstIsRemoveAt DEF Removed
  <2>2. CASE ~Contains(content[l], c)
    BY <1>4, <2>2 DEF Delist
  <2> QED
    BY <2>1, <2>2
<1>5. ASSUME RemoveNext(c), l = thread[c].list, content'[l] # content[l] PROVE Removed(c, l)
  <2> DEFINE n == thread[c].next
  <2>1. content[l][n] = c /\ content'[l] = RemoveAt(content[l], n) /\ ~thread[c].stale
    BY <1>2, <1>5 DEF RemoveNext, Modify
  <2>2. n \in DOMAIN content[l]
    BY <1>5, <2>1, Standing DEF RemoveNext, At
  <2> QED
    BY <1>5, <2>1, <2>2 DEF Removed
<1> QED
  BY <1>3, <1>4, <1>5, OneListChanges

(* What c does to a list does not change how often it names others. *)
LEMMA OthersStayCounted ==
  ASSUME NEW c \in ConnectionIds, NEW d, c # d, Types, Placed(c), Step(c), NEW l \in Lists
  PROVE  /\ Never(content[l], d) => Never(content'[l], d)
         /\ Once(content[l], d) => Once(content'[l], d)
<1>1. content[l] \in Seq(ConnectionIds)
  BY DEF Types
<1>2. CASE content'[l] = content[l]
  BY <1>2
<1>3. CASE Added(c, l)
  BY <1>1, <1>3, AppendCounts DEF Added
<1>4. CASE Removed(c, l)
  BY <1>1, <1>4, RemoveAtCounts DEF Removed
<1> QED
  BY <1>2, <1>3, <1>4, ListChanges

LEMMA OwnListed ==
  ASSUME NEW c \in ConnectionIds, Types, Placed(c), Session(c), Checked(c), ListsOfChannels,
         \A o \in Users : Subscriptions(o), Step(c), NEW ch \in Channels, ~Away(c)',
         ~Enlist(c), ~Delist(c), channelToConnectionIdsList'[ch] = channelToConnectionIdsList[ch]
  PROVE  Listed(c, ch)' <=> Listed(c, ch)
<1> USE DEF At
<1>1. CASE thread'[c].at \in Listing
  <2>1. CASE (SubscribeUser(c) \/ UnsubscribeUser(c) \/ WriteCounter(c)) /\ MovesTo(c, "find list")
    <3>1. thread'[c].at = "find list" /\ KeepsFrame(c) /\ KeepsChannel(c)
      BY <2>1 DEF MovesTo, GoesTo
    <3>2. thread[c].at \notin Listing
      BY <2>1 DEF SubscribeUser, UnsubscribeUser, WriteCounter, Listing
    <3>3. Listed(c, ch) <=> Subscribed(c, ch)
      BY <3>2 DEF Listed, Adding, Removing, ServesAt
    <3>4. Removing(c, ch)' <=> thread[c].channel = ch /\ thread[c].frame.command = "UNSUBSCRIBE"
      BY <1>1, <3>1 DEF Removing, ServesAt, KeepsFrame, KeepsChannel
    <3>5. Adding(c, ch)' <=> thread[c].channel = ch /\ thread[c].frame.command = "SUBSCRIBE"
      BY <1>1, <3>1 DEF Adding, ServesAt, KeepsFrame, KeepsChannel
    <3>6. CASE SubscribeUser(c)
      <4>1. thread[c].frame.command = "SUBSCRIBE" /\ ~Subscribed(c, thread[c].channel)
        BY <3>6 DEF SubscribeUser, Placed, Serves, Checked
      <4> QED
        BY <3>3, <3>4, <3>5, <3>6, <4>1, OwnSubscriptions DEF Listed
    <3>7. CASE UnsubscribeUser(c)
      <4>1. thread[c].frame.command = "UNSUBSCRIBE" /\ Subscribed(c, thread[c].channel)
        BY <3>7 DEF UnsubscribeUser, Placed, Serves, Checked
      <4> QED
        BY <3>3, <3>4, <3>5, <3>7, <4>1, OwnSubscriptions DEF Listed
    <3>8. CASE WriteCounter(c)
      <4>1. thread[c].frame.command = "SEND"
        BY <3>8 DEF WriteCounter, Placed, Serves, Sending
      <4>2. Subscribed(c, ch)' <=> Subscribed(c, ch)
        BY <3>8, OwnSubscriptions DEF WriteCounter, SubscribeUser, UnsubscribeUser, EndSession
      <4> QED
        BY <3>3, <3>4, <3>5, <4>1, <4>2 DEF Listed
    <3> QED
      BY <2>1, <3>6, <3>7, <3>8
  <2>2. CASE /\ FindList(c) \/ CreateList(c)
             /\ thread'[c].frame = thread[c].frame /\ thread'[c].channel = thread[c].channel
             /\ thread[c].at \in Listing
    <3>1. Subscribed(c, ch)' <=> Subscribed(c, ch)
      BY <2>2, OwnSubscriptions DEF FindList, CreateList, SubscribeUser, UnsubscribeUser, EndSession
    <3>2. ServesAt(c, ch, "SUBSCRIBE")' <=> ServesAt(c, ch, "SUBSCRIBE")
      BY <1>1, <2>2 DEF ServesAt
    <3>3. ServesAt(c, ch, "UNSUBSCRIBE")' <=> ServesAt(c, ch, "UNSUBSCRIBE")
      BY <1>1, <2>2 DEF ServesAt
    <3>4. thread[c].at # "use list"
      BY <2>2 DEF FindList, CreateList
    <3>5. thread[c].channel = ch /\ thread'[c].at = "use list"
            => thread'[c].list = channelToConnectionIdsList'[ch]
      <4>1. CASE FindList(c)
        BY <4>1, Moves
      <4>2. CASE CreateList(c)
        BY <4>2, NewList
      <4> QED
        BY <2>2, <4>1, <4>2
    <3>6. Removing(c, ch)' <=> Removing(c, ch)
      BY <2>2, <3>3, <3>4, <3>5 DEF Removing, ServesAt
    <3> QED
      BY <3>1, <3>2, <3>6 DEF Listed, Adding
  <2> QED
    BY <1>1, <2>1, <2>2, WhoComesToLists
<1>2. CASE thread'[c].at \notin Listing
  <2>1. ~SubscribeUser(c) /\ ~UnsubscribeUser(c) /\ ~EndSession(c)
    BY <1>2, NextPlaces DEF Listing, Away
  <2>2. Subscribed(c, ch)' <=> Subscribed(c, ch)
    BY <2>1, OwnSubscriptions
  <2>3. thread[c].at \in Listing => StartSending(c)
    <3>1. FindList(c) \/ CreateList(c) => thread'[c].at \in Listing
      BY NextPlaces DEF Listing
    <3> QED
      BY <1>2, <3>1 DEF Step, OwnReceive, Receive, ConnectionLost, Handle, Register, Check, Connect,
        Mark, CheckSubscribed, SubscribeUser, CheckUnsubscribed, UnsubscribeUser, CheckSender,
        TakeId, ReadCounter, WriteCounter, SendLoop, SendNext, SendTo, Disconnect, LeaveChannel,
        RemoveLoop, RemoveNext, EndSession, LogOut, Listing
  <2>4. ~Adding(c, ch) /\ ~Removing(c, ch)
    BY <2>3 DEF Adding, Removing, ServesAt, StartSending
  <2>5. ~Adding(c, ch)' /\ ~Removing(c, ch)'
    BY <1>2 DEF Adding, Removing, ServesAt
  <2> QED
    BY <2>2, <2>4, <2>5 DEF Listed
<1> QED
  BY <1>1, <1>2

(* A thread whose session is ending does not come back. *)
LEMMA AwayStays ==
  ASSUME NEW c \in ConnectionIds, Types, Step(c), Away(c)
  PROVE  Away(c)'
<1>1. Disconnect(c) \/ LeaveChannel(c) \/ Unlisting(c) \/ EndSession(c) \/ LogOut(c)
  BY DEF Step, OwnReceive, Receive, ConnectionLost, Handle, Register, Check, Connect, Mark,
    FindList, CreateList, CheckSubscribed, SubscribeUser, Enlist, CheckUnsubscribed,
    UnsubscribeUser, Delist, CheckSender, TakeId, ReadCounter, WriteCounter, StartSending,
    SendLoop, SendNext, SendTo, Unlisting, Away, Leaving, At
<1> QED
  BY <1>1, NextPlaces DEF Unlisting, Away, Leaving

(* A list that has just been put into the map is empty, and its channel is not old. *)
LEMMA NewListIsExact ==
  ASSUME NEW c \in ConnectionIds, Types, Placed(c), ListAtHand(c), CreateList(c),
         NEW d \in ConnectionIds
  PROVE  \A ch \in Channels : ch = thread[c].channel => Exact(d, ch)'
<1>1. ASSUME NEW ch \in Channels, ch = thread[c].channel PROVE Exact(d, ch)'
  <2>1. channelToConnectionIdsList'[ch] = <<c, ch>>
    BY <1>1, NewList
  <2>2. content'[<<c, ch>>] = <<>>
    BY <1>1, NewList DEF ListAtHand, Unused
  <2>3. Never(content'[<<c, ch>>], d)
    BY <2>2 DEF Never
  <2>4. ch \notin OldChannels'
    BY <2>1, NoConnectionIsNull DEF OldChannels
  <2> QED
    BY <2>1, <2>3, <2>4 DEF Exact
<1> QED
  BY <1>1

LEMMA OthersExact ==
  ASSUME NEW c \in ConnectionIds, NEW d \in ConnectionIds, c # d,
         Types, Placed(c), Turns, Session(c), Session(d), Registered, ListAtHand(c), Step(c),
         NEW ch \in Channels, Exact(d, ch),
         channelToConnectionIdsList'[ch] = channelToConnectionIdsList[ch]
  PROVE  Exact(d, ch)'
<1> DEFINE l == channelToConnectionIdsList[ch]
<1>1. Untouched(d)
  BY StepIsLocal
<1>2. Subscribed(d, ch)' <=> Subscribed(d, ch)
  BY OthersSubscriptions
<1>3. Listed(d, ch)' <=> Listed(d, ch)
  BY <1>1, <1>2 DEF Listed, Adding, Removing, ServesAt, Untouched, At
<1>4. Away(d)' <=> Away(d)
  BY <1>1 DEF Away, Untouched
<1>5. OldChannels' = OldChannels
  BY OldChannelsStay
<1>6. CASE Mapped(ch)
  <2>1. l \in Lists
    BY <1>6 DEF Mapped, Types, OrNull
  <2>2. /\ Never(content[l], d) => Never(content'[l], d)
        /\ Once(content[l], d) => Once(content'[l], d)
    BY <2>1, OthersStayCounted
  <2> QED
    BY <1>3, <1>4, <1>5, <1>6, <2>2 DEF Exact, Mapped
<1>7. CASE ~Mapped(ch)
  BY <1>7 DEF Exact, Mapped
<1> QED
  BY <1>6, <1>7

LEMMA OwnExact ==
  ASSUME NEW c \in ConnectionIds, Types, Placed(c), Session(c), Checked(c), ListsOfChannels,
         ListAtHand(c), \A o \in Users : Subscriptions(o), Step(c),
         NEW ch \in Channels, Exact(c, ch),
         channelToConnectionIdsList'[ch] = channelToConnectionIdsList[ch]
  PROVE  Exact(c, ch)'
<1> DEFINE l == channelToConnectionIdsList[ch]
<1> SUFFICES ASSUME Mapped(ch), ~Away(c)' PROVE Exact(c, ch)'
  BY DEF Exact, Mapped
<1>1. l \in Lists /\ l[2] = ch /\ content[l] \in Seq(ConnectionIds)
  BY DEF Mapped, Types, OrNull, ListsOfChannels
<1>2. \/ Listed(c, ch) /\ Once(content[l], c)
      \/ Never(content[l], c) /\ ~(Listed(c, ch) /\ ch \in OldChannels)
  BY AwayStays DEF Exact
<1>3. OldChannels' = OldChannels
  BY OldChannelsStay
<1>4. ASSUME \/ Listed(c, ch)' /\ Once(content'[l], c)
             \/ Never(content'[l], c) /\ ~(Listed(c, ch)' /\ ch \in OldChannels)
      PROVE  Exact(c, ch)'
  BY <1>3, <1>4 DEF Exact
<1>5. CASE Enlist(c) \/ Delist(c)
  <2> DEFINE ch0 == thread[c].channel
  <2>1. /\ At(c, "use list") /\ thread[c].at \in Listing
        /\ thread'[c].at = "read"
        /\ Enlist(c) => thread[c].frame.command = "SUBSCRIBE"
        /\ Delist(c) => thread[c].frame.command = "UNSUBSCRIBE"
    BY <1>5, NextPlaces DEF Enlist, Delist, Listing, At
  <2>2. Subscribed(c, ch)' <=> Subscribed(c, ch)
    BY <2>1, OwnSubscriptions DEF SubscribeUser, UnsubscribeUser, EndSession, At
  <2>3. Listed(c, ch)' <=> Subscribed(c, ch)
    BY <2>1, <2>2 DEF Listed, Adding, Removing, ServesAt, Listing
  <2>4. CASE ch # ch0
    <3>1. Listed(c, ch) <=> Subscribed(c, ch)
      BY <2>4 DEF Listed, Adding, Removing, ServesAt
    <3>2. thread[c].list[2] = ch0
      BY <2>1 DEF ListAtHand, At
    <3>3. content'[l] = content[l]
      BY <1>1, <2>4, <3>2, OneListChanges
    <3> QED
      BY <1>2, <1>4, <2>3, <3>1, <3>3
  <2>5. CASE ch = ch0 /\ Enlist(c)
    <3>1. Subscribed(c, ch)
      BY <2>1, <2>5 DEF Checked, Adding, ServesAt
    <3>2. ~Listed(c, ch)
      BY <2>1, <2>5 DEF Listed, Adding, Removing, ServesAt
    <3>3. Never(content[l], c)
      BY <1>2, <3>2
    <3>4. CASE thread[c].list = l
      <4>1. content'[l] = Append(content[l], c)
        BY <1>1, <2>5, <3>4, ListChanges DEF Added
      <4>2. Once(content'[l], c)
        BY <1>1, <3>3, <4>1, AppendCounts
      <4> QED
        BY <1>4, <2>3, <3>1, <4>2
    <3>5. CASE thread[c].list # l
      <4>1. content'[l] = content[l]
        BY <1>1, <3>5, OneListChanges
      <4>2. ch \notin OldChannels
        BY <2>1, <2>5, <3>5 DEF ListAtHand, OldChannels, At
      <4> QED
        BY <1>4, <3>3, <4>1, <4>2
    <3> QED
      BY <3>4, <3>5
  <2>6. CASE ch = ch0 /\ Delist(c)
    <3>1. ~Subscribed(c, ch)
      BY <2>1, <2>6 DEF Checked, ServesAt
    <3>2. Listed(c, ch) => thread[c].list = l
      BY <2>1, <3>1 DEF Listed, Removing
    <3>3. CASE Never(content[l], c)
      <4>1. ~Contains(content[l], c)
        BY <1>1, <3>3 DEF Never, Contains
      <4>2. content'[l] = content[l]
        BY <1>1, <2>6, <4>1, ListChanges, OneListChanges
      <4> QED
        BY <1>4, <2>3, <3>1, <3>3, <4>2
    <3>4. CASE Listed(c, ch) /\ Once(content[l], c)
      <4>1. Contains(content[l], c)
        BY <1>1, <3>4 DEF Once, Contains
      <4>2. Removed(c, l)
        BY <1>1, <2>6, <3>2, <3>4, <4>1, ListChanges
      <4>3. Never(content'[l], c)
        BY <1>1, <3>4, <4>2, RemoveAtCounts DEF Removed
      <4> QED
        BY <1>4, <2>3, <3>1, <4>3
    <3> QED
      BY <1>2, <3>3, <3>4
  <2> QED
    BY <1>5, <2>4, <2>5, <2>6
<1>6. CASE ~Enlist(c) /\ ~Delist(c)
  <2>1. Listed(c, ch)' <=> Listed(c, ch)
    BY <1>6, OwnListed
  <2>2. ~RemoveNext(c)
    BY NextPlaces DEF Away, Leaving
  <2>3. content'[l] = content[l]
    BY <1>1, <1>6, <2>2, OneListChanges
  <2> QED
    BY <1>2, <1>4, <2>1, <2>3
<1> QED
  BY <1>5, <1>6

LEMMA ExactHolds ==
  ASSUME NEW c \in ConnectionIds, IInv, Step(c)
  PROVE  (\A d \in ConnectionIds, ch \in Channels : Exact(d, ch))'
<1>1. ASSUME NEW d \in ConnectionIds, NEW ch \in Channels PROVE Exact(d, ch)'
  <2>1. CASE CreateList(c) /\ ch = thread[c].channel
    BY <2>1, NewListIsExact DEF IInv
  <2>2. CASE channelToConnectionIdsList'[ch] = channelToConnectionIdsList[ch]
    BY <2>2, OthersExact, OwnExact DEF IInv
  <2>3. \/ CreateList(c) /\ ch = thread[c].channel
        \/ channelToConnectionIdsList'[ch] = channelToConnectionIdsList[ch]
    BY NewList, WhoWrites DEF IInv
  <2> QED
    BY <2>1, <2>2, <2>3
<1> QED
  BY <1>1

-----------------------------------------------------------------------------
(***************************************************************************)
(* The invariant                                                           *)
(***************************************************************************)
LEMMA InitIInv == Init => IInv
<1> SUFFICES ASSUME Init PROVE IInv
  OBVIOUS
<1>1. /\ connectionIdToUsername = [c \in ConnectionIds |-> Null]
      /\ usernameToUser = [u \in Usernames |-> Null]
      /\ passcode = [o \in Users |-> Null]
      /\ isConnected = [o \in Users |-> FALSE]
      /\ subscriptionIdToChannel = [o \in Users |-> [i \in SubscriptionIds |-> Null]]
      /\ channelToSubscriptionId = [o \in Users |-> [ch \in Channels |-> Null]]
      /\ content = [l \in Lists |-> <<>>]
      /\ nextMessageId = 0
      /\ thread = [c \in ConnectionIds |-> Thread("read")]
  BY DEF Init
<1>2. PICK old \in SUBSET Channels :
        channelToConnectionIdsList = [ch \in Channels |-> IF ch \in old THEN <<Null, ch>> ELSE Null]
  BY DEF Init
<1>3. \A c \in ConnectionIds :
        /\ thread[c].at = "read" /\ thread[c].list = Null /\ thread[c].channels = {}
        /\ connectionIdToUsername[c] = Null
  BY <1>1 DEF Thread
<1>4. \A ch \in Channels : <<Null, ch>> \in Lists
  BY DEF Lists, OrNull
<1>5. \A ch \in Channels : channelToConnectionIdsList[ch] \in {<<Null, ch>>, Null}
  BY <1>2
<1>6. Types
  <2>1. thread \in [ConnectionIds -> ThreadRecord]
    BY <1>1, FreshThread DEF Locations
  <2>2. channelToConnectionIdsList \in [Channels -> OrNull(Lists)]
    BY <1>2, <1>4 DEF OrNull
  <2>3. content \in [Lists -> Seq(ConnectionIds)]
    BY <1>1
  <2>4. /\ subscriptionIdToChannel \in [Users -> [SubscriptionIds -> OrNull(Channels)]]
        /\ channelToSubscriptionId \in [Users -> [Channels -> OrNull(SubscriptionIds)]]
    BY <1>1 DEF OrNull
  <2>5. /\ connectionIdToUsername \in [ConnectionIds -> OrNull(Usernames)]
        /\ usernameToUser \in [Usernames -> OrNull(Users)]
        /\ passcode \in [Users -> OrNull(Passcodes)]
        /\ isConnected \in [Users -> BOOLEAN]
    BY <1>1 DEF OrNull
  <2> QED
    BY <1>1, <2>1, <2>2, <2>3, <2>4, <2>5 DEF Types
<1>7. \A c \in ConnectionIds : Placed(c) /\ Session(c) /\ ListAtHand(c)
  BY <1>3 DEF Placed, Session, ListAtHand, Login, Sending, Listing, Leaving, Working, At
<1>8. Turns
  BY <1>3 DEF Turns, Idle, Keeps, At
<1>9. Registered
  BY <1>1 DEF Registered
<1>10. \A o \in Users : ConnectedUser(o) /\ Subscriptions(o)
  BY <1>1 DEF ConnectedUser, Subscriptions, ChannelsOf
<1>11. \A c \in ConnectionIds, ch \in Channels :
         ~Subscribed(c, ch) /\ ~Adding(c, ch) /\ ~Removing(c, ch)
  BY <1>3 DEF Subscribed, Adding, Removing, ServesAt, Listing
<1>12. \A c \in ConnectionIds : Checked(c)
  BY <1>3 DEF Checked, Adding, ServesAt, Listing, At
<1>13. \A c \in ConnectionIds : HasList(c)
  BY <1>3, <1>11 DEF HasList
<1>14. ListsOfChannels
  <2>1. \A ch \in Channels : \A x \in OrNull(ConnectionIds) :
          <<x, ch>> \in Lists /\ <<x, ch>> # Null
    BY ObjectsAssumption DEF Lists
  <2>2. \A l \in Lists : content[l] = <<>>
    BY <1>1
  <2>3. \A ch \in Channels : \A x \in OrNull(ConnectionIds) : Unused(<<x, ch>>)
    BY <1>3, <2>1, <2>2 DEF Unused
  <2>4. \A ch \in Channels : Mapped(ch) => channelToConnectionIdsList[ch] = <<Null, ch>>
    BY <1>5 DEF Mapped
  <2> QED
    BY <2>3, <2>4 DEF ListsOfChannels
<1>15. \A c \in ConnectionIds, ch \in Channels : Exact(c, ch)
  <2>1. \A ch \in Channels : Mapped(ch) => content[channelToConnectionIdsList[ch]] = <<>>
    BY <1>1, <1>4, <1>5 DEF Mapped
  <2>2. \A c \in ConnectionIds : Never(<<>>, c)
    BY DEF Never
  <2> QED
    BY <1>11, <2>1, <2>2 DEF Exact, Listed
<1> QED
  BY <1>6, <1>7, <1>8, <1>9, <1>10, <1>12, <1>13, <1>14, <1>15 DEF IInv

LEMMA StepIInv ==
  ASSUME NEW c \in ConnectionIds, IInv, Step(c)
  PROVE  IInv'
<1>1. /\ Types /\ Turns /\ Registered /\ ListsOfChannels
      /\ \A d \in ConnectionIds : Placed(d)
      /\ \A d \in ConnectionIds : Session(d)
      /\ \A d \in ConnectionIds : Checked(d)
      /\ \A d \in ConnectionIds : HasList(d)
      /\ \A d \in ConnectionIds : ListAtHand(d)
      /\ \A o \in Users : ConnectedUser(o)
      /\ \A o \in Users : Subscriptions(o)
  BY DEF IInv
<1>2. Types' /\ Placed(c)'
  BY <1>1, TypesHold, OwnPlace
<1>3. (\A d \in ConnectionIds : Placed(d))'
  BY <1>1, PlacesHold
<1>4. Turns'
  BY <1>1, TurnsHold
<1>5. (\A d \in ConnectionIds : Session(d))'
  BY <1>1, SessionsHold
<1>6. Registered'
  BY <1>1, RegisteredHolds
<1>7. (\A o \in Users : ConnectedUser(o))'
  BY <1>1, ConnectedUsersHold
<1>8. (\A o \in Users : Subscriptions(o))'
  BY <1>1, SubscriptionsHold
<1>9. (\A d \in ConnectionIds : Checked(d))'
  BY <1>1, ChecksHold
<1>10. (\A d \in ConnectionIds : HasList(d))'
  BY <1>1, ChannelListsHold
<1>11. ListsOfChannels'
  BY <1>1, ListsOfChannelsHold
<1>12. (\A d \in ConnectionIds : ListAtHand(d))'
  BY <1>1, ListsAtHandHold
<1>13. (\A d \in ConnectionIds, ch \in Channels : Exact(d, ch))'
  BY ExactHolds
<1> QED
  BY <1>2, <1>3, <1>4, <1>5, <1>6, <1>7, <1>8, <1>9, <1>10, <1>11, <1>12, <1>13 DEF IInv

LEMMA NextIsAStep ==
  ASSUME OwnNameNext
  PROVE  \E c \in ConnectionIds : Step(c)
BY DEF OwnNameNext, Step, OwnReceive

LEMMA StutterIInv ==
  ASSUME IInv, UNCHANGED vars
  PROVE  IInv'
<1> USE DEF vars, sharedVars, userVars, listVars
<1>1. Types'
  BY DEF IInv, Types
<1>2. \A c \in ConnectionIds : Placed(c)' /\ Session(c)'
  BY DEF IInv, Placed, HasNext, Serves, Session, OwnUser, At
<1>3. Turns' /\ Registered'
  BY DEF IInv, Turns, Idle, Keeps, Registered, At
<1>4. \A o \in Users : ConnectedUser(o)' /\ Subscriptions(o)'
  BY DEF IInv, ConnectedUser, Keeps, Subscriptions, ChannelsOf, At
<1>5. \A c \in ConnectionIds : Checked(c)' /\ HasList(c)'
  BY DEF IInv, Checked, HasList, Subscribed, ChannelsOf, UserOf, Adding, ServesAt, Mapped, At
<1>6. ListsOfChannels' /\ \A c \in ConnectionIds : ListAtHand(c)'
  BY DEF IInv, ListsOfChannels, ListAtHand, Mapped, Unused, OldChannels, At
<1>7. \A c \in ConnectionIds, ch \in Channels : Exact(c, ch)'
  BY DEF IInv, Exact, Mapped, Away, Listed, Subscribed, ChannelsOf, UserOf, Adding, Removing,
    ServesAt, OldChannels, At
<1> QED
  BY <1>1, <1>2, <1>3, <1>4, <1>5, <1>6, <1>7 DEF IInv

(* The inductive invariant holds however the handlers interleave. *)
THEOREM Invariance == OwnNameSpec => []IInv
<1>1. IInv /\ [OwnNameNext]_vars => IInv'
  BY StepIInv, StutterIInv, NextIsAStep
<1> QED
  BY <1>1, InitIInv, PTL DEF OwnNameSpec

(***************************************************************************)
(* What follows                                                            *)
(***************************************************************************)
LEMMA IInvTypes == IInv => TypeOK
BY DEF IInv, Types, TypeOK, Iterating, Placed, At

LEMMA IInvSessions == IInv => SessionsMatchUsers
<1> SUFFICES ASSUME IInv PROVE SessionsMatchUsers
  OBVIOUS
<1>1. ASSUME NEW c \in ConnectionIds, At(c, "read"), connectionIdToUsername[c] # Null
      PROVE  connectionIdToUsername[c] = NameOf[c] /\ isConnected[UserOf(c)]
  <2>1. Types /\ Session(c)
    BY DEF IInv
  <2>2. UserOf(c) = OwnUser(c)
    BY <1>1, <2>1, UserIsOwn
  <2> QED
    BY <1>1, <2>1, <2>2 DEF Session, At
<1>2. ASSUME NEW o \in Users, isConnected[o]
      PROVE  /\ usernameToUser[o[2]] = o
             /\ \E c \in ConnectionIds : connectionIdToUsername[c] = o[2] \/ At(c, "log out")
  <2>1. ConnectedUser(o)
    BY DEF IInv
  <2>2. PICK c \in ConnectionIds : NameOf[c] = o[2] /\ Keeps(c)
    BY <1>2, <2>1 DEF ConnectedUser
  <2>3. connectionIdToUsername[c] # Null => connectionIdToUsername[c] = NameOf[c]
    BY DEF IInv, Session
  <2> QED
    BY <1>2, <2>1, <2>2, <2>3 DEF ConnectedUser, Keeps
<1> QED
  BY <1>1, <1>2 DEF SessionsMatchUsers

LEMMA IInvLists == IInv => SubscribedChannelsHaveAList
BY DEF IInv, HasList, Mapped, SubscribedChannelsHaveAList, At

LEMMA Occurrences ==
  ASSUME NEW S, NEW s \in Seq(S), NEW x
  PROVE  LET places == {k \in DOMAIN s : s[k] = x} IN
         /\ Once(s, x) => Cardinality(places) = 1
         /\ Never(s, x) => Cardinality(places) = 0
<1> DEFINE places == {k \in DOMAIN s : s[k] = x}
<1>1. ASSUME Once(s, x) PROVE Cardinality(places) = 1
  <2>1. PICK k : places = {k}
    BY <1>1 DEF Once
  <2> QED
    BY <2>1, FS_Singleton
<1>2. ASSUME Never(s, x) PROVE Cardinality(places) = 0
  <2>1. places = {}
    BY <1>2 DEF Never
  <2> QED
    BY <2>1, FS_EmptySet
<1> QED
  BY <1>1, <1>2

LEMMA IInvExact == IInv => ListsAreExact
<1> SUFFICES ASSUME IInv, NEW c \in ConnectionIds, NEW ch \in OldChannels, At(c, "read")
             PROVE  Cardinality({k \in DOMAIN content[<<Null, ch>>] : content[<<Null, ch>>][k] = c}) =
                      IF Subscribed(c, ch) THEN 1 ELSE 0
  BY DEF ListsAreExact
<1>1. /\ ch \in Channels /\ channelToConnectionIdsList[ch] = <<Null, ch>>
      /\ <<Null, ch>> \in Lists
  BY DEF OldChannels, Lists, OrNull
<1>2. Mapped(ch) /\ ~Away(c)
  BY <1>1, ObjectsAssumption DEF Mapped, Away, Leaving, At
<1>3. Listed(c, ch) <=> Subscribed(c, ch)
  BY DEF Listed, Adding, Removing, ServesAt, Listing, At
<1>4. Exact(c, ch)
  BY <1>1 DEF IInv
<1>5. \/ Subscribed(c, ch) /\ Once(content[<<Null, ch>>], c)
      \/ ~Subscribed(c, ch) /\ Never(content[<<Null, ch>>], c)
  BY <1>1, <1>2, <1>3, <1>4 DEF Exact
<1>6. content[<<Null, ch>>] \in Seq(ConnectionIds)
  BY <1>1 DEF IInv, Types
<1> QED
  BY <1>5, <1>6, Occurrences

(* Whoever a current list names between two frames is subscribed to its channel. *)
LEMMA AddresseeIsSubscribed ==
  ASSUME IInv, NEW c \in ConnectionIds, NEW d \in ConnectionIds, SendNext(c), At(c, "send_to")',
         thread'[c].addressee = d,
         thread[c].list = channelToConnectionIdsList[thread[c].channel],
         At(d, "read")
  PROVE  Subscribed(d, thread[c].channel)
<1> DEFINE l == thread[c].list
           ch == thread[c].channel
           n == thread[c].next
<1>1. Types /\ Placed(c) /\ At(c, "send_next")
  BY DEF IInv, SendNext
<1>2. ch \in Channels /\ l \in Lists /\ l # Null
  <2>1. thread[c].at = "send_next"
    BY <1>1 DEF At
  <2>2. ch \in Channels /\ l \in Lists
    BY <1>1, <2>1 DEF Placed, Sending
  <2> QED
    BY <2>2, ObjectsAssumption
<1>3. ~thread[c].stale /\ d = content[l][n]
  <2>1. thread'[c].at = "send_to" /\ SendNext(c) /\ Types
    BY <1>1 DEF At
  <2>2. ~StartsAt(c, "closed")
    BY <2>1, StartFields
  <2> QED
    BY <2>1, <2>2, Moves
<1>4. n \in DOMAIN content[l]
  BY <1>1, <1>3, Standing DEF At
<1>5. ~Never(content[l], d)
  BY <1>3, <1>4 DEF Never
<1>6. Exact(d, ch) /\ Mapped(ch) /\ ~Away(d)
  BY <1>2 DEF IInv, Mapped, Away, Leaving, At
<1>7. Listed(d, ch)
  BY <1>5, <1>6 DEF Exact
<1> QED
  BY <1>7 DEF Listed, Removing, ServesAt, Listing, At

(* Users who log in under their own name on one connection at a time keep to the types,
   with their handlers interleaved in any way. *)
THEOREM TypeCorrect == OwnNameSpec => []TypeOK
BY Invariance, IInvTypes, PTL

(* For such users sessions and connected users match: a session is under its user's own
   name and of a User marked connected, and a marked User is somebody's. *)
THEOREM SessionsAndUsersMatch == OwnNameSpec => []SessionsMatchUsers
BY Invariance, IInvSessions, PTL

(* For such users disconnect finds a list for each channel it leaves. *)
THEOREM ListsAreThere == OwnNameSpec => []SubscribedChannelsHaveAList
BY Invariance, IInvLists, PTL

(* For such users a list that was there from the start holds each subscriber exactly
   once, and nobody else. *)
THEOREM OldListsAreExact == OwnNameSpec => []ListsAreExact
BY Invariance, IInvExact, PTL

(* For such users the loop over a channel's present list never takes as its next
   addressee one who has finished leaving the channel. *)
THEOREM AddresseesSubscribed == OwnNameSpec => AddresseesAreSubscribed
<1> DEFINE Chosen == \A c, d \in ConnectionIds :
              /\ At(c, "send_next") /\ At(c, "send_to")'
              /\ thread'[c].addressee = d
              /\ thread[c].list = channelToConnectionIdsList[thread[c].channel]
              /\ At(d, "read")
              => Subscribed(d, thread[c].channel)
<1>1. IInv /\ [OwnNameNext]_vars => [Chosen]_vars
  <2> SUFFICES ASSUME IInv, OwnNameNext PROVE Chosen
    OBVIOUS
  <2>1. PICK a \in ConnectionIds : Step(a)
    BY NextIsAStep
  <2>2. Types
    BY DEF IInv
  <2>3. ASSUME NEW c \in ConnectionIds, NEW d \in ConnectionIds,
               At(c, "send_next"), At(c, "send_to")', thread'[c].addressee = d,
               thread[c].list = channelToConnectionIdsList[thread[c].channel],
               At(d, "read")
        PROVE  Subscribed(d, thread[c].channel)
    <3>1. c = a
      BY <2>1, <2>2, <2>3, StepIsLocal DEF Untouched, At
    <3>2. SendNext(c)
      BY <2>1, <2>3, <3>1 DEF Step, OwnReceive, Receive, ConnectionLost, Handle, Register, Check,
        Connect, Mark, FindList, CreateList, CheckSubscribed, SubscribeUser, Enlist,
        CheckUnsubscribed, UnsubscribeUser, Delist, CheckSender, TakeId, ReadCounter,
        WriteCounter, StartSending, SendLoop, SendTo, Disconnect, LeaveChannel, RemoveLoop,
        RemoveNext, EndSession, LogOut, At
    <3> QED
      BY <2>3, <3>2, AddresseeIsSubscribed
  <2> QED
    BY <2>3
<1> QED
  BY <1>1, Invariance, PTL DEF OwnNameSpec, AddresseesAreSubscribed
==============================================================================
