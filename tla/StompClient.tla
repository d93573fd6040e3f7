------------------------------ MODULE StompClient ------------------------------
(***************************************************************************)
(* The terminal client: main() at its prompt, and for each session the     *)
(* keyboard listener and the server listener, two threads that share the   *)
(* protocol object and a flag without a lock.                              *)
(*                                                                         *)
(* The reports received and what summary makes of them are left out; the   *)
(* bodies of frames are not modelled, and nothing else depends on them.    *)
(***************************************************************************)
EXTENDS Frames

CONSTANTS
  Sockets,   \* the sockets the client may open, one per session
  Lines,           \* what the user may type, a set of KeyboardLines
  MaxLines         \* bound: lines typed

(* The id an exit names for a game the client has no id for *)
Unknown == -1

KeyboardLines ==
       [command : {"login"}, user : Usernames, passcode : Passcodes]
  \cup [command : {"join", "exit"}, game : Channels]
  \cup [command : {"report"}, game : Channels, events : Nat]
  \cup [command : {"logout", "summary", "other"}]

ASSUME LinesAssumption == Lines \subseteq KeyboardLines

ASSUME CountersAssumption ==
  /\ MaxLines \in Nat
  /\ Unknown .. MaxLines - 1 \subseteq SubscriptionIds
  /\ 0 .. MaxLines - 1 \subseteq ReceiptIds

VARIABLES
  program,                          \* main(): "prompt", "answer", "session" or "ended"
  connection,                       \* the connection of the session, or Null
  (* the two threads *)
  keyboard,                         \* where runKeyBoardListener is
  line,                             \* the line it handles
  framesAsStringsQ,                 \* the frames it has yet to send
  listener,                         \* runServerListener: "read" or "done"
  keyBoardListenerShouldTerminate,
  (* the protocol object *)
  nextSubscriptionId,
  nextRecieptNumber,
  gameNameToSubscriptionId,
  receiptIdToPrintMessage,
  (* the socket, and the user *)
  toServer,
  toClient,
  typed                             \* how many lines were typed

protocolVars == <<nextSubscriptionId, nextRecieptNumber, gameNameToSubscriptionId,
                  receiptIdToPrintMessage>>
keyboardVars == <<keyboard, line, framesAsStringsQ>>
socketVars   == <<toServer, toClient>>
clientVars   == <<program, connection, keyboardVars, listener,
                  keyBoardListenerShouldTerminate, protocolVars, socketVars, typed>>

NoIds == [g \in Channels |-> Null]
NoMessages == [r \in ReceiptIds |-> Null]

ClientInit ==
  /\ program = "prompt"
  /\ connection = Null
  /\ keyboard = "test"
  /\ line = Null
  /\ framesAsStringsQ = <<>>
  /\ listener = "read"
  /\ keyBoardListenerShouldTerminate = FALSE
  /\ nextSubscriptionId = 0
  /\ nextRecieptNumber = 0
  /\ gameNameToSubscriptionId = NoIds
  /\ receiptIdToPrintMessage = NoMessages
  /\ toServer = [c \in Sockets |-> <<>>]
  /\ toClient = [c \in Sockets |-> <<>>]
  /\ typed = 0

-----------------------------------------------------------------------------
(* Frames and maps *)

Frame(command, headers, receipt) ==
  [command |-> command, headers |-> headers, receipt_id |-> receipt, receipt |-> Null]

With(frame, header, value) ==
  [h \in DOMAIN frame \cup {header} |-> IF h = header THEN value ELSE frame[h]]

ConnectFrame(l) ==
  [command |-> "CONNECT", headers |-> ConnectHeaders,
   version |-> "1.2", host |-> "stomp.cs.bgu.ac.il", login |-> l.user,
   passcode |-> l.passcode, receipt_id |-> Null, receipt |-> Null]

WrongFrame == Frame("WRONG-COMMAND", {}, Null)

(* map::emplace does nothing when the key is there. *)
Emplace(map, key, value) == IF map[key] = Null THEN [map EXCEPT ![key] = value] ELSE map

Joined == "Joined channel"
Exited == "Exited channel"
LoggedOut == "Logout succesfuly"

ASSUME ClientNullAssumption == Null \notin Sockets /\ Null \notin {Joined, Exited, LoggedOut}

(* getNextRecieptNumber, and the message for that receipt *)
ExpectReceipt(message) ==
  /\ nextRecieptNumber' = nextRecieptNumber + 1
  /\ receiptIdToPrintMessage' = Emplace(receiptIdToPrintMessage, nextRecieptNumber, message)

-----------------------------------------------------------------------------
(* main() *)

(* A login line at the prompt: a new handler with a new protocol object connects and
   sends CONNECT. *)
LogIn(l, c) ==
  /\ program = "prompt"
  /\ typed < MaxLines
  /\ l.command = "login"
  /\ program' = "answer"
  /\ connection' = c
  /\ keyboard' = "test" /\ line' = Null /\ framesAsStringsQ' = <<>>
  /\ listener' = "read"
  /\ keyBoardListenerShouldTerminate' = FALSE
  /\ nextSubscriptionId' = 0 /\ nextRecieptNumber' = 0
  /\ gameNameToSubscriptionId' = NoIds
  /\ receiptIdToPrintMessage' = NoMessages
  /\ toServer' = [toServer EXCEPT ![c] = <<ConnectFrame(l)>>]
  /\ typed' = typed + 1
  /\ UNCHANGED toClient

(* Any other line ends the program. *)
Quit(l) ==
  /\ program = "prompt"
  /\ typed < MaxLines
  /\ l.command # "login"
  /\ program' = "ended"
  /\ typed' = typed + 1
  /\ UNCHANGED <<connection, keyboardVars, listener, keyBoardListenerShouldTerminate,
                 protocolVars, socketVars>>

(* The answer to CONNECT: the two threads start, or the program ends. *)
Answer ==
  LET f == Head(toClient[connection]) IN
  /\ program = "answer"
  /\ toClient[connection] # <<>>
  /\ toClient' = [toClient EXCEPT ![connection] = Tail(@)]
  /\ \/ /\ f.command = "CONNECTED"
        /\ program' = "session"
        /\ UNCHANGED connection
     \/ /\ f.command # "CONNECTED"
        /\ program' = "ended"
        /\ connection' = Null
  /\ UNCHANGED <<keyboardVars, listener, keyBoardListenerShouldTerminate, protocolVars,
                 toServer, typed>>

(* Both threads are joined; the handler is destroyed, which closes the socket. *)
Join ==
  /\ program = "session"
  /\ keyboard = "done"
  /\ listener = "done"
  /\ program' = "prompt"
  /\ connection' = Null
  /\ UNCHANGED <<keyboardVars, listener, keyBoardListenerShouldTerminate, protocolVars,
                 socketVars, typed>>

-----------------------------------------------------------------------------
(* runKeyBoardListener *)

At(place) == program = "session" /\ keyboard = place

(* The loop's condition *)
Test ==
  /\ At("test")
  /\ keyboard' = IF keyBoardListenerShouldTerminate THEN "done" ELSE "getline"
  /\ UNCHANGED <<program, connection, line, framesAsStringsQ, listener,
                 keyBoardListenerShouldTerminate, protocolVars, socketVars, typed>>

GetLine(l) ==
  /\ At("getline")
  /\ typed < MaxLines
  /\ typed' = typed + 1
  /\ line' = l
  /\ keyboard' = "process"
  /\ UNCHANGED <<program, connection, framesAsStringsQ, listener,
                 keyBoardListenerShouldTerminate, protocolVars, socketVars>>

(* Mutant: the counter is not incremented. *)
ProcessJoinReusingId ==
  LET i == nextSubscriptionId
      f == Frame("SUBSCRIBE", SubscribeHeaders, nextRecieptNumber)
  IN
  /\ line.command = "join"
  /\ gameNameToSubscriptionId' = Emplace(gameNameToSubscriptionId, line.game, i)
  /\ ExpectReceipt(Joined)
  /\ framesAsStringsQ' = <<With(With(f, "destination", line.game), "id", i)>>
  /\ UNCHANGED nextSubscriptionId

ProcessJoin ==
  LET i == nextSubscriptionId
      f == Frame("SUBSCRIBE", SubscribeHeaders, nextRecieptNumber)
  IN
  /\ line.command = "join"
  /\ nextSubscriptionId' = i + 1
  /\ gameNameToSubscriptionId' = Emplace(gameNameToSubscriptionId, line.game, i)
  /\ ExpectReceipt(Joined)
  /\ framesAsStringsQ' = <<With(With(f, "destination", line.game), "id", i)>>

(* Mutant: an absent id is sent as it is. *)
ProcessExitUnchecked ==
  LET f == Frame("UNSUBSCRIBE", UnsubscribeHeaders, nextRecieptNumber) IN
  /\ line.command = "exit"
  /\ ExpectReceipt(Exited)
  /\ framesAsStringsQ' = <<With(f, "id", gameNameToSubscriptionId[line.game])>>
  /\ UNCHANGED <<nextSubscriptionId, gameNameToSubscriptionId>>

(* operator[] leaves an empty id behind for a game it does not find.  The empty id and
   the one sent for it are not told apart by anything. *)
ProcessExit ==
  LET f == Frame("UNSUBSCRIBE", UnsubscribeHeaders, nextRecieptNumber) IN
  /\ line.command = "exit"
  /\ gameNameToSubscriptionId' = Emplace(gameNameToSubscriptionId, line.game, Unknown)
  /\ ExpectReceipt(Exited)
  /\ framesAsStringsQ' = <<With(f, "id", gameNameToSubscriptionId'[line.game])>>
  /\ UNCHANGED nextSubscriptionId

ProcessLogout ==
  /\ line.command = "logout"
  /\ ExpectReceipt(LoggedOut)
  /\ framesAsStringsQ' = <<Frame("DISCONNECT", {}, nextRecieptNumber)>>
  /\ UNCHANGED <<nextSubscriptionId, gameNameToSubscriptionId>>

(* Lines that leave the protocol object alone *)
ProcessOther ==
  /\ \/ line.command = "login" /\ framesAsStringsQ' = <<ConnectFrame(line)>>
     \/ /\ line.command = "report"
        /\ framesAsStringsQ' =
             [k \in 1 .. line.events |->
                With(Frame("SEND", SendHeaders, Null), "destination", line.game)]
     \/ line.command = "summary" /\ framesAsStringsQ' = <<>>
     \/ line.command = "other" /\ framesAsStringsQ' = <<WrongFrame>>
  /\ UNCHANGED protocolVars

(* processFromKB *)
Process ==
  /\ At("process")
  /\ ProcessJoin \/ ProcessExit \/ ProcessLogout \/ ProcessOther
  /\ keyboard' = "processed"
  /\ UNCHANGED <<program, connection, line, listener, keyBoardListenerShouldTerminate,
                 socketVars, typed>>

(* processFromKB returns. *)
Processed ==
  /\ At("processed")
  /\ keyboard' = "send"
  /\ UNCHANGED <<program, connection, line, framesAsStringsQ, listener,
                 keyBoardListenerShouldTerminate, protocolVars, socketVars, typed>>

(* The inner loop's condition *)
TestSend ==
  /\ At("send")
  /\ \/ /\ framesAsStringsQ # <<>>
        /\ ~keyBoardListenerShouldTerminate
        /\ keyboard' = "write"
        /\ UNCHANGED <<line, framesAsStringsQ>>
     \/ /\ framesAsStringsQ = <<>> \/ keyBoardListenerShouldTerminate
        /\ keyboard' = "test"
        /\ framesAsStringsQ' = <<>>
        /\ line' = Null
  /\ UNCHANGED <<program, connection, listener, keyBoardListenerShouldTerminate,
                 protocolVars, socketVars, typed>>

(* sendFrameAscii; arrives says whether the server's end is open.  A failure is not
   looked at. *)
Write(arrives) ==
  /\ At("write")
  /\ toServer' = IF arrives
                 THEN [toServer EXCEPT ![connection] = Append(@, Head(framesAsStringsQ))]
                 ELSE toServer
  /\ keyboard' = "sleep"
  /\ UNCHANGED <<program, connection, line, framesAsStringsQ, listener,
                 keyBoardListenerShouldTerminate, protocolVars, toClient, typed>>

(* Mutant: the keyboard listener goes on after DISCONNECT. *)
SleptRegardless ==
  /\ At("sleep")
  /\ framesAsStringsQ' = Tail(framesAsStringsQ)
  /\ keyboard' = "send"
  /\ UNCHANGED <<program, connection, line, listener, keyBoardListenerShouldTerminate,
                 protocolVars, socketVars, typed>>

(* After 300 ms: DISCONNECT was the last frame. *)
Slept ==
  /\ At("sleep")
  /\ keyBoardListenerShouldTerminate' =
       (keyBoardListenerShouldTerminate \/ Head(framesAsStringsQ).command = "DISCONNECT")
  /\ framesAsStringsQ' = Tail(framesAsStringsQ)
  /\ keyboard' = "send"
  /\ UNCHANGED <<program, connection, line, listener, protocolVars, socketVars, typed>>

-----------------------------------------------------------------------------
(* runServerListener *)

(* Mutant: any receipt ends the listener. *)
ReceiptEnds(message) == TRUE

(* processFromServer sets serverShouldTerminate, and the listener ends by it. *)
ReceiptEndsListener(message) == message = LoggedOut

(* Mutant: being subscribed already is taken for harmless. *)
ErrorEndsUnlessSubscribed(f) == f.message \notin {AlreadyLoggedIn, "you are already subscribed"}

ErrorEndsSession(f) == f.message # AlreadyLoggedIn

(* receiptIdToPrintMessage[receiptId], while the keyboard listener may be inside
   emplace on the same unordered_map: the look-up may then miss the entry and insert
   an empty one, and the entry being emplaced may be lost. *)
ReadReceipt(r) ==
  \/ /\ listener' = IF ReceiptEndsListener(receiptIdToPrintMessage[r]) THEN "done" ELSE "read"
     /\ UNCHANGED receiptIdToPrintMessage
  \/ /\ keyboard = "processed"
     /\ line.command \in {"join", "exit", "logout"}
     /\ receiptIdToPrintMessage' \in
          {receiptIdToPrintMessage,
           [receiptIdToPrintMessage EXCEPT ![nextRecieptNumber - 1] = Null]}
     /\ UNCHANGED listener

(* Mutant: the keyboard listener is not told. *)
ReadErrorAlone(f) ==
  /\ listener' = IF ErrorEndsSession(f) THEN "done" ELSE "read"
  /\ UNCHANGED keyBoardListenerShouldTerminate

(* An ERROR ends both threads, but for the one that only refuses a login. *)
ReadError(f) ==
  /\ listener' = IF ErrorEndsSession(f) THEN "done" ELSE "read"
  /\ keyBoardListenerShouldTerminate' = (keyBoardListenerShouldTerminate \/ ErrorEndsSession(f))

(* One turn of the loop that gets a frame.  At the end of the stream getFrameAscii
   returns at once with nothing, and the loop goes on: no step of the model. *)
ReadFrame ==
  LET f == Head(toClient[connection]) IN
  /\ program = "session"
  /\ listener = "read"
  /\ toClient[connection] # <<>>
  /\ toClient' = [toClient EXCEPT ![connection] = Tail(@)]
  /\ \/ /\ f.command \in {"CONNECTED", "MESSAGE"}
        /\ UNCHANGED <<listener, keyBoardListenerShouldTerminate, receiptIdToPrintMessage>>
     \/ /\ f.command = "RECEIPT"
        /\ ReadReceipt(f.receipt_id)
        /\ UNCHANGED keyBoardListenerShouldTerminate
     \/ /\ f.command = "ERROR"
        /\ ReadError(f)
        /\ UNCHANGED receiptIdToPrintMessage
  /\ UNCHANGED <<program, connection, keyboardVars, nextSubscriptionId, nextRecieptNumber,
                 gameNameToSubscriptionId, toServer, typed>>

(* The steps of the threads that do not wait for the user *)
MainStep == Answer \/ Join
KeyboardStep(arrives) ==
  \/ Test \/ Process \/ Processed \/ TestSend \/ Slept
  \/ Write(arrives)
================================================================================
