-------------------------------- MODULE Reactor --------------------------------
(***************************************************************************)
(* Reactor.java and NonBlockingConnectionHandler.java: one selector thread *)
(* reads, writes and closes the sockets, and the runnables it submits, one *)
(* per buffer read, process frames on the threads of the pool.             *)
(*                                                                         *)
(* The pool is the Mailbox that ActorThreadPool implements.  The protocol  *)
(* is reduced to what the reactor can tell apart: whether a frame sets     *)
(* shouldTerminate, to whom it sends, and whether it throws.               *)
(***************************************************************************)
EXTENDS Naturals, Sequences

CONSTANTS
  Handlers,    \* the connection handlers: the actors of the pool
  MaxFrames,   \* bound: frames the clients send
  Null

ASSUME MaxFramesAssumption == MaxFrames \in Nat

ASSUME NullIsNoHandler == Null \notin Handlers

VARIABLES
  (* the selector thread *)
  selector,        \* where it is: [at, handler]
  selected,        \* what is ready of each key, still to be handled
  selectorTasks,   \* the handlers whose keys shall become interested in writing
  woken,           \* wakeup() was called since the last select()
  (* the connections *)
  accepted,
  open,            \* chan.isOpen()
  interest,        \* key.interestOps()
  writeQueue,
  half,            \* the frame at the head of the queue is partly written
  shouldTerminate,
  (* the pool: the variables of Mailbox, and what its runnables do *)
  submitted, done, running, stopped,
  buffers,         \* the frames in each runnable submitted
  toSend,          \* what the frame being processed has yet to send: <<to, frame>>
  notify,          \* the handler whose updateInterestedOps call is next
  throws,          \* the frame being processed will throw when it has sent all
  (* the clients *)
  listed,          \* who is logged in and subscribed
  inbox,           \* the frames sent and not yet read
  inputs,          \* how many frames the clients have sent
  gone             \* the client closed or lost its end

selectorVars == <<selector, selected, selectorTasks, woken>>
poolVars     == <<submitted, done, running, stopped>>
taskVars     == <<buffers, toSend, notify, throws>>
clientVars   == <<inbox, inputs, gone>>
socketVars   == <<accepted, open, interest, writeQueue, half>>
vars == <<selectorVars, poolVars, taskVars, clientVars, socketVars, shouldTerminate, listed>>

Pool == INSTANCE Mailbox WITH Actors <- Handlers, MaxTasks <- MaxFrames

ReadWrite == {"read", "write"}

Places == {"select", "tasks", "keys", "write", "written", "finish", "dead"}

Place(at, h) == [at |-> at, handler |-> h]

NothingSelected == [h \in Handlers |-> {}]

Init ==
  /\ selector = Place("select", Null)
  /\ selected = NothingSelected
  /\ selectorTasks = <<>>
  /\ woken = FALSE
  /\ accepted = {}
  /\ open = {}
  /\ interest = [h \in Handlers |-> {}]
  /\ writeQueue = [h \in Handlers |-> <<>>]
  /\ half = [h \in Handlers |-> FALSE]
  /\ shouldTerminate = [h \in Handlers |-> FALSE]
  /\ Pool!Init
  /\ buffers = [h \in Handlers |-> <<>>]
  /\ toSend = [h \in Handlers |-> {}]
  /\ notify = [h \in Handlers |-> Null]
  /\ throws = [h \in Handlers |-> FALSE]
  /\ listed = {}
  /\ inbox = [h \in Handlers |-> <<>>]
  /\ inputs = 0
  /\ gone = {}

-----------------------------------------------------------------------------
(* The selector thread: select, the tasks, then the selected keys *)

At(where) == selector.at = where

(* The ready operations of a key: reading is ready when there are bytes or the end of
   the stream, writing is always. *)
Ready(h) ==
  IF h \notin open THEN {}
  ELSE {op \in interest[h] : op = "read" => inbox[h] # <<>> \/ h \in gone}

Select ==
  /\ At("select")
  /\ woken \/ \E h \in Handlers : Ready(h) # {}
  /\ selected' = [h \in Handlers |-> Ready(h)]
  /\ woken' = FALSE
  /\ selector' = Place("tasks", Null)
  /\ UNCHANGED <<selectorTasks, poolVars, taskVars, clientVars, socketVars,
                 shouldTerminate, listed>>

(* handleAccept: the handler registers itself, and its key for reading. *)
Accept(h) ==
  /\ At("select")
  /\ h \notin accepted
  /\ accepted' = accepted \cup {h}
  /\ open' = open \cup {h}
  /\ interest' = [interest EXCEPT ![h] = {"read"}]
  /\ UNCHANGED <<selectorVars, poolVars, taskVars, clientVars, writeQueue, half,
                 shouldTerminate, listed>>

(* Mutant: the task asks for reading only. *)
RunTaskReading ==
  LET h == Head(selectorTasks) IN
  /\ At("tasks")
  /\ selectorTasks # <<>>
  /\ selectorTasks' = Tail(selectorTasks)
  /\ h \in open
  /\ interest' = [interest EXCEPT ![h] = {"read"}]
  /\ UNCHANGED <<selector, selected, woken, poolVars, taskVars, clientVars, accepted, open,
                 writeQueue, half, shouldTerminate, listed>>

(* A task sets the interest set of a key.  If the channel was closed in the meantime
   the key is cancelled, or there is none: the exception leaves serve(). *)
RunTask ==
  LET h == Head(selectorTasks) IN
  /\ At("tasks")
  /\ selectorTasks # <<>>
  /\ selectorTasks' = Tail(selectorTasks)
  /\ \/ /\ h \in open
        /\ interest' = [interest EXCEPT ![h] = ReadWrite]
        /\ UNCHANGED selector
     \/ /\ h \notin open
        /\ selector' = Place("dead", Null)
        /\ UNCHANGED interest
  /\ UNCHANGED <<selected, woken, poolVars, taskVars, clientVars, accepted, open,
                 writeQueue, half, shouldTerminate, listed>>

TasksDone ==
  /\ At("tasks")
  /\ selectorTasks = <<>>
  /\ selector' = Place("keys", Null)
  /\ UNCHANGED <<selected, selectorTasks, woken, poolVars, taskVars, clientVars,
                 socketVars, shouldTerminate, listed>>

KeysDone ==
  /\ At("keys")
  /\ selected = NothingSelected
  /\ selector' = Place("select", Null)
  /\ UNCHANGED <<selected, selectorTasks, woken, poolVars, taskVars, clientVars,
                 socketVars, shouldTerminate, listed>>

-----------------------------------------------------------------------------
(* handleReadWrite *)

(* continueRead reads some of the bytes that arrived and submits a runnable for them.
   Runnables that complete no frame are left out. *)
ReadBuffer(h) ==
  \E k \in 1 .. Len(inbox[h]) :
    /\ buffers' = [buffers EXCEPT ![h] = Append(@, SubSeq(inbox[h], 1, k))]
    /\ inbox' = [inbox EXCEPT ![h] = SubSeq(@, k + 1, Len(@))]
    /\ Pool!Submit(h)
    /\ UNCHANGED open

(* read fails or reaches the end of the stream: the channel is closed. *)
ReadFails(h) ==
  /\ h \in gone
  /\ open' = open \ {h}
  /\ UNCHANGED <<buffers, inbox, poolVars>>

(* continueWrite follows if the key is still valid and was found writable. *)
HandleKey(h) ==
  /\ At("keys")
  /\ selected[h] # {}
  /\ selected' = [selected EXCEPT ![h] = {}]
  /\ \/ "read" \in selected[h] /\ (ReadBuffer(h) \/ ReadFails(h))
     \/ "read" \notin selected[h] /\ UNCHANGED <<open, buffers, inbox, poolVars>>
  /\ selector' = IF "write" \in selected[h] /\ h \in open'
                 THEN Place("write", h) ELSE selector
  /\ UNCHANGED <<selectorTasks, woken, toSend, notify, throws, inputs, gone, accepted,
                 interest, writeQueue, half, shouldTerminate, listed>>

(* Mutant: a frame is removed after its first part was written. *)
WriteRemovesPart(h) ==
  /\ selector = Place("write", h)
  /\ writeQueue[h] # <<>>
  /\ h \in open
  /\ writeQueue' = [writeQueue EXCEPT ![h] = Tail(@)]
  /\ half' \in {half, [half EXCEPT ![h] = TRUE]}
  /\ UNCHANGED <<selectorVars, poolVars, taskVars, clientVars, accepted, open, interest,
                 shouldTerminate, listed>>

(* The loop of continueWrite writes the frame at the head, or a part of it, which ends
   the loop. *)
Write(h) ==
  /\ selector = Place("write", h)
  /\ writeQueue[h] # <<>>
  /\ h \in open
  /\ \/ /\ writeQueue' = [writeQueue EXCEPT ![h] = Tail(@)]
        /\ half' = [half EXCEPT ![h] = FALSE]
        /\ UNCHANGED selector
     \/ /\ ~half[h]
        /\ half' = [half EXCEPT ![h] = TRUE]
        /\ selector' = Place("keys", Null)
        /\ UNCHANGED writeQueue
  /\ UNCHANGED <<selected, selectorTasks, woken, poolVars, taskVars, clientVars, accepted,
                 open, interest, shouldTerminate, listed>>

(* A write fails: the channel is closed, and the loop goes on with the same frame. *)
WriteFails(h) ==
  /\ selector = Place("write", h)
  /\ writeQueue[h] # <<>>
  /\ h \in gone \/ h \notin open
  /\ open' = open \ {h}
  /\ UNCHANGED <<selectorVars, poolVars, taskVars, clientVars, accepted, interest,
                 writeQueue, half, shouldTerminate, listed>>

(* The loop ends, and the queue is looked at once more. *)
WroteAll(h) ==
  /\ selector = Place("write", h)
  /\ writeQueue[h] = <<>>
  /\ selector' = Place("written", h)
  /\ UNCHANGED <<selected, selectorTasks, woken, poolVars, taskVars, clientVars,
                 socketVars, shouldTerminate, listed>>

LookAgain(h) ==
  /\ selector = Place("written", h)
  /\ selector' = IF writeQueue[h] = <<>> THEN Place("finish", h) ELSE Place("keys", Null)
  /\ UNCHANGED <<selected, selectorTasks, woken, poolVars, taskVars, clientVars,
                 socketVars, shouldTerminate, listed>>

(* Mutant: the connection goes on whatever the protocol says. *)
FinishNever(h) ==
  /\ selector = Place("finish", h)
  /\ interest' = [interest EXCEPT ![h] = {"read"}]
  /\ selector' = Place("keys", Null)
  /\ UNCHANGED <<selected, selectorTasks, woken, poolVars, taskVars, clientVars, accepted,
                 open, writeQueue, half, shouldTerminate, listed>>

(* The connection ends if the protocol says so by now; else its key goes back to
   reading only. *)
Finish(h) ==
  /\ selector = Place("finish", h)
  /\ \/ /\ shouldTerminate[h]
        /\ open' = open \ {h}
        /\ UNCHANGED interest
     \/ /\ ~shouldTerminate[h]
        /\ interest' = [interest EXCEPT ![h] = {"read"}]
        /\ UNCHANGED open
  /\ selector' = Place("keys", Null)
  /\ UNCHANGED <<selected, selectorTasks, woken, poolVars, taskVars, clientVars, accepted,
                 writeQueue, half, shouldTerminate, listed>>

SelectorStep ==
  \/ Select \/ RunTask \/ TasksDone \/ KeysDone
  \/ \E h \in Handlers :
       HandleKey(h) \/ Write(h) \/ WriteFails(h) \/ WroteAll(h) \/ LookAgain(h) \/ Finish(h)

-----------------------------------------------------------------------------
(* The pool's threads: the runnable of continueRead *)

(* The frames of h's runnable that are not processed yet *)
Buffer(h) == buffers[h][done[h] + 1]

(* Between two frames *)
Idle(h) == h \in running /\ toSend[h] = {} /\ notify[h] = Null

StartRunnable(h) ==
  /\ Pool!Start(h)
  /\ UNCHANGED <<selectorVars, taskVars, clientVars, socketVars, shouldTerminate, listed>>

(* "JOIN" stands for logging in and subscribing, "LEAVE" for DISCONNECT. *)
Admitted(h, f) == f = "JOIN" <=> h \notin listed

Sends(h, f) ==
  IF ~Admitted(h, f) THEN {<<h, "ERROR">>}
  ELSE IF f = "SEND" THEN {<<d, "MESSAGE">> : d \in listed}
  ELSE {<<h, "RECEIPT">>}

(* The runnable takes its next frame. *)
TakeFrame(h) ==
  /\ Idle(h)
  /\ ~throws[h]
  /\ Buffer(h) # <<>>
  /\ buffers' = [buffers EXCEPT ![h][done[h] + 1] = Tail(@)]
  /\ UNCHANGED <<selectorVars, poolVars, notify, clientVars, socketVars>>

(* protocol.process(nextMessage), up to its sends: shouldTerminate is set first.  A
   refusal ends the session; of somebody without one it throws after the ERROR. *)
Process(h) ==
  LET f == Head(Buffer(h)) IN
  /\ TakeFrame(h)
  /\ shouldTerminate' = [shouldTerminate EXCEPT ![h] = f = "LEAVE" \/ ~Admitted(h, f)]
  /\ listed' = IF Admitted(h, f) /\ f = "JOIN" THEN listed \cup {h}
               ELSE IF Admitted(h, f) /\ f = "SEND" THEN listed
               ELSE listed \ {h}
  /\ toSend' = [toSend EXCEPT ![h] = Sends(h, f)]
  /\ throws' = [throws EXCEPT ![h] = ~Admitted(h, f) /\ h \notin listed]

(* A login under the name of a user who is connected: its ERROR ends nothing. *)
UserAlreadyLoggedIn(h) ==
  /\ TakeFrame(h)
  /\ Head(Buffer(h)) = "JOIN"
  /\ listed # {}
  /\ shouldTerminate' = [shouldTerminate EXCEPT ![h] = FALSE]
  /\ toSend' = [toSend EXCEPT ![h] = {<<h, "ERROR">>}]
  /\ UNCHANGED <<listed, throws>>

(* send(msg) puts the frame into the write queue of its connection ... *)
Send(h) ==
  /\ notify[h] = Null
  /\ \E s \in toSend[h] :
       /\ writeQueue' = [writeQueue EXCEPT ![s[1]] = Append(@, s[2])]
       /\ toSend' = [toSend EXCEPT ![h] = @ \ {s}]
       /\ notify' = [notify EXCEPT ![h] = s[1]]
  /\ UNCHANGED <<selectorVars, poolVars, buffers, throws, clientVars, accepted, open,
                 interest, half, shouldTerminate, listed>>

(* Mutant: the selector is not woken up. *)
UpdateInterestedOpsSilently(h) ==
  /\ notify[h] # Null
  /\ selectorTasks' = Append(selectorTasks, notify[h])
  /\ notify' = [notify EXCEPT ![h] = Null]
  /\ UNCHANGED <<selector, selected, woken, poolVars, buffers, toSend, throws, clientVars,
                 socketVars, shouldTerminate, listed>>

(* ... and then leaves the selector a task and wakes it up. *)
UpdateInterestedOps(h) ==
  /\ notify[h] # Null
  /\ selectorTasks' = Append(selectorTasks, notify[h])
  /\ woken' = TRUE
  /\ notify' = [notify EXCEPT ![h] = Null]
  /\ UNCHANGED <<selector, selected, poolVars, buffers, toSend, throws, clientVars,
                 socketVars, shouldTerminate, listed>>

(* The runnable returns, or throws and leaves the rest of its buffer. *)
EndRunnable(h) ==
  /\ Idle(h)
  /\ throws[h] \/ Buffer(h) = <<>>
  /\ throws' = [throws EXCEPT ![h] = FALSE]
  /\ Pool!End(h)
  /\ UNCHANGED <<selectorVars, buffers, toSend, notify, clientVars, socketVars,
                 shouldTerminate, listed>>

PoolStep(h) ==
  \/ StartRunnable(h) \/ Process(h) \/ UserAlreadyLoggedIn(h)
  \/ Send(h) \/ UpdateInterestedOps(h) \/ EndRunnable(h)

-----------------------------------------------------------------------------
(* The clients *)

ClientSends(h, f) ==
  /\ h \in accepted \ gone
  /\ inputs < MaxFrames
  /\ inputs' = inputs + 1
  /\ inbox' = [inbox EXCEPT ![h] = Append(@, f)]
  /\ UNCHANGED <<selectorVars, poolVars, taskVars, gone, socketVars, shouldTerminate, listed>>

ClientGoes(h) ==
  /\ h \in accepted \ gone
  /\ gone' = gone \cup {h}
  /\ UNCHANGED <<selectorVars, poolVars, taskVars, inbox, inputs, socketVars,
                 shouldTerminate, listed>>

ServerStep ==
  \/ SelectorStep
  \/ \E h \in Handlers : Accept(h) \/ PoolStep(h)

Next ==
  \/ ServerStep
  \/ \E h \in Handlers :
       \/ \E f \in {"JOIN", "SEND", "LEAVE"} : ClientSends(h, f)
       \/ ClientGoes(h)

(* The JVM runs the selector thread, the pool runs what is submitted to it (Mailbox),
   and a runnable is executed to its end. *)
Fairness ==
  /\ WF_vars(SelectorStep)
  /\ \A h \in Handlers : WF_vars(PoolStep(h))

Spec == Init /\ [][Next]_vars /\ Fairness

(* Clients that stay until the server closes their connection. *)
StayNext ==
  \/ ServerStep
  \/ \E h \in Handlers, f \in {"JOIN", "SEND", "LEAVE"} : ClientSends(h, f)

StaySpec == Init /\ [][StayNext]_vars /\ Fairness

-----------------------------------------------------------------------------
(* Properties *)

Frames == {"JOIN", "SEND", "LEAVE"}
Answers == {"RECEIPT", "MESSAGE", "ERROR"}

(* The variables hold values of their types; what is partly written is queued. *)
TypeOK ==
  /\ selector \in [at : Places, handler : Handlers \cup {Null}]
  /\ selected \in [Handlers -> SUBSET ReadWrite]
  /\ selectorTasks \in Seq(Handlers)
  /\ woken \in BOOLEAN
  /\ accepted \subseteq Handlers /\ open \subseteq accepted /\ gone \subseteq accepted
  /\ interest \in [Handlers -> SUBSET ReadWrite]
  /\ writeQueue \in [Handlers -> Seq(Answers)]
  /\ half \in [Handlers -> BOOLEAN]
  /\ \A h \in Handlers : half[h] => writeQueue[h] # <<>>
  /\ shouldTerminate \in [Handlers -> BOOLEAN]
  /\ submitted \in [Handlers -> 0 .. MaxFrames]
  /\ done \in [Handlers -> 0 .. MaxFrames]
  /\ running \subseteq Handlers
  /\ buffers \in [Handlers -> Seq(Seq(Frames))]
  /\ toSend \in [Handlers -> SUBSET (Handlers \X Answers)]
  /\ notify \in [Handlers -> Handlers \cup {Null}]
  /\ throws \in [Handlers -> BOOLEAN]
  /\ listed \subseteq Handlers
  /\ inbox \in [Handlers -> Seq(Frames)]
  /\ inputs \in 0 .. MaxFrames

(* No wakeup is lost: while something is queued for an open connection, its key is
   interested in writing, or a task to make it so is queued or about to be, however
   send and continueWrite interleave; and a queued task wakes the selector. *)
NoWakeupIsLost ==
  /\ \A h \in open :
       writeQueue[h] # <<>> =>
         \/ "write" \in interest[h]
         \/ \E k \in DOMAIN selectorTasks : selectorTasks[k] = h
         \/ \E g \in Handlers : notify[g] = h
  /\ At("select") /\ selectorTasks # <<>> => woken

(* What is queued for an open connection is written in the end, or the connection is
   closed, or the selector thread is no more (send, updateInterestedOps, continueWrite). *)
EverythingQueuedIsWritten ==
  \A h \in Handlers :
    writeQueue[h] # <<>> ~> writeQueue[h] = <<>> \/ h \notin open \/ At("dead")

(* An ERROR that ends the session of h is yet to be sent. *)
IsRefused(h) == <<h, "ERROR">> \in toSend[h] /\ shouldTerminate[h]

(* The client of h has sent something that is not processed yet. *)
SentMore(h) == inbox[h] # <<>> \/ \E k \in done[h] + 1 .. submitted[h] : buffers[h][k] # <<>>

(* A connection whose session ends with an ERROR is closed in the end, unless its client
   sends more before it is (process, Finish).  The ERROR for a user who is connected
   already ends no session, and closes nothing. *)
RefusedIsClosed ==
  \A h \in Handlers : IsRefused(h) ~> h \notin open \/ At("dead") \/ SentMore(h)

-----------------------------------------------------------------------------
(* Statements of the source that the reactor does not keep *)

(* Server.java:10: "The main loop of the server, Starts listening and handling new
   clients."  No task ends the loop. *)
SelectorSurvives == ~At("dead")

(* The same statement: the selector comes back from continueWrite to its loop. *)
SelectorComesBack == At("write") ~> ~At("write")

(* StompProtocol.java:176: "make sure socket closed after sending the error".  A
   refused connection is closed by the server, also if its client sent more. *)
ErrorsCloseTheSocket ==
  \A h \in Handlers : IsRefused(h) ~> h \notin open \/ At("dead")

(* StompProtocol.java:201: "make sure socket closed after sending the error".  The
   socket of a refused connection is not closed by Finish before the ERROR is sent. *)
ClosedAfterTheError ==
  [][\A h \in Handlers : Finish(h) /\ h \notin open' => ~IsRefused(h)]_vars
================================================================================
