---------------------------- MODULE ReactorProofs ----------------------------
(***************************************************************************)
(* No wakeup of the selector is lost, for any connections and any number   *)
(* of frames.                                                              *)
(*                                                                         *)
(* NoWakeupIsLost is not inductive alone.  Finish takes the interest in    *)
(* writing away, so that until then whatever is queued must have left a    *)
(* task or be about to (WrittenIsWatched); a new connection starts without *)
(* that interest, so that nothing may be queued for it (Acquainted); and a *)
(* task that was left while the selector was at work must find it awake    *)
(* when it comes back to select() (TasksWake).                             *)
(***************************************************************************)
EXTENDS Reactor, TLAPS

SelectorTypes ==
  /\ selector \in [at : Places, handler : Handlers \cup {Null}]
  /\ selected \in [Handlers -> SUBSET ReadWrite]
  /\ selectorTasks \in Seq(Handlers)
  /\ woken \in BOOLEAN

SocketTypes ==
  /\ accepted \subseteq Handlers /\ open \subseteq accepted
  /\ interest \in [Handlers -> SUBSET ReadWrite]
  /\ writeQueue \in [Handlers -> Seq(Answers)]
  /\ half \in [Handlers -> BOOLEAN]
  /\ \A h \in Handlers : half[h] => writeQueue[h] # <<>>

PoolTypes ==
  /\ submitted \in [Handlers -> 0 .. MaxFrames]
  /\ done \in [Handlers -> 0 .. MaxFrames]
  /\ running \subseteq Handlers

TaskTypes ==
  /\ buffers \in [Handlers -> Seq(Seq(Frames))]
  /\ toSend \in [Handlers -> SUBSET (Handlers \X Answers)]
  /\ notify \in [Handlers -> Handlers \cup {Null}]
  /\ throws \in [Handlers -> BOOLEAN]
  /\ shouldTerminate \in [Handlers -> BOOLEAN]
  /\ listed \subseteq Handlers

ClientTypes ==
  /\ gone \subseteq accepted
  /\ inbox \in [Handlers -> Seq(Frames)]
  /\ inputs \in 0 .. MaxFrames

(* What runs is the runnable after those done, and there is one. *)
RunnableExists ==
  \A h \in Handlers :
    /\ Len(buffers[h]) = submitted[h]
    /\ done[h] <= submitted[h]
    /\ h \in running => done[h] < submitted[h]

(* Whoever has anything under way was accepted before. *)
Acquainted ==
  /\ listed \subseteq accepted
  /\ \A h \in Handlers :
       /\ selected[h] # {} => h \in accepted
       /\ submitted[h] > 0 => h \in accepted
       /\ writeQueue[h] # <<>> => h \in accepted
       /\ \A s \in toSend[h] : s[1] \in accepted

Occurs(x, q) == \E k \in DOMAIN q : q[k] = x

HasTask(h) == Occurs(h, selectorTasks)

IsNotified(h) == \E g \in Handlers : notify[g] = h

(* NoWakeupIsLost, the part about the interest in writing *)
QueuedIsWatched ==
  \A h \in open :
    writeQueue[h] # <<>> => "write" \in interest[h] \/ HasTask(h) \/ IsNotified(h)

(* ... which Finish takes away *)
WrittenIsWatched ==
  \A h \in Handlers :
    selector = Place("finish", h) /\ writeQueue[h] # <<>> => HasTask(h) \/ IsNotified(h)

(* NoWakeupIsLost, the part about select(), and what it needs on the way there *)
TasksWake == selector.at \notin {"tasks", "dead"} /\ selectorTasks # <<>> => woken

Types == SelectorTypes /\ SocketTypes /\ PoolTypes /\ TaskTypes /\ ClientTypes

IInv ==
  /\ Types
  /\ RunnableExists
  /\ Acquainted
  /\ QueuedIsWatched
  /\ WrittenIsWatched
  /\ TasksWake

LEMMA IInvImplies == IInv => TypeOK /\ NoWakeupIsLost
<1>1. IInv => TypeOK
  BY DEF IInv, Types, TypeOK, SelectorTypes, SocketTypes, PoolTypes, TaskTypes, ClientTypes
<1>2. IInv => NoWakeupIsLost
  BY DEF IInv, NoWakeupIsLost, QueuedIsWatched, TasksWake, HasTask, IsNotified, Occurs, At
<1>3. QED
  BY <1>1, <1>2

-----------------------------------------------------------------------------
(* Queues *)

LEMMA AppendOccurs ==
  ASSUME NEW S, NEW q \in Seq(S), NEW x \in S
  PROVE  /\ Append(q, x) \in Seq(S)
         /\ Append(q, x) # <<>>
         /\ Occurs(x, Append(q, x))
         /\ \A y : Occurs(y, q) => Occurs(y, Append(q, x))
<1>1. /\ Append(q, x) \in Seq(S)
      /\ Len(Append(q, x)) = Len(q) + 1
      /\ Append(q, x)[Len(q) + 1] = x
      /\ \A k \in 1 .. Len(q) : Append(q, x)[k] = q[k]
  OBVIOUS
<1>2. DOMAIN q = 1 .. Len(q) /\ DOMAIN Append(q, x) = 1 .. Len(q) + 1 /\ Len(q) \in Nat
  BY <1>1
<1>3. QED
  BY <1>1, <1>2 DEF Occurs

LEMMA TailOccurs ==
  ASSUME NEW S, NEW q \in Seq(S), q # <<>>
  PROVE  /\ Head(q) \in S
         /\ Tail(q) \in Seq(S)
         /\ \A y : Occurs(y, q) /\ y # Head(q) => Occurs(y, Tail(q))
<1>1. /\ Head(q) = q[1] /\ Head(q) \in S
      /\ Tail(q) \in Seq(S) /\ Len(Tail(q)) = Len(q) - 1
      /\ \A k \in 1 .. Len(q) - 1 : Tail(q)[k] = q[k + 1]
  OBVIOUS
<1>2. ASSUME NEW y, Occurs(y, q), y # Head(q)
      PROVE  Occurs(y, Tail(q))
  <2>1. PICK k \in 1 .. Len(q) : q[k] = y
    BY <1>2 DEF Occurs
  <2>2. k - 1 \in 1 .. Len(q) - 1
    BY <2>1, <1>1, <1>2
  <2>3. Tail(q)[k - 1] = q[(k - 1) + 1] /\ (k - 1) + 1 = k
    BY <2>2, <1>1
  <2>4. k - 1 \in DOMAIN Tail(q) /\ Tail(q)[k - 1] = y
    BY <2>1, <2>2, <2>3, <1>1
  <2>5. QED
    BY <2>4 DEF Occurs
<1>3. QED
  BY <1>1, <1>2

-----------------------------------------------------------------------------
LEMMA InitIInv == Init => IInv
<1> SUFFICES ASSUME Init PROVE IInv
  OBVIOUS
<1> USE MaxFramesAssumption, NullIsNoHandler
<1>1. SelectorTypes
  <2>1. selector \in [at : Places, handler : Handlers \cup {Null}]
    BY DEF Place, Places, Init
  <2>2. selected \in [Handlers -> SUBSET ReadWrite] /\ selectorTasks \in Seq(Handlers)
    BY DEF NothingSelected, Init, Pool!Init
  <2>3. QED
    BY <2>1, <2>2 DEF SelectorTypes, Init
<1>2. SocketTypes
  BY DEF SocketTypes, Init
<1>3. PoolTypes
  BY DEF PoolTypes, Init, Pool!Init
<1>4. TaskTypes
  BY DEF TaskTypes, Init
<1>5. ClientTypes
  BY DEF ClientTypes, Init
<1>6. RunnableExists
  <2>1. ASSUME NEW h \in Handlers
        PROVE  Len(buffers[h]) = submitted[h] /\ done[h] <= submitted[h] /\ h \notin running
    BY DEF Init, Pool!Init
  <2>2. QED
    BY <2>1 DEF RunnableExists
<1>7. Acquainted
  BY DEF Acquainted, NothingSelected, Init, Pool!Init
<1>8. QueuedIsWatched /\ WrittenIsWatched /\ TasksWake
  BY DEF QueuedIsWatched, WrittenIsWatched, TasksWake, Place, Init
<1>9. QED
  BY <1>1, <1>2, <1>3, <1>4, <1>5, <1>6, <1>7, <1>8 DEF IInv, Types

-----------------------------------------------------------------------------
(* The selector thread *)

LEMMA SelectKeepsIInv == IInv /\ Select => IInv'
<1> SUFFICES ASSUME IInv, Select PROVE IInv'
  OBVIOUS
<1> USE DEF IInv, Types, Select, poolVars, taskVars, clientVars, socketVars
<1>1. SelectorTypes'
  BY DEF SelectorTypes, Place, Places, Ready, ReadWrite, SocketTypes
<1>2. SocketTypes' /\ PoolTypes' /\ TaskTypes' /\ ClientTypes' /\ RunnableExists'
  BY DEF SocketTypes, PoolTypes, TaskTypes, ClientTypes, RunnableExists
<1>3. Acquainted'
  BY DEF Acquainted, Ready, SocketTypes
<1>4. QueuedIsWatched' /\ WrittenIsWatched' /\ TasksWake'
  BY DEF QueuedIsWatched, WrittenIsWatched, TasksWake, HasTask, IsNotified, Place
<1>5. QED
  BY <1>1, <1>2, <1>3, <1>4

LEMMA RunTaskKeepsIInv == IInv /\ RunTask => IInv'
<1> SUFFICES ASSUME IInv, RunTask PROVE IInv'
  OBVIOUS
<1> USE DEF IInv, Types, poolVars, taskVars, clientVars
<1> DEFINE h == Head(selectorTasks)
<1>1. /\ h \in Handlers
      /\ Tail(selectorTasks) \in Seq(Handlers)
      /\ \A y : HasTask(y) /\ y # h => HasTask(y)'
  BY TailOccurs DEF SelectorTypes, RunTask, HasTask
<1>2. SelectorTypes'
  BY <1>1 DEF SelectorTypes, Place, Places, RunTask
<1>3. SocketTypes' /\ PoolTypes' /\ TaskTypes' /\ ClientTypes' /\ RunnableExists'
  BY <1>1 DEF SocketTypes, PoolTypes, TaskTypes, ClientTypes, RunnableExists, RunTask, ReadWrite
<1>4. Acquainted'
  BY DEF Acquainted, RunTask
<1>5. QueuedIsWatched'
  <2> SUFFICES ASSUME NEW g \in open, writeQueue[g] # <<>>
               PROVE  "write" \in interest'[g] \/ HasTask(g)' \/ IsNotified(g)'
    BY DEF QueuedIsWatched, RunTask
  <2>1. "write" \in interest[g] \/ HasTask(g) \/ IsNotified(g)
    BY DEF QueuedIsWatched
  <2>2. IsNotified(g) => IsNotified(g)'
    BY DEF IsNotified, RunTask
  <2>3. g \in Handlers /\ ("write" \in interest[g] => "write" \in interest'[g])
    BY <1>1 DEF RunTask, SocketTypes, ReadWrite
  <2>4. CASE HasTask(g)
    <3>1. CASE g = h
      BY <3>1, <2>3 DEF RunTask, SocketTypes, ReadWrite
    <3>2. CASE g # h
      BY <3>2, <2>4, <1>1
    <3>3. QED
      BY <3>1, <3>2
  <2>5. QED
    BY <2>1, <2>2, <2>3, <2>4
<1>6. WrittenIsWatched' /\ TasksWake'
  BY DEF WrittenIsWatched, TasksWake, Place, At, RunTask
<1>7. QED
  BY <1>2, <1>3, <1>4, <1>5, <1>6

(* TasksDone and KeysDone only move the selector. *)
LEMMA MovesKeepIInv == IInv /\ (TasksDone \/ KeysDone) => IInv'
<1> SUFFICES ASSUME IInv, TasksDone \/ KeysDone PROVE IInv'
  OBVIOUS
<1> USE DEF IInv, Types, TasksDone, KeysDone, poolVars, taskVars, clientVars, socketVars
<1>1. SelectorTypes'
  BY DEF SelectorTypes, Place, Places
<1>2. SocketTypes' /\ PoolTypes' /\ TaskTypes' /\ ClientTypes' /\ RunnableExists'
  BY DEF SocketTypes, PoolTypes, TaskTypes, ClientTypes, RunnableExists
<1>3. Acquainted'
  BY DEF Acquainted
<1>4. QueuedIsWatched' /\ WrittenIsWatched' /\ TasksWake'
  BY DEF QueuedIsWatched, WrittenIsWatched, TasksWake, HasTask, IsNotified, Place, At
<1>5. QED
  BY <1>1, <1>2, <1>3, <1>4

LEMMA HandleKeyKeepsIInv == ASSUME IInv, NEW h \in Handlers, HandleKey(h) PROVE IInv'
<1> USE DEF IInv, Types, socketVars
<1>1. /\ selected' = [selected EXCEPT ![h] = {}]
      /\ selector' \in {selector, Place("write", h)}
      /\ open' \subseteq open
      /\ UNCHANGED <<selectorTasks, woken, toSend, notify, throws, inputs, gone, accepted,
                     interest, writeQueue, half, shouldTerminate, listed>>
      /\ selected[h] # {}
  BY DEF HandleKey, ReadBuffer, ReadFails, Place
<1>2. \/ UNCHANGED <<buffers, inbox, poolVars>>
      \/ ReadBuffer(h)
  BY DEF HandleKey, ReadFails
<1>3. SelectorTypes'
  BY <1>1 DEF SelectorTypes, Place, Places
<1>4. SocketTypes'
  BY <1>1 DEF SocketTypes
<1>5. PoolTypes' /\ TaskTypes' /\ ClientTypes' /\ RunnableExists' /\ Acquainted'
  <2>1. CASE UNCHANGED <<buffers, inbox, poolVars>>
    BY <2>1, <1>1 DEF SelectorTypes, PoolTypes, TaskTypes, ClientTypes, RunnableExists, Acquainted, poolVars
  <2>2. CASE ReadBuffer(h)
    <3>1. PICK k \in 1 .. Len(inbox[h]) :
            /\ buffers' = [buffers EXCEPT ![h] = Append(@, SubSeq(inbox[h], 1, k))]
            /\ inbox' = [inbox EXCEPT ![h] = SubSeq(@, k + 1, Len(@))]
      BY <2>2 DEF ReadBuffer
    <3>2. /\ submitted[h] < MaxFrames
          /\ submitted' = [submitted EXCEPT ![h] = @ + 1]
          /\ running' \in {running, running \cup {h}}
          /\ done' = done
      BY <2>2 DEF ReadBuffer, Pool!Submit
    <3>3. inbox[h] \in Seq(Frames)
      BY DEF ClientTypes
    <3>4. /\ SubSeq(inbox[h], 1, k) \in Seq(Frames)
          /\ SubSeq(inbox[h], k + 1, Len(inbox[h])) \in Seq(Frames)
      BY <3>1, <3>3
    <3>5. buffers'[h] \in Seq(Seq(Frames)) /\ Len(buffers'[h]) = Len(buffers[h]) + 1
      BY <3>1, <3>4 DEF TaskTypes
    <3>6. PoolTypes'
      BY <3>2, MaxFramesAssumption DEF PoolTypes
    <3>7. TaskTypes'
      BY <1>1, <3>1, <3>5 DEF TaskTypes
    <3>8. ClientTypes'
      BY <1>1, <3>1, <3>4 DEF ClientTypes
    <3>9. RunnableExists'
      BY <3>1, <3>2, <3>5 DEF RunnableExists, PoolTypes, TaskTypes
    <3>10. Acquainted'
      BY <1>1, <3>2 DEF Acquainted, PoolTypes, SelectorTypes
    <3>11. QED
      BY <3>6, <3>7, <3>8, <3>9, <3>10
  <2>3. QED
    BY <1>2, <2>1, <2>2
<1>6. QueuedIsWatched' /\ WrittenIsWatched' /\ TasksWake'
  BY <1>1 DEF QueuedIsWatched, WrittenIsWatched, TasksWake, HasTask, IsNotified, Place, HandleKey, At
<1>7. QED
  BY <1>3, <1>4, <1>5, <1>6

LEMMA WriteKeepsIInv == ASSUME IInv, NEW h \in Handlers, Write(h) \/ WriteFails(h) PROVE IInv'
<1> USE DEF IInv, Types, selectorVars, poolVars, taskVars, clientVars
<1>1. /\ open' \subseteq open
      /\ selector' \in {selector, Place("keys", Null)}
      /\ selector = Place("write", h)
      /\ UNCHANGED <<selected, selectorTasks, woken, poolVars, taskVars, clientVars, accepted,
                     interest, shouldTerminate, listed>>
  BY DEF Write, WriteFails
<1>2. /\ writeQueue' \in [Handlers -> Seq(Answers)]
      /\ half' \in [Handlers -> BOOLEAN]
      /\ \A g \in Handlers : /\ half'[g] => writeQueue'[g] # <<>>
                             /\ writeQueue'[g] # <<>> => writeQueue[g] # <<>>
  <2> USE DEF SocketTypes
  <2>1. CASE UNCHANGED <<writeQueue, half>>
    BY <2>1
  <2>2. CASE /\ writeQueue[h] # <<>>
             /\ writeQueue' = [writeQueue EXCEPT ![h] = Tail(@)]
             /\ half' = [half EXCEPT ![h] = FALSE]
    <3>1. Tail(writeQueue[h]) \in Seq(Answers)
      BY <2>2
    <3>2. QED
      BY <2>2, <3>1
  <2>3. CASE /\ writeQueue[h] # <<>>
             /\ writeQueue' = writeQueue
             /\ half' = [half EXCEPT ![h] = TRUE]
    BY <2>3
  <2>4. QED
    BY <2>1, <2>2, <2>3 DEF Write, WriteFails
<1>3. SelectorTypes'
  BY <1>1 DEF SelectorTypes, Place, Places
<1>4. SocketTypes' /\ ClientTypes'
  <2>1. accepted' = accepted /\ interest' = interest
    BY <1>1
  <2>2. QED
    BY <1>1, <1>2, <2>1 DEF SocketTypes, ClientTypes
<1>5. PoolTypes' /\ TaskTypes' /\ RunnableExists'
  BY <1>1 DEF PoolTypes, TaskTypes, RunnableExists
<1>6. Acquainted'
  BY <1>1, <1>2 DEF Acquainted
<1>7. QueuedIsWatched'
  BY <1>1, <1>2 DEF QueuedIsWatched, HasTask, IsNotified, SocketTypes
<1>8. WrittenIsWatched' /\ TasksWake'
  BY <1>1 DEF WrittenIsWatched, TasksWake, Place
<1>9. QED
  BY <1>3, <1>4, <1>5, <1>6, <1>7, <1>8

(* The end of continueWrite's loop; LookAgain goes on to Finish only with nothing queued. *)
LEMMA WrittenKeepsIInv ==
  ASSUME IInv, NEW h \in Handlers, WroteAll(h) \/ LookAgain(h) PROVE IInv'
<1> USE DEF IInv, Types, WroteAll, LookAgain, poolVars, taskVars, clientVars, socketVars
<1>1. SelectorTypes'
  BY DEF SelectorTypes, Place, Places
<1>2. SocketTypes' /\ PoolTypes' /\ TaskTypes' /\ ClientTypes' /\ RunnableExists'
  BY DEF SocketTypes, PoolTypes, TaskTypes, ClientTypes, RunnableExists
<1>3. Acquainted'
  BY DEF Acquainted
<1>4. QueuedIsWatched' /\ TasksWake'
  BY DEF QueuedIsWatched, TasksWake, HasTask, IsNotified, Place
<1>5. WrittenIsWatched'
  BY DEF WrittenIsWatched, Place
<1>6. QED
  BY <1>1, <1>2, <1>3, <1>4, <1>5

LEMMA FinishKeepsIInv == ASSUME IInv, NEW h \in Handlers, Finish(h) PROVE IInv'
<1> USE DEF IInv, Types, poolVars, taskVars, clientVars
<1>1. /\ selector = Place("finish", h)
      /\ selector' = Place("keys", Null)
      /\ open' \subseteq open
      /\ interest' \in {interest, [interest EXCEPT ![h] = {"read"}]}
      /\ UNCHANGED <<selected, selectorTasks, woken, poolVars, taskVars, clientVars,
                     accepted, writeQueue, half, shouldTerminate, listed>>
  BY DEF Finish
<1>2. SelectorTypes'
  BY <1>1 DEF SelectorTypes, Place, Places
<1>3. SocketTypes' /\ ClientTypes'
  BY <1>1 DEF SocketTypes, ClientTypes, ReadWrite
<1>4. PoolTypes' /\ TaskTypes' /\ RunnableExists'
  BY <1>1 DEF PoolTypes, TaskTypes, RunnableExists
<1>5. Acquainted'
  BY <1>1 DEF Acquainted
<1>6. QueuedIsWatched'
  <2> SUFFICES ASSUME NEW g \in open, writeQueue[g] # <<>>
               PROVE  "write" \in interest'[g] \/ HasTask(g) \/ IsNotified(g)
    BY <1>1 DEF QueuedIsWatched, HasTask, IsNotified
  <2>1. CASE g = h
    BY <2>1, <1>1 DEF WrittenIsWatched
  <2>2. CASE g # h
    BY <2>2, <1>1 DEF QueuedIsWatched, SocketTypes
  <2>3. QED
    BY <2>1, <2>2
<1>7. WrittenIsWatched' /\ TasksWake'
  BY <1>1 DEF WrittenIsWatched, TasksWake, Place
<1>8. QED
  BY <1>2, <1>3, <1>4, <1>5, <1>6, <1>7

(* Nothing is queued for a connection that is not accepted yet. *)
LEMMA AcceptKeepsIInv == ASSUME IInv, NEW h \in Handlers, Accept(h) PROVE IInv'
<1> USE DEF IInv, Types, Accept, selectorVars, poolVars, taskVars, clientVars
<1>1. SelectorTypes' /\ PoolTypes' /\ TaskTypes' /\ RunnableExists'
  BY DEF SelectorTypes, PoolTypes, TaskTypes, RunnableExists
<1>2. SocketTypes' /\ ClientTypes'
  BY DEF SocketTypes, ClientTypes, ReadWrite
<1>3. Acquainted'
  BY DEF Acquainted
<1>4. QueuedIsWatched'
  BY DEF QueuedIsWatched, Acquainted, HasTask, IsNotified, SocketTypes
<1>5. WrittenIsWatched' /\ TasksWake'
  BY DEF WrittenIsWatched, TasksWake, HasTask, IsNotified
<1>6. QED
  BY <1>1, <1>2, <1>3, <1>4, <1>5

-----------------------------------------------------------------------------
(* The pool's threads *)

LEMMA StartKeepsIInv == ASSUME IInv, NEW h \in Handlers, StartRunnable(h) PROVE IInv'
<1> USE DEF IInv, Types, StartRunnable, Pool!Start, selectorVars, taskVars, clientVars, socketVars
<1>1. SelectorTypes' /\ SocketTypes' /\ PoolTypes' /\ TaskTypes' /\ ClientTypes'
  BY DEF SelectorTypes, SocketTypes, PoolTypes, TaskTypes, ClientTypes
<1>2. RunnableExists' /\ Acquainted'
  BY DEF RunnableExists, Acquainted
<1>3. QueuedIsWatched' /\ WrittenIsWatched' /\ TasksWake'
  BY DEF QueuedIsWatched, WrittenIsWatched, TasksWake, HasTask, IsNotified
<1>4. QED
  BY <1>1, <1>2, <1>3

(* What a frame makes a runnable send goes to those listed, or to its own connection. *)
LEMMA TakingKeepsIInv ==
  ASSUME IInv, NEW h \in Handlers, TakeFrame(h),
         NEW sends \in SUBSET ((listed \cup {h}) \X Answers), toSend' = [toSend EXCEPT ![h] = sends],
         listed' \subseteq listed \cup {h},
         shouldTerminate' \in [Handlers -> BOOLEAN], throws' \in [Handlers -> BOOLEAN]
  PROVE  IInv'
<1> USE DEF IInv, Types, selectorVars, poolVars, clientVars, socketVars
<1> DEFINE n == done[h] + 1
<1>1. h \in running /\ n \in 1 .. Len(buffers[h]) /\ h \in accepted
  BY DEF TakeFrame, Idle, PoolTypes, TaskTypes, RunnableExists, Acquainted
<1>2. Buffer(h) \in Seq(Frames) /\ Buffer(h) # <<>>
  BY <1>1 DEF Buffer, TaskTypes, TakeFrame
<1>3. Tail(Buffer(h)) \in Seq(Frames)
  BY <1>2
<1>4. /\ buffers' = [buffers EXCEPT ![h] = [buffers[h] EXCEPT ![n] = Tail(Buffer(h))]]
      /\ [buffers[h] EXCEPT ![n] = Tail(Buffer(h))] \in Seq(Seq(Frames))
      /\ Len([buffers[h] EXCEPT ![n] = Tail(Buffer(h))]) = Len(buffers[h])
  BY <1>1, <1>3 DEF TakeFrame, Buffer, TaskTypes
<1>5. UNCHANGED <<selectorVars, poolVars, notify, clientVars, socketVars>>
  BY DEF TakeFrame
<1>6. SelectorTypes' /\ SocketTypes' /\ PoolTypes' /\ ClientTypes'
  BY <1>5 DEF SelectorTypes, SocketTypes, PoolTypes, ClientTypes
<1>7. TaskTypes'
  BY <1>4, <1>5 DEF TaskTypes
<1>8. RunnableExists'
  BY <1>4, <1>5 DEF RunnableExists, TaskTypes
<1>9. Acquainted'
  BY <1>1, <1>5 DEF Acquainted, TaskTypes
<1>10. QueuedIsWatched' /\ WrittenIsWatched' /\ TasksWake'
  BY <1>5 DEF QueuedIsWatched, WrittenIsWatched, TasksWake, HasTask, IsNotified
<1>11. QED
  BY <1>6, <1>7, <1>8, <1>9, <1>10

LEMMA ProcessKeepsIInv == ASSUME IInv, NEW h \in Handlers, Process(h) PROVE IInv'
<1> DEFINE f == Head(Buffer(h))
<1>1. /\ TakeFrame(h)
      /\ toSend' = [toSend EXCEPT ![h] = Sends(h, f)]
      /\ listed' \subseteq listed \cup {h}
      /\ shouldTerminate' = [shouldTerminate EXCEPT ![h] = f = "LEAVE" \/ ~Admitted(h, f)]
      /\ throws' = [throws EXCEPT ![h] = ~Admitted(h, f) /\ h \notin listed]
  BY DEF Process
<1>2. Sends(h, f) \subseteq (listed \cup {h}) \X Answers
  BY DEF Sends, Answers
<1>3. shouldTerminate' \in [Handlers -> BOOLEAN] /\ throws' \in [Handlers -> BOOLEAN]
  BY <1>1 DEF IInv, Types, SocketTypes, TaskTypes, SelectorTypes, PoolTypes, ClientTypes
<1>4. QED
  BY <1>1, <1>2, <1>3, TakingKeepsIInv

LEMMA LoginInUseKeepsIInv == ASSUME IInv, NEW h \in Handlers, UserAlreadyLoggedIn(h) PROVE IInv'
<1>1. /\ TakeFrame(h)
      /\ toSend' = [toSend EXCEPT ![h] = {<<h, "ERROR">>}]
      /\ UNCHANGED <<listed, throws>>
      /\ shouldTerminate' = [shouldTerminate EXCEPT ![h] = FALSE]
  BY DEF UserAlreadyLoggedIn
<1>2. {<<h, "ERROR">>} \subseteq (listed \cup {h}) \X Answers
  BY DEF Answers
<1>3. shouldTerminate' \in [Handlers -> BOOLEAN] /\ throws' \in [Handlers -> BOOLEAN]
  BY <1>1 DEF IInv, Types, SocketTypes, TaskTypes, SelectorTypes, PoolTypes, ClientTypes
<1>4. QED
  BY <1>1, <1>2, <1>3, TakingKeepsIInv

(* What is queued is watched: the thread that queued it is about to leave a task. *)
LEMMA SendKeepsIInv == ASSUME IInv, NEW h \in Handlers, Send(h) PROVE IInv'
<1> USE DEF IInv, Types, selectorVars, poolVars, clientVars
<1>1. PICK s \in toSend[h] :
        /\ writeQueue' = [writeQueue EXCEPT ![s[1]] = Append(@, s[2])]
        /\ toSend' = [toSend EXCEPT ![h] = @ \ {s}]
        /\ notify' = [notify EXCEPT ![h] = s[1]]
  BY DEF Send
<1>2. /\ notify[h] = Null
      /\ UNCHANGED <<selectorVars, poolVars, buffers, throws, clientVars, accepted, open,
                     interest, half, shouldTerminate, listed>>
  BY DEF Send
<1>3. s[1] \in Handlers /\ s[2] \in Answers /\ s[1] \in accepted
  BY DEF TaskTypes, Acquainted
<1>4. /\ writeQueue' \in [Handlers -> Seq(Answers)]
      /\ writeQueue'[s[1]] # <<>>
      /\ \A g \in Handlers \ {s[1]} : writeQueue'[g] = writeQueue[g]
  BY <1>1, <1>3, AppendOccurs DEF SocketTypes
<1>5. IsNotified(s[1])' /\ \A g \in Handlers : IsNotified(g) => IsNotified(g)'
  BY <1>1, <1>2, NullIsNoHandler DEF IsNotified, TaskTypes
<1>6. SelectorTypes' /\ PoolTypes' /\ ClientTypes' /\ RunnableExists'
  BY <1>2 DEF SelectorTypes, PoolTypes, ClientTypes, RunnableExists
<1>7. SocketTypes'
  BY <1>2, <1>3, <1>4 DEF SocketTypes
<1>8. TaskTypes'
  BY <1>1, <1>2, <1>3 DEF TaskTypes
<1>9. Acquainted'
  BY <1>1, <1>2, <1>3, <1>4 DEF Acquainted, TaskTypes
<1>10. QueuedIsWatched'
  BY <1>2, <1>4, <1>5 DEF QueuedIsWatched, SocketTypes, HasTask
<1>11. WrittenIsWatched' /\ TasksWake'
  BY <1>2, <1>4, <1>5 DEF WrittenIsWatched, TasksWake, HasTask
<1>12. QED
  BY <1>6, <1>7, <1>8, <1>9, <1>10, <1>11

LEMMA UpdateKeepsIInv == ASSUME IInv, NEW h \in Handlers, UpdateInterestedOps(h) PROVE IInv'
<1> USE DEF IInv, Types, UpdateInterestedOps, poolVars, clientVars, socketVars
<1>1. PICK d \in Handlers : d = notify[h]
  BY DEF TaskTypes
<1>2. /\ selectorTasks' \in Seq(Handlers)
      /\ HasTask(d)'
      /\ \A g : HasTask(g) => HasTask(g)'
  BY <1>1, AppendOccurs DEF HasTask, SelectorTypes
<1>3. \A g \in Handlers : IsNotified(g) => IsNotified(g)' \/ g = d
  BY <1>1 DEF IsNotified, TaskTypes
<1>4. SelectorTypes' /\ SocketTypes' /\ PoolTypes' /\ ClientTypes'
  BY <1>2 DEF SelectorTypes, SocketTypes, PoolTypes, ClientTypes
<1>5. TaskTypes' /\ RunnableExists'
  BY DEF TaskTypes, RunnableExists
<1>6. Acquainted'
  BY DEF Acquainted
<1>7. QueuedIsWatched'
  BY <1>2, <1>3 DEF QueuedIsWatched, SocketTypes
<1>8. WrittenIsWatched' /\ TasksWake'
  BY <1>2, <1>3 DEF WrittenIsWatched, TasksWake
<1>9. QED
  BY <1>4, <1>5, <1>6, <1>7, <1>8

LEMMA EndKeepsIInv == ASSUME IInv, NEW h \in Handlers, EndRunnable(h) PROVE IInv'
<1> USE DEF IInv, Types, EndRunnable, Pool!End, selectorVars, clientVars, socketVars
<1>1. done[h] < submitted[h] /\ h \in Handlers
  BY DEF RunnableExists
<1>2. SelectorTypes' /\ SocketTypes' /\ TaskTypes' /\ ClientTypes'
  BY DEF SelectorTypes, SocketTypes, TaskTypes, ClientTypes
<1>3. PoolTypes' /\ RunnableExists'
  BY <1>1, MaxFramesAssumption DEF PoolTypes, RunnableExists
<1>4. Acquainted'
  BY DEF Acquainted
<1>5. QueuedIsWatched' /\ WrittenIsWatched' /\ TasksWake'
  BY DEF QueuedIsWatched, WrittenIsWatched, TasksWake, HasTask, IsNotified
<1>6. QED
  BY <1>2, <1>3, <1>4, <1>5

-----------------------------------------------------------------------------
(* The clients *)

LEMMA ClientKeepsIInv ==
  ASSUME IInv, NEW h \in Handlers, (\E f \in Frames : ClientSends(h, f)) \/ ClientGoes(h)
  PROVE  IInv'
<1> USE DEF IInv, Types, ClientSends, ClientGoes, selectorVars, poolVars, taskVars, socketVars
<1>1. ClientTypes'
  <2>1. CASE ClientGoes(h)
    BY <2>1 DEF ClientTypes
  <2>2. ASSUME NEW f \in Frames, ClientSends(h, f)
        PROVE  ClientTypes'
    <3>1. Append(inbox[h], f) \in Seq(Frames)
      BY DEF ClientTypes
    <3>2. QED
      BY <2>2, <3>1, MaxFramesAssumption DEF ClientTypes
  <2>3. QED
    BY <2>1, <2>2
<1>2. SelectorTypes' /\ SocketTypes' /\ PoolTypes' /\ TaskTypes' /\ RunnableExists'
  BY DEF SelectorTypes, SocketTypes, PoolTypes, TaskTypes, RunnableExists
<1>3. Acquainted'
  BY DEF Acquainted
<1>4. QueuedIsWatched' /\ WrittenIsWatched' /\ TasksWake'
  BY DEF QueuedIsWatched, WrittenIsWatched, TasksWake, HasTask, IsNotified
<1>5. QED
  BY <1>1, <1>2, <1>3, <1>4

-----------------------------------------------------------------------------
LEMMA NextIInv == IInv /\ [Next]_vars => IInv'
<1> SUFFICES ASSUME IInv, [Next]_vars PROVE IInv'
  OBVIOUS
<1>1. CASE SelectorStep
  BY <1>1, SelectKeepsIInv, RunTaskKeepsIInv, MovesKeepIInv, HandleKeyKeepsIInv, WriteKeepsIInv,
     WrittenKeepsIInv, FinishKeepsIInv DEF SelectorStep
<1>2. ASSUME NEW h \in Handlers, Accept(h) \/ PoolStep(h)
      PROVE  IInv'
  BY <1>2, AcceptKeepsIInv, StartKeepsIInv, ProcessKeepsIInv, LoginInUseKeepsIInv,
     SendKeepsIInv, UpdateKeepsIInv, EndKeepsIInv DEF PoolStep
<1>3. ASSUME NEW h \in Handlers, (\E f \in Frames : ClientSends(h, f)) \/ ClientGoes(h)
      PROVE  IInv'
  BY <1>3, ClientKeepsIInv
<1>4. CASE UNCHANGED vars
  <2> USE <1>4 DEF IInv, Types, vars, selectorVars, poolVars, taskVars, clientVars, socketVars
  <2>1. Types' /\ RunnableExists' /\ Acquainted'
    BY DEF SelectorTypes, SocketTypes, PoolTypes, TaskTypes, ClientTypes, RunnableExists, Acquainted
  <2>2. QueuedIsWatched' /\ WrittenIsWatched' /\ TasksWake'
    BY DEF QueuedIsWatched, WrittenIsWatched, TasksWake, HasTask, IsNotified
  <2>3. QED
    BY <2>1, <2>2
<1>5. QED
  BY <1>1, <1>2, <1>3, <1>4 DEF Next, ServerStep, Frames

(* The inductive invariant holds in every state of the reactor. *)
THEOREM Invariance == Spec => []IInv
BY InitIInv, NextIInv, PTL DEF Spec

(* Every state is of the declared types; what is partly written is still queued. *)
THEOREM TypeCorrect == Spec => []TypeOK
BY Invariance, IInvImplies, PTL

(* However send, updateInterestedOps and continueWrite interleave, a frame queued for an
   open connection has its key interested in writing or a task on the way, and a task
   left for the selector finds it awake. *)
THEOREM WakeupsAreKept == Spec => []NoWakeupIsLost
BY Invariance, IInvImplies, PTL
==============================================================================
