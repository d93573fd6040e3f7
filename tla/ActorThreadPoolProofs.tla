------------------------ MODULE ActorThreadPoolProofs ------------------------
(***************************************************************************)
(* The pool's mutual exclusion and order, for any actors, any number of    *)
(* threads and any number of runnables.                                    *)
(*                                                                         *)
(* The inductive invariant says of what the executor holds (a thread's     *)
(* work, or an entry of its queue) that it is its actor's only one, that   *)
(* its actor is marked as playing, and which runnable it is: the one after *)
(* those done, and the one before those pending.                           *)
(***************************************************************************)
EXTENDS ActorThreadPool, TLAPS

HasWork(x) == x.state \in {"running", "ended"}

(* OneRunnablePerActor, of the threads' states ts and the executor's queue q *)
Exclusive(ts, q) ==
  /\ \A t, s \in Threads : HasWork(ts[t]) /\ HasWork(ts[s]) /\ ts[t].act = ts[s].act => t = s
  /\ \A j, k \in DOMAIN q : q[j][1] = q[k][1] => j = k
  /\ \A t \in Threads, k \in DOMAIN q : HasWork(ts[t]) => ts[t].act # q[k][1]

(* Nothing of actor a is with the executor. *)
Unheld(ts, q, a) ==
  /\ \A t \in Threads : HasWork(ts[t]) => ts[t].act # a
  /\ \A k \in DOMAIN q : q[k][1] # a

(* The n-th runnable of a may be with the executor, when ds[a] have ended, ss[a] were
   submitted, and ps[a] are pending. *)
InTurn(a, n, ss, ps, play) == a \in play /\ n = ss[a] - Len(ps[a])

HeldInTurn(ts, q, ds, ss, ps, play) ==
  /\ \A t \in Threads :
       HasWork(ts[t]) =>
         /\ InTurn(ts[t].act, ts[t].task, ss, ps, play)
         /\ ts[t].task = IF ts[t].state = "running" THEN ds[ts[t].act] + 1 ELSE ds[ts[t].act]
  /\ \A k \in DOMAIN q :
       /\ InTurn(q[k][1], q[k][2], ss, ps, play)
       /\ q[k][2] = ds[q[k][1]] + 1

PendingInOrder ==
  \A a \in Actors :
    /\ \A i \in 1 .. Len(pending[a]) : pending[a][i] = submitted[a] - Len(pending[a]) + i
    /\ a \notin playingNow => pending[a] = <<>> /\ done[a] = submitted[a]

IInv ==
  /\ TypeOK
  /\ Exclusive(thread, queue)
  /\ HeldInTurn(thread, queue, done, submitted, pending, playingNow)
  /\ PendingInOrder
  /\ WhoeverPlaysIsHeld

-----------------------------------------------------------------------------
(* Thread states *)

LEMMA IdleStates ==
  \A x \in {NotStarted, Waiting, Dead} : x \in ThreadStates /\ ~HasWork(x)
<1>1. ~HasWork(NotStarted) /\ ~HasWork(Waiting) /\ ~HasWork(Dead)
  BY DEF NotStarted, Waiting, Dead, HasWork
<1>2. QED
  BY <1>1 DEF ThreadStates

LEMMA RunningState ==
  ASSUME NEW a \in Actors, NEW n \in 1 .. MaxTasks
  PROVE  /\ Running(a, n) \in ThreadStates
         /\ Running(a, n).state = "running"
         /\ Running(a, n).act = a
         /\ Running(a, n).task = n
         /\ HasWork(Running(a, n))
BY DEF Running, ThreadStates, HasWork

LEMMA EndedState ==
  ASSUME NEW a \in Actors, NEW n \in 1 .. MaxTasks, NEW b \in BOOLEAN
  PROVE  /\ Ended(a, n, b) \in ThreadStates
         /\ Ended(a, n, b).state = "ended"
         /\ Ended(a, n, b).act = a
         /\ Ended(a, n, b).task = n
         /\ HasWork(Ended(a, n, b))
BY DEF Ended, ThreadStates, HasWork

LEMMA WorkingState ==
  ASSUME NEW x \in ThreadStates, HasWork(x)
  PROVE  x.act \in Actors /\ x.task \in 1 .. MaxTasks
<1>1. x \notin {NotStarted, Waiting, Dead}
  BY IdleStates
<1>2. CASE \E a \in Actors, n \in 1 .. MaxTasks : x = Running(a, n)
  BY <1>2, RunningState
<1>3. CASE \E a \in Actors, n \in 1 .. MaxTasks, b \in BOOLEAN : x = Ended(a, n, b)
  BY <1>3, EndedState
<1>4. QED
  BY <1>1, <1>2, <1>3 DEF ThreadStates

-----------------------------------------------------------------------------
(* The executor takes a runnable *)

(* The executor holds runnable n of a, and otherwise what it held with the threads
   in the states ts. *)
NowHolds(ts, a, n) ==
  /\ thread' \in [Threads -> ThreadStates]
  /\ queue' \in Seq(Actors \X (1 .. MaxTasks))
  /\ \/ \E t \in Threads : thread'[t] = Running(a, n)
     \/ \E k \in DOMAIN queue' : queue'[k][1] = a
  /\ \A t \in Threads : thread'[t] = ts[t] \/ thread'[t] = Running(a, n)
  /\ \A t \in Threads : HasWork(ts[t]) => thread'[t] = ts[t]
  /\ \A k \in DOMAIN queue' :
       queue'[k] = <<a, n>> \/ (k \in DOMAIN queue /\ queue'[k] = queue[k])
  /\ \A k \in DOMAIN queue : k \in DOMAIN queue' /\ queue'[k] = queue[k]

LEMMA ExecuteHolds ==
  ASSUME queue \in Seq(Actors \X (1 .. MaxTasks)),
         NEW ts, ts \in [Threads -> ThreadStates],
         \A t \in Threads : thread[t] \in {NotStarted, Dead} => ~HasWork(ts[t]),
         NEW a \in Actors, NEW n \in 1 .. MaxTasks, Execute(ts, a, n),
         Exclusive(ts, queue), Unheld(ts, queue, a)
  PROVE  NowHolds(ts, a, n) /\ Exclusive(thread', queue')
<1>1. /\ Running(a, n) \in ThreadStates
      /\ HasWork(Running(a, n))
      /\ Running(a, n).act = a
  BY RunningState
<1>2. ASSUME NEW t \in Threads, thread[t] \in {NotStarted, Dead},
             thread' = [ts EXCEPT ![t] = Running(a, n)], queue' = queue
      PROVE  NowHolds(ts, a, n) /\ Exclusive(thread', queue')
  <2>1. ~HasWork(ts[t])
    BY <1>2
  <2>2. NowHolds(ts, a, n)
    BY <1>1, <1>2, <2>1 DEF NowHolds
  <2>3. Exclusive(thread', queue')
    BY <1>1, <1>2, <2>1 DEF Exclusive, Unheld
  <2>4. QED
    BY <2>2, <2>3
<1>3. ASSUME thread' = ts, queue' = Append(queue, <<a, n>>)
      PROVE  NowHolds(ts, a, n) /\ Exclusive(thread', queue')
  <2>1. /\ queue' \in Seq(Actors \X (1 .. MaxTasks))
        /\ DOMAIN queue = 1 .. Len(queue)
        /\ DOMAIN queue' = 1 .. Len(queue) + 1
        /\ Len(queue) \in Nat
        /\ \A k \in 1 .. Len(queue) : queue'[k] = queue[k]
        /\ queue'[Len(queue) + 1] = <<a, n>>
    BY <1>3
  <2>2. \A k \in DOMAIN queue' :
          queue'[k] = <<a, n>> \/ (k \in DOMAIN queue /\ queue'[k] = queue[k])
    BY <2>1
  <2>3. Len(queue) + 1 \in DOMAIN queue' /\ queue'[Len(queue) + 1][1] = a
    BY <2>1
  <2>4. NowHolds(ts, a, n)
    <3>1. \E k \in DOMAIN queue' : queue'[k][1] = a
      BY <2>3
    <3>2. \A k \in DOMAIN queue : k \in DOMAIN queue' /\ queue'[k] = queue[k]
      BY <2>1
    <3>3. QED
      BY <1>3, <2>1, <2>2, <3>1, <3>2 DEF NowHolds
  <2>5. \A k \in DOMAIN queue : queue[k][1] # a
    BY DEF Unheld
  <2>6. \A k \in DOMAIN queue' :
          \/ k = Len(queue) + 1 /\ queue'[k][1] = a
          \/ k \in DOMAIN queue /\ queue'[k][1] = queue[k][1] /\ queue'[k][1] # a
    BY <2>1, <2>3, <2>5
  <2>7. \A j, k \in DOMAIN queue' : queue'[j][1] = queue'[k][1] => j = k
    BY <2>6 DEF Exclusive
  <2>8. \A t \in Threads, k \in DOMAIN queue' :
          HasWork(thread'[t]) => thread'[t].act # queue'[k][1]
    BY <1>3, <2>6 DEF Exclusive, Unheld
  <2>9. QED
    BY <1>3, <2>4, <2>7, <2>8 DEF Exclusive
<1>4. QED
  BY <1>2, <1>3 DEF Execute

-----------------------------------------------------------------------------
(* The invariant *)

LEMMA InitIInv == Init => IInv
<1> SUFFICES ASSUME Init PROVE IInv
  OBVIOUS
<1>1. \A t \in Threads : thread[t] \in ThreadStates /\ ~HasWork(thread[t])
  BY IdleStates DEF Init
<1>2. TypeOK
  <2>1. 0 \in 0 .. MaxTasks
    BY MaxTasksAssumption
  <2>2. NotStarted \in ThreadStates
    BY IdleStates
  <2>3. /\ submitted \in [Actors -> 0 .. MaxTasks]
        /\ done \in [Actors -> 0 .. MaxTasks]
    BY <2>1 DEF Init
  <2>4. thread \in [Threads -> ThreadStates]
    BY <2>2 DEF Init
  <2>5. pending \in [Actors -> Seq(1 .. MaxTasks)]
    BY DEF Init
  <2>6. queue \in Seq(Actors \X (1 .. MaxTasks))
    BY DEF Init
  <2>7. QED
    BY <2>3, <2>4, <2>5, <2>6 DEF Init, TypeOK
<1>3. Exclusive(thread, queue)
  BY <1>1 DEF Init, Exclusive
<1>4. HeldInTurn(thread, queue, done, submitted, pending, playingNow)
  BY <1>1 DEF Init, HeldInTurn
<1>5. PendingInOrder
  <2>1. \A a \in Actors :
          pending[a] = <<>> /\ Len(pending[a]) = 0 /\ done[a] = submitted[a]
    BY DEF Init
  <2>2. \A a \in Actors : \A i \in 1 .. Len(pending[a]) : FALSE
    <3>1. \A i \in 1 .. 0 : FALSE
      OBVIOUS
    <3>2. QED
      BY <2>1, <3>1
  <2>3. QED
    BY <2>1, <2>2 DEF PendingInOrder
<1>6. WhoeverPlaysIsHeld
  BY DEF Init, WhoeverPlaysIsHeld
<1>7. QED
  BY <1>2, <1>3, <1>4, <1>5, <1>6 DEF IInv

LEMMA PendingFacts ==
  ASSUME TypeOK, NEW a \in Actors
  PROVE  /\ pending[a] \in Seq(1 .. MaxTasks)
         /\ Len(pending[a]) \in Nat
         /\ DOMAIN pending[a] = 1 .. Len(pending[a])
         /\ submitted[a] \in 0 .. MaxTasks
         /\ done[a] \in 0 .. MaxTasks
BY DEF TypeOK

(* A runnable of an actor that does not play goes to the executor. *)
LEMMA SubmitToIdleActor ==
  ASSUME IInv, NEW a \in Actors, submit(a), a \notin playingNow
  PROVE  IInv'
<1> DEFINE n == submitted[a] + 1
<1>1. /\ n \in 1 .. MaxTasks
      /\ pending[a] = <<>>
      /\ done[a] = submitted[a]
      /\ n - 1 = done[a]
  BY MaxTasksAssumption DEF IInv, TypeOK, PendingInOrder, submit
<1>2. /\ Execute(thread, a, n)
      /\ submitted' = [submitted EXCEPT ![a] = n]
      /\ playingNow' = playingNow \cup {a}
      /\ UNCHANGED <<pending, done, isShutdown>>
      /\ ~isShutdown
  BY DEF submit
<1>3. Unheld(thread, queue, a)
  BY DEF IInv, HeldInTurn, InTurn, Unheld
<1>4. NowHolds(thread, a, n) /\ Exclusive(thread', queue')
  <2>1. \A t \in Threads : thread[t] \in {NotStarted, Dead} => ~HasWork(thread[t])
    BY IdleStates
  <2>2. QED
    BY <1>1, <1>2, <1>3, <2>1, ExecuteHolds DEF IInv, TypeOK
<1>5. Running(a, n).act = a /\ Running(a, n).task = n /\ Running(a, n).state = "running"
      /\ HasWork(Running(a, n))
  BY <1>1, RunningState
<1>6. TypeOK'
  BY <1>1, <1>2, <1>4 DEF IInv, TypeOK, NowHolds
<1>7. \A b \in Actors : b # a => submitted'[b] = submitted[b]
  BY <1>2 DEF IInv, TypeOK
<1>8. submitted'[a] = n /\ pending'[a] = <<>> /\ a \in playingNow' /\ done'[a] = n - 1
  BY <1>1, <1>2 DEF IInv, TypeOK
<1>9. HeldInTurn(thread, queue, done, submitted', pending, playingNow')
  <2>1. \A t \in Threads : HasWork(thread[t]) => thread[t].act \in Actors
    BY WorkingState DEF IInv, TypeOK
  <2>2. \A k \in DOMAIN queue : queue[k][1] \in Actors
    BY DEF IInv, TypeOK
  <2>3. QED
    BY <1>2, <1>3, <1>7, <2>1, <2>2 DEF IInv, HeldInTurn, InTurn, Unheld
<1>10. HeldInTurn(thread', queue', done', submitted', pending', playingNow')
  <2>1. InTurn(a, n, submitted', pending', playingNow') /\ n = done'[a] + 1
    BY <1>1, <1>8 DEF InTurn
  <2>2. \A k \in DOMAIN queue' : queue'[k] = <<a, n>> =>
           queue'[k][1] = a /\ queue'[k][2] = n
    OBVIOUS
  <2>3. QED
    BY <1>2, <1>4, <1>5, <1>9, <2>1, <2>2 DEF HeldInTurn, NowHolds
<1>11. PendingInOrder'
  BY <1>2, <1>7, <1>8 DEF IInv, PendingInOrder
<1>12. WhoeverPlaysIsHeld'
  <2>1. \/ \E t \in Threads : Busy(t)' /\ thread'[t].act = a
        \/ \E k \in DOMAIN queue' : queue'[k][1] = a
    BY <1>4, <1>5 DEF NowHolds, Busy, HasWork
  <2>2. \A b \in playingNow :
          \/ \E t \in Threads : Busy(t)' /\ thread'[t].act = b
          \/ \E k \in DOMAIN queue' : queue'[k][1] = b
    BY <1>2, <1>4 DEF IInv, WhoeverPlaysIsHeld, NowHolds, Busy, HasWork
  <2>3. QED
    BY <1>2, <2>1, <2>2 DEF IInv, WhoeverPlaysIsHeld
<1>13. QED
  BY <1>4, <1>6, <1>10, <1>11, <1>12 DEF IInv

(* A runnable of an actor that plays waits in the actor's queue. *)
LEMMA SubmitToPlayingActor ==
  ASSUME IInv, NEW a \in Actors, submit(a), a \in playingNow
  PROVE  IInv'
<1> DEFINE n == submitted[a] + 1
           len == Len(pending[a])
<1>1. /\ n \in 1 .. MaxTasks
      /\ submitted' = [submitted EXCEPT ![a] = n]
      /\ pending' = [pending EXCEPT ![a] = Append(@, n)]
      /\ UNCHANGED <<done, playingNow, queue, thread, isShutdown>>
  BY MaxTasksAssumption DEF IInv, TypeOK, submit
<1>2. /\ pending[a] \in Seq(1 .. MaxTasks)
      /\ len \in Nat
      /\ DOMAIN pending[a] = 1 .. len
      /\ submitted[a] \in Nat
  BY PendingFacts DEF IInv
<1>3. /\ pending'[a] = Append(pending[a], n)
      /\ submitted'[a] = n
      /\ \A b \in Actors : b # a => pending'[b] = pending[b] /\ submitted'[b] = submitted[b]
  BY <1>1 DEF IInv, TypeOK
<1>4. /\ Append(pending[a], n) \in Seq(1 .. MaxTasks)
      /\ Len(pending'[a]) = len + 1
      /\ DOMAIN pending'[a] = 1 .. len + 1
      /\ \A i \in 1 .. len : pending'[a][i] = pending[a][i]
      /\ pending'[a][len + 1] = n
  BY <1>1, <1>2, <1>3
<1>5. TypeOK'
  BY <1>1, <1>4 DEF IInv, TypeOK
<1>6. \A b \in Actors : submitted'[b] - Len(pending'[b]) = submitted[b] - Len(pending[b])
  <2>1. submitted'[a] - Len(pending'[a]) = submitted[a] - Len(pending[a])
    BY <1>2, <1>3, <1>4
  <2>2. QED
    BY <1>3, <2>1
<1>7. Exclusive(thread', queue')
  BY <1>1 DEF IInv
<1>8. HeldInTurn(thread', queue', done', submitted', pending', playingNow')
  <2>1. \A t \in Threads : HasWork(thread[t]) => thread[t].act \in Actors
    BY WorkingState DEF IInv, TypeOK
  <2>2. \A k \in DOMAIN queue : queue[k][1] \in Actors
    BY DEF IInv, TypeOK
  <2>3. QED
    BY <1>1, <1>6, <2>1, <2>2 DEF IInv, HeldInTurn, InTurn
<1>9. PendingInOrder'
  <2>1. \A i \in 1 .. Len(pending'[a]) :
          pending'[a][i] = submitted'[a] - Len(pending'[a]) + i
    <3>1. \A i \in 1 .. len : pending[a][i] = submitted[a] - len + i
      BY <1>2 DEF IInv, PendingInOrder
    <3>2. submitted'[a] - Len(pending'[a]) = submitted[a] - len
      BY <1>6
    <3>3. pending'[a][len + 1] = submitted[a] - len + (len + 1)
      <4>1. \A x, y \in Nat : x - y + (y + 1) = x + 1
        OBVIOUS
      <4>2. submitted[a] - len + (len + 1) = n
        BY <1>2, <4>1
      <4>3. QED
        BY <4>2, <1>4
    <3>4. QED
      BY <1>2, <1>4, <3>1, <3>2, <3>3
  <2>2. QED
    BY <1>1, <1>3, <2>1 DEF IInv, PendingInOrder
<1>10. WhoeverPlaysIsHeld'
  <2>1. \A b \in Actors : pending'[b] # <<>> => b \in playingNow
    BY <1>3 DEF IInv, WhoeverPlaysIsHeld
  <2>2. QED
    BY <1>1, <2>1 DEF IInv, WhoeverPlaysIsHeld, Busy
<1>11. QED
  BY <1>5, <1>7, <1>8, <1>9, <1>10 DEF IInv

(* A thread takes the head of the executor's queue. *)
LEMMA TakeKeepsIInv ==
  ASSUME IInv, NEW t \in Threads, Take(t)
  PROVE  IInv'
<1> DEFINE a == Head(queue)[1]
           n == Head(queue)[2]
<1>1. /\ thread[t] = Waiting
      /\ thread' = [thread EXCEPT ![t] = Running(a, n)]
      /\ queue' = Tail(queue)
      /\ UNCHANGED <<submitted, done, pending, playingNow, isShutdown>>
  BY DEF Take
<1>2. /\ queue \in Seq(Actors \X (1 .. MaxTasks))
      /\ queue # <<>>
  BY DEF IInv, TypeOK, Take
<1>3. /\ Len(queue) \in Nat \ {0}
      /\ DOMAIN queue = 1 .. Len(queue)
      /\ 1 \in DOMAIN queue
      /\ Head(queue) = queue[1]
      /\ queue' \in Seq(Actors \X (1 .. MaxTasks))
      /\ DOMAIN queue' = 1 .. Len(queue) - 1
      /\ \A k \in 1 .. Len(queue) - 1 : queue'[k] = queue[k + 1]
  BY <1>1, <1>2
<1>4. a \in Actors /\ n \in 1 .. MaxTasks
  BY <1>2, <1>3
<1>5. /\ Running(a, n) \in ThreadStates
      /\ HasWork(Running(a, n))
      /\ Running(a, n).act = a
      /\ Running(a, n).task = n
      /\ Running(a, n).state = "running"
  BY <1>4, RunningState
<1>6. ~HasWork(thread[t])
  BY <1>1, IdleStates
<1>7. /\ thread' \in [Threads -> ThreadStates]
      /\ thread'[t] = Running(a, n)
      /\ \A s \in Threads : s # t => thread'[s] = thread[s]
  BY <1>1, <1>5 DEF IInv, TypeOK
<1>8. TypeOK'
  BY <1>1, <1>3, <1>7 DEF IInv, TypeOK
<1>9. \A k \in DOMAIN queue' :
        k + 1 \in DOMAIN queue /\ k + 1 # 1 /\ queue'[k] = queue[k + 1]
  BY <1>3
<1>10. Exclusive(thread', queue')
  <2>1. \A k \in DOMAIN queue' : queue'[k][1] # a
    BY <1>3, <1>9 DEF IInv, Exclusive
  <2>2. \A s \in Threads : HasWork(thread[s]) => thread[s].act # a
    BY <1>3 DEF IInv, Exclusive
  <2>3. \A s, r \in Threads :
          HasWork(thread'[s]) /\ HasWork(thread'[r]) /\ thread'[s].act = thread'[r].act => s = r
    BY <1>5, <1>7, <2>2 DEF IInv, Exclusive
  <2>4. \A j, k \in DOMAIN queue' : queue'[j][1] = queue'[k][1] => j = k
    <3>1. SUFFICES ASSUME NEW j \in DOMAIN queue', NEW k \in DOMAIN queue',
                          queue'[j][1] = queue'[k][1]
                   PROVE  j = k
      OBVIOUS
    <3>2. j + 1 = k + 1
      BY <1>9, <3>1 DEF IInv, Exclusive
    <3>3. QED
      BY <1>3, <3>2
  <2>5. \A s \in Threads, k \in DOMAIN queue' : HasWork(thread'[s]) => thread'[s].act # queue'[k][1]
    BY <1>5, <1>7, <1>9, <2>1 DEF IInv, Exclusive
  <2>6. QED
    BY <2>3, <2>4, <2>5 DEF Exclusive
<1>11. HeldInTurn(thread', queue', done', submitted', pending', playingNow')
  <2>1. InTurn(a, n, submitted, pending, playingNow) /\ n = done[a] + 1
    BY <1>3 DEF IInv, HeldInTurn
  <2>2. QED
    BY <1>1, <1>5, <1>7, <1>9, <2>1 DEF IInv, HeldInTurn
<1>12. PendingInOrder'
  BY <1>1 DEF IInv, PendingInOrder
<1>13. WhoeverPlaysIsHeld'
  <2>1. SUFFICES ASSUME ~isShutdown, NEW b \in playingNow
                 PROVE  \/ \E s \in Threads : Busy(s)' /\ thread'[s].act = b
                        \/ \E k \in DOMAIN queue' : queue'[k][1] = b
    BY <1>1 DEF IInv, WhoeverPlaysIsHeld
  <2>2. CASE b = a
    BY <1>5, <1>7, <2>2 DEF Busy
  <2>3. CASE \E s \in Threads : Busy(s) /\ thread[s].act = b
    BY <1>6, <1>7, <2>3 DEF Busy, HasWork
  <2>4. ASSUME NEW k \in DOMAIN queue, queue[k][1] = b, b # a
        PROVE  \E j \in DOMAIN queue' : queue'[j][1] = b
    <3>1. k # 1
      BY <1>3, <2>4
    <3>2. k - 1 \in DOMAIN queue' /\ queue'[k - 1] = queue[k]
      BY <1>3, <3>1
    <3>3. QED
      BY <3>2, <2>4
  <2>5. QED
    BY <2>1, <2>2, <2>3, <2>4 DEF IInv, WhoeverPlaysIsHeld
<1>14. QED
  BY <1>8, <1>10, <1>11, <1>12, <1>13 DEF IInv

(* A runnable ends: its number becomes the actor's count. *)
LEMMA EndRunKeepsIInv ==
  ASSUME IInv, NEW t \in Threads, EndRun(t)
  PROVE  IInv'
<1> DEFINE a == thread[t].act
           n == thread[t].task
<1>1. /\ thread[t].state = "running"
      /\ done' = [done EXCEPT ![a] = @ + 1]
      /\ UNCHANGED <<submitted, pending, playingNow, queue, isShutdown>>
  BY DEF EndRun
<1>2. PICK b \in BOOLEAN : thread' = [thread EXCEPT ![t] = Ended(a, n, b)]
  BY DEF EndRun
<1>3. HasWork(thread[t])
  BY <1>1 DEF HasWork
<1>4. a \in Actors /\ n \in 1 .. MaxTasks
  BY <1>3, WorkingState DEF IInv, TypeOK
<1>5. n = done[a] + 1 /\ InTurn(a, n, submitted, pending, playingNow)
  BY <1>1, <1>3 DEF IInv, HeldInTurn
<1>6. /\ Ended(a, n, b) \in ThreadStates
      /\ HasWork(Ended(a, n, b))
      /\ Ended(a, n, b).state = "ended"
      /\ Ended(a, n, b).act = a
      /\ Ended(a, n, b).task = n
  BY <1>4, EndedState
<1>7. /\ thread' \in [Threads -> ThreadStates]
      /\ thread'[t] = Ended(a, n, b)
      /\ \A s \in Threads : s # t => thread'[s] = thread[s]
  BY <1>2, <1>6 DEF IInv, TypeOK
<1>8. /\ done' \in [Actors -> 0 .. MaxTasks]
      /\ done'[a] = n
      /\ \A x \in Actors : x # a => done'[x] = done[x]
  BY <1>1, <1>4, <1>5 DEF IInv, TypeOK
<1>9. TypeOK'
  BY <1>1, <1>7, <1>8 DEF IInv, TypeOK
<1>10. Exclusive(thread', queue')
  BY <1>1, <1>3, <1>6, <1>7 DEF IInv, Exclusive
<1>11. HeldInTurn(thread', queue', done', submitted', pending', playingNow')
  <2>1. \A s \in Threads : s # t /\ HasWork(thread[s]) => thread[s].act \in Actors \ {a}
    BY <1>3, WorkingState DEF IInv, TypeOK, Exclusive
  <2>2. \A k \in DOMAIN queue : queue[k][1] \in Actors \ {a}
    BY <1>3 DEF IInv, TypeOK, Exclusive
  <2>3. QED
    BY <1>1, <1>5, <1>6, <1>7, <1>8, <2>1, <2>2 DEF IInv, HeldInTurn, InTurn
<1>12. PendingInOrder'
  BY <1>1, <1>5, <1>8 DEF IInv, PendingInOrder, InTurn
<1>13. WhoeverPlaysIsHeld'
  BY <1>1, <1>3, <1>6, <1>7 DEF IInv, WhoeverPlaysIsHeld, Busy, HasWork
<1>14. QED
  BY <1>9, <1>10, <1>11, <1>12, <1>13 DEF IInv

(* What complete knows of its actor: its runnable was the only one with the executor,
   and those pending follow it. *)
LEMMA BeforeComplete ==
  ASSUME IInv, NEW t \in Threads, thread[t].state = "ended"
  PROVE  LET a == thread[t].act IN
         /\ a \in Actors
         /\ a \in playingNow
         /\ done[a] = submitted[a] - Len(pending[a])
         /\ \A x \in ThreadStates :
              ~HasWork(x) =>
                /\ Exclusive([thread EXCEPT ![t] = x], queue)
                /\ Unheld([thread EXCEPT ![t] = x], queue, a)
                /\ HeldInTurn([thread EXCEPT ![t] = x], queue, done,
                              submitted, pending, playingNow)
<1> DEFINE a == thread[t].act
<1>1. HasWork(thread[t])
  BY DEF HasWork
<1>2. a \in Actors
  BY <1>1, WorkingState DEF IInv, TypeOK
<1>3. a \in playingNow /\ done[a] = submitted[a] - Len(pending[a])
  BY <1>1 DEF IInv, HeldInTurn, InTurn
<1>4. ASSUME NEW x \in ThreadStates, ~HasWork(x)
      PROVE  /\ Exclusive([thread EXCEPT ![t] = x], queue)
             /\ Unheld([thread EXCEPT ![t] = x], queue, a)
             /\ HeldInTurn([thread EXCEPT ![t] = x], queue, done,
                           submitted, pending, playingNow)
  <2> DEFINE ts == [thread EXCEPT ![t] = x]
  <2>1. ts[t] = x /\ \A s \in Threads : s # t => ts[s] = thread[s]
    BY DEF IInv, TypeOK
  <2> HIDE DEF ts
  <2>2. Exclusive(ts, queue)
    BY <1>4, <2>1 DEF IInv, Exclusive
  <2>3. Unheld(ts, queue, a)
    BY <1>1, <1>4, <2>1 DEF IInv, Exclusive, Unheld
  <2>4. HeldInTurn(ts, queue, done, submitted, pending, playingNow)
    BY <1>4, <2>1 DEF IInv, HeldInTurn
  <2>5. QED
    BY <2>2, <2>3, <2>4 DEF ts
<1>5. QED
  BY <1>2, <1>3, <1>4

(* complete of an actor with nothing pending: the actor stops playing. *)
LEMMA CompleteLast ==
  ASSUME IInv, NEW t \in Threads, thread[t].state = "ended",
         pending[thread[t].act] = <<>>,
         playingNow' = playingNow \ {thread[t].act},
         NEW x \in ThreadStates, ~HasWork(x), thread' = [thread EXCEPT ![t] = x],
         UNCHANGED <<submitted, done, pending, queue, isShutdown>>
  PROVE  IInv'
<1> DEFINE a == thread[t].act
<1>1. /\ a \in Actors
      /\ done[a] = submitted[a]
      /\ Exclusive(thread', queue')
      /\ Unheld(thread', queue', a)
      /\ HeldInTurn(thread', queue', done', submitted', pending', playingNow)
  <2>1. submitted[a] - Len(pending[a]) = submitted[a]
    BY BeforeComplete, PendingFacts DEF IInv
  <2>2. QED
    BY <2>1, BeforeComplete
<1>2. /\ thread' \in [Threads -> ThreadStates]
      /\ thread'[t] = x
      /\ \A s \in Threads : s # t => thread'[s] = thread[s]
  BY DEF IInv, TypeOK
<1>3. TypeOK'
  BY <1>2 DEF IInv, TypeOK
<1>4. HeldInTurn(thread', queue', done', submitted', pending', playingNow')
  BY <1>1 DEF HeldInTurn, InTurn, Unheld
<1>5. PendingInOrder'
  BY <1>1 DEF IInv, PendingInOrder
<1>6. WhoeverPlaysIsHeld'
  BY <1>2 DEF IInv, WhoeverPlaysIsHeld, Busy
<1>7. QED
  BY <1>1, <1>3, <1>4, <1>5, <1>6 DEF IInv

LEMMA NonEmptyQueue ==
  ASSUME NEW S, NEW p \in Seq(S), p # <<>>
  PROVE  /\ Len(p) \in Nat \ {0}
         /\ Head(p) = p[1] /\ p[1] \in S
         /\ Tail(p) \in Seq(S)
         /\ Len(Tail(p)) = Len(p) - 1
         /\ \A i \in 1 .. Len(p) - 1 : Tail(p)[i] = p[i + 1]
<1>1. Len(p) \in Nat \ {0}
  OBVIOUS
<1>2. Head(p) = p[1] /\ p[1] \in S
  BY <1>1
<1>3. Tail(p) \in Seq(S) /\ Len(Tail(p)) = Len(p) - 1
  BY <1>1
<1>4. \A i \in 1 .. Len(p) - 1 : Tail(p)[i] = p[i + 1]
  BY <1>1
<1>5. QED
  BY <1>1, <1>2, <1>3, <1>4

(* Taking the first pending runnable. *)
LEMMA PollFacts ==
  ASSUME IInv, NEW a \in Actors, pending[a] # <<>>,
         pending' = [pending EXCEPT ![a] = Tail(@)]
  PROVE  /\ pending' \in [Actors -> Seq(1 .. MaxTasks)]
         /\ Head(pending[a]) \in 1 .. MaxTasks
         /\ Head(pending[a]) = submitted[a] - Len(pending'[a])
         /\ Head(pending[a]) = submitted[a] - Len(pending[a]) + 1
         /\ \A b \in Actors : b # a => pending'[b] = pending[b]
         /\ \A i \in 1 .. Len(pending'[a]) :
              pending'[a][i] = submitted[a] - Len(pending'[a]) + i
<1> DEFINE p == pending[a]
           len == Len(pending[a])
<1>1. /\ p \in Seq(1 .. MaxTasks)
      /\ len \in Nat
      /\ submitted[a] \in Nat
      /\ \A i \in 1 .. len : p[i] = submitted[a] - len + i
  BY PendingFacts DEF IInv, PendingInOrder
<1>2. /\ len > 0
      /\ Head(p) = p[1]
      /\ Tail(p) \in Seq(1 .. MaxTasks)
      /\ Len(Tail(p)) = len - 1
      /\ \A i \in 1 .. len - 1 : Tail(p)[i] = p[i + 1]
      /\ p[1] \in 1 .. MaxTasks
  <2> DEFINE S == 1 .. MaxTasks
  <2>1. p \in Seq(S) /\ p # <<>>
    BY <1>1
  <2> HIDE DEF p, S
  <2>2. /\ Len(p) \in Nat \ {0}
        /\ Head(p) = p[1] /\ p[1] \in S
        /\ Tail(p) \in Seq(S)
        /\ Len(Tail(p)) = Len(p) - 1
        /\ \A i \in 1 .. Len(p) - 1 : Tail(p)[i] = p[i + 1]
    BY <2>1, NonEmptyQueue
  <2>3. QED
    BY <2>2 DEF p, S
<1>3. /\ pending' \in [Actors -> Seq(1 .. MaxTasks)]
      /\ pending'[a] = Tail(p)
      /\ \A b \in Actors : b # a => pending'[b] = pending[b]
  BY <1>2 DEF IInv, TypeOK
<1>4. p[1] = submitted[a] - len + 1
  BY <1>1, <1>2
<1>5. submitted[a] - (len - 1) = submitted[a] - len + 1
  BY <1>1
<1>6. ASSUME NEW i \in 1 .. len - 1
      PROVE  Tail(p)[i] = submitted[a] - (len - 1) + i
  <2>1. i + 1 \in 1 .. len
    BY <1>1
  <2>2. p[i + 1] = submitted[a] - len + (i + 1)
    BY <1>1, <2>1
  <2>3. submitted[a] - len + (i + 1) = submitted[a] - (len - 1) + i
    BY <1>1
  <2>4. QED
    BY <1>2, <2>2, <2>3
<1>7. QED
  BY <1>2, <1>3, <1>4, <1>5, <1>6

(* complete of an actor with runnables pending: the next one goes to the executor. *)
LEMMA CompleteNext ==
  ASSUME IInv, NEW t \in Threads, thread[t].state = "ended",
         pending[thread[t].act] # <<>>, ~isShutdown,
         pending' = [pending EXCEPT ![thread[t].act] = Tail(@)],
         NEW x \in ThreadStates, ~HasWork(x),
         Execute([thread EXCEPT ![t] = x], thread[t].act, Head(pending[thread[t].act])),
         UNCHANGED <<submitted, done, playingNow, isShutdown>>
  PROVE  IInv'
<1> DEFINE a  == thread[t].act
           n  == Head(pending[a])
           ts == [thread EXCEPT ![t] = x]
<1>1. /\ a \in Actors
      /\ a \in playingNow
      /\ done[a] = submitted[a] - Len(pending[a])
      /\ Exclusive(ts, queue)
      /\ Unheld(ts, queue, a)
      /\ HeldInTurn(ts, queue, done, submitted, pending, playingNow)
  BY BeforeComplete
<1>2. /\ pending' \in [Actors -> Seq(1 .. MaxTasks)]
      /\ n \in 1 .. MaxTasks
      /\ n = submitted[a] - Len(pending'[a])
      /\ n = submitted[a] - Len(pending[a]) + 1
      /\ \A b \in Actors : b # a => pending'[b] = pending[b]
      /\ \A i \in 1 .. Len(pending'[a]) :
           pending'[a][i] = submitted[a] - Len(pending'[a]) + i
  BY <1>1, PollFacts
<1>3. /\ ts \in [Threads -> ThreadStates]
      /\ ts[t] = x
      /\ \A s \in Threads : s # t => ts[s] = thread[s]
  BY DEF IInv, TypeOK
<1> HIDE DEF ts
<1>4. NowHolds(ts, a, n) /\ Exclusive(thread', queue')
  <2>1. \A s \in Threads : thread[s] \in {NotStarted, Dead} => ~HasWork(ts[s])
    BY <1>3, IdleStates
  <2>2. Execute(ts, a, n)
    BY DEF ts
  <2>3. QED
    BY <1>1, <1>2, <1>3, <2>1, <2>2, ExecuteHolds DEF IInv, TypeOK
<1>5. /\ Running(a, n).act = a
      /\ Running(a, n).task = n
      /\ Running(a, n).state = "running"
      /\ HasWork(Running(a, n))
  BY <1>1, <1>2, RunningState
<1>6. TypeOK'
  BY <1>2, <1>4 DEF IInv, TypeOK, NowHolds
<1>7. HeldInTurn(ts, queue, done, submitted, pending', playingNow)
  <2>1. \A s \in Threads : HasWork(ts[s]) => ts[s].act \in Actors \ {a}
    BY <1>1, <1>3, WorkingState DEF Unheld
  <2>2. \A k \in DOMAIN queue : queue[k][1] \in Actors \ {a}
    BY <1>1 DEF Unheld, IInv, TypeOK
  <2>3. QED
    BY <1>1, <1>2, <2>1, <2>2 DEF HeldInTurn, InTurn
<1>8. HeldInTurn(thread', queue', done', submitted', pending', playingNow')
  <2>1. InTurn(a, n, submitted', pending', playingNow') /\ n = done'[a] + 1
    BY <1>1, <1>2 DEF InTurn
  <2>2. \A k \in DOMAIN queue' : queue'[k] = <<a, n>> =>
           queue'[k][1] = a /\ queue'[k][2] = n
    OBVIOUS
  <2>3. QED
    BY <1>4, <1>5, <1>7, <2>1, <2>2 DEF HeldInTurn, NowHolds
<1>9. PendingInOrder'
  BY <1>1, <1>2 DEF IInv, PendingInOrder
<1>10. WhoeverPlaysIsHeld'
  <2>1. \/ \E s \in Threads : Busy(s)' /\ thread'[s].act = a
        \/ \E k \in DOMAIN queue' : queue'[k][1] = a
    BY <1>4, <1>5 DEF NowHolds, Busy, HasWork
  <2>2. \A b \in playingNow : b # a =>
          \/ \E s \in Threads : Busy(s)' /\ thread'[s].act = b
          \/ \E k \in DOMAIN queue' : queue'[k][1] = b
    <3>1. SUFFICES ASSUME NEW b \in playingNow, b # a
                   PROVE  \/ \E s \in Threads : Busy(s)' /\ thread'[s].act = b
                          \/ \E k \in DOMAIN queue' : queue'[k][1] = b
      OBVIOUS
    <3>2. CASE \E k \in DOMAIN queue : queue[k][1] = b
      BY <1>4, <3>2 DEF NowHolds
    <3>3. ASSUME NEW s \in Threads, Busy(s), thread[s].act = b
          PROVE  Busy(s)' /\ thread'[s].act = b
      <4>1. s # t
        BY <3>1, <3>3
      <4>2. HasWork(ts[s]) /\ ts[s] = thread[s]
        BY <1>3, <3>3, <4>1 DEF Busy, HasWork
      <4>3. thread'[s] = thread[s]
        BY <1>4, <4>2 DEF NowHolds
      <4>4. QED
        BY <3>3, <4>3 DEF Busy
    <3>4. QED
      BY <3>2, <3>3 DEF IInv, WhoeverPlaysIsHeld
  <2>3. \A b \in Actors : pending'[b] # <<>> => b \in playingNow
    BY <1>1, <1>2 DEF IInv, WhoeverPlaysIsHeld
  <2>4. QED
    BY <2>1, <2>2, <2>3 DEF WhoeverPlaysIsHeld
<1>11. QED
  BY <1>4, <1>6, <1>8, <1>9, <1>10 DEF IInv

(* complete of an actor with runnables pending, after shutdown. *)
LEMMA CompleteRejected ==
  ASSUME IInv, NEW t \in Threads, thread[t].state = "ended",
         pending[thread[t].act] # <<>>, isShutdown,
         pending' = [pending EXCEPT ![thread[t].act] = Tail(@)],
         thread' = [thread EXCEPT ![t] = Dead],
         UNCHANGED <<submitted, done, playingNow, queue, isShutdown>>
  PROVE  IInv'
<1> DEFINE a  == thread[t].act
<1>1. /\ Dead \in ThreadStates
      /\ ~HasWork(Dead)
  BY IdleStates
<1>2. /\ a \in Actors
      /\ a \in playingNow
      /\ Exclusive(thread', queue)
      /\ Unheld(thread', queue, a)
      /\ HeldInTurn(thread', queue, done, submitted, pending, playingNow)
  BY <1>1, BeforeComplete
<1>3. /\ pending' \in [Actors -> Seq(1 .. MaxTasks)]
      /\ \A b \in Actors : b # a => pending'[b] = pending[b]
      /\ \A i \in 1 .. Len(pending'[a]) :
           pending'[a][i] = submitted[a] - Len(pending'[a]) + i
  BY <1>2, PollFacts
<1>4. thread' \in [Threads -> ThreadStates]
  BY <1>1 DEF IInv, TypeOK
<1>5. TypeOK'
  BY <1>3, <1>4 DEF IInv, TypeOK
<1>6. HeldInTurn(thread', queue', done', submitted', pending', playingNow')
  <2>1. \A s \in Threads : HasWork(thread'[s]) => thread'[s].act \in Actors \ {a}
    BY <1>2, <1>4, WorkingState DEF Unheld
  <2>2. \A k \in DOMAIN queue : queue[k][1] \in Actors \ {a}
    BY <1>2 DEF Unheld, IInv, TypeOK
  <2>3. QED
    BY <1>2, <1>3, <2>1, <2>2 DEF HeldInTurn, InTurn
<1>7. PendingInOrder'
  BY <1>2, <1>3 DEF IInv, PendingInOrder
<1>8. WhoeverPlaysIsHeld'
  BY <1>2, <1>3 DEF IInv, WhoeverPlaysIsHeld
<1>9. QED
  BY <1>2, <1>5, <1>6, <1>7, <1>8 DEF IInv

LEMMA CompleteKeepsIInv ==
  ASSUME IInv, NEW t \in Threads, complete(t)
  PROVE  IInv'
<1>1. thread[t].state = "ended"
  BY DEF complete
<1>2. PICK x \in {Waiting, Dead} : Freed(t) = [thread EXCEPT ![t] = x]
  BY DEF Freed
<1>3. x \in ThreadStates /\ ~HasWork(x)
  BY IdleStates
<1>4. CASE pending[thread[t].act] = <<>>
  BY <1>1, <1>2, <1>3, <1>4, CompleteLast DEF complete, StopPlaying
<1>5. CASE pending[thread[t].act] # <<>> /\ ~isShutdown
  BY <1>1, <1>2, <1>3, <1>5, CompleteNext DEF complete, RunNext
<1>6. CASE pending[thread[t].act] # <<>> /\ isShutdown
  BY <1>1, <1>6, CompleteRejected DEF complete, RunNext
<1>7. QED
  BY <1>4, <1>5, <1>6

LEMMA ReplaceKeepsIInv ==
  ASSUME IInv, NEW t \in Threads, Replace(t)
  PROVE  IInv'
<1>1. /\ Waiting \in ThreadStates
      /\ ~HasWork(Waiting)
      /\ ~HasWork(thread[t])
  BY IdleStates DEF Replace
<1>2. /\ thread' \in [Threads -> ThreadStates]
      /\ thread'[t] = Waiting
      /\ \A s \in Threads : s # t => thread'[s] = thread[s]
      /\ UNCHANGED <<submitted, done, pending, playingNow, queue, isShutdown>>
  BY <1>1 DEF IInv, TypeOK, Replace
<1>3. TypeOK'
  BY <1>2 DEF IInv, TypeOK
<1>4. Exclusive(thread', queue')
  BY <1>1, <1>2 DEF IInv, Exclusive
<1>5. HeldInTurn(thread', queue', done', submitted', pending', playingNow')
  BY <1>1, <1>2 DEF IInv, HeldInTurn
<1>6. PendingInOrder'
  BY <1>2 DEF IInv, PendingInOrder
<1>7. WhoeverPlaysIsHeld'
  BY <1>1, <1>2 DEF IInv, WhoeverPlaysIsHeld, Busy, HasWork
<1>8. QED
  BY <1>3, <1>4, <1>5, <1>6, <1>7 DEF IInv

LEMMA ShutdownKeepsIInv ==
  ASSUME IInv, shutdown
  PROVE  IInv'
<1> DEFINE empty == <<>>
<1>1. empty \in Seq(Actors \X (1 .. MaxTasks)) /\ DOMAIN empty = {}
  OBVIOUS
<1>2. /\ queue' = empty
      /\ isShutdown'
      /\ UNCHANGED <<submitted, done, pending, playingNow, thread>>
  BY DEF shutdown
<1>3. TypeOK'
  BY <1>1, <1>2 DEF IInv, TypeOK, shutdown
<1>4. Exclusive(thread', queue')
  BY <1>1, <1>2 DEF IInv, Exclusive
<1>5. HeldInTurn(thread', queue', done', submitted', pending', playingNow')
  BY <1>1, <1>2 DEF IInv, HeldInTurn
<1>6. PendingInOrder'
  BY <1>2 DEF IInv, PendingInOrder
<1>7. WhoeverPlaysIsHeld'
  BY <1>2 DEF IInv, WhoeverPlaysIsHeld
<1>8. QED
  BY <1>3, <1>4, <1>5, <1>6, <1>7 DEF IInv

LEMMA NextIInv == IInv /\ [Next]_vars => IInv'
<1> SUFFICES ASSUME IInv, [Next]_vars PROVE IInv'
  OBVIOUS
<1>1. ASSUME NEW a \in Actors, submit(a)
      PROVE  IInv'
  BY <1>1, SubmitToIdleActor, SubmitToPlayingActor
<1>2. ASSUME NEW t \in Threads, ThreadStep(t)
      PROVE  IInv'
  BY <1>2, TakeKeepsIInv, EndRunKeepsIInv, CompleteKeepsIInv, ReplaceKeepsIInv DEF ThreadStep
<1>3. CASE shutdown
  BY <1>3, ShutdownKeepsIInv
<1>4. CASE UNCHANGED vars
  BY <1>4 DEF vars, IInv, TypeOK, PendingInOrder, WhoeverPlaysIsHeld, Busy
<1>5. QED
  BY <1>1, <1>2, <1>3, <1>4 DEF Next

(* The inductive invariant holds in every state of the pool. *)
THEOREM Invariance == Spec => []IInv
BY InitIInv, NextIInv, PTL DEF Spec

(* At any time the executor holds at most one runnable of an actor: two threads never
   process bytes of one connection at once. *)
THEOREM ActorsAreExclusive == Spec => []OneRunnablePerActor
<1>1. IInv => OneRunnablePerActor
  BY DEF IInv, Exclusive, OneRunnablePerActor, Busy, HasWork
<1>2. QED
  BY Invariance, <1>1, PTL

(* The runnable that runs is the one submitted after those that ended. *)
THEOREM ActorsRunInOrder == Spec => []RunsInOrder
<1>1. IInv => RunsInOrder
  BY DEF IInv, HeldInTurn, RunsInOrder, HasWork
<1>2. QED
  BY Invariance, <1>1, PTL

(* The mark in playingNow is never left behind by a running pool, and no runnable
   waits for an actor without it. *)
THEOREM PlayingActorsAreHeld == Spec => []WhoeverPlaysIsHeld
<1>1. IInv => WhoeverPlaysIsHeld
  BY DEF IInv
<1>2. QED
  BY Invariance, <1>1, PTL

(* Every state is of the declared types. *)
THEOREM TypeCorrect == Spec => []TypeOK
<1>1. IInv => TypeOK
  BY DEF IInv
<1>2. QED
  BY Invariance, <1>1, PTL

-----------------------------------------------------------------------------
(* The steps of the pool are steps of one mailbox per actor: a runnable starts when a *)
(* thread begins to run it, at once or after it was queued.                            *)

(* The actors a runnable of which runs, in the threads' states ts *)
RunningIn(ts) ==
  {a \in Actors : \E t \in Threads : ts[t].state = "running" /\ ts[t].act = a}

mailboxVars == <<submitted, done, RunningIn(thread), isShutdown>>

LEMMA MailboxState == M!vars = mailboxVars
BY DEF M!vars, mailboxVars, RunningIn

(* One thread comes to run a runnable of a, and no other thread's work is another's. *)
LEMMA OneMoreRuns ==
  ASSUME NEW ts, NEW us, NEW a \in Actors, NEW n \in 1 .. MaxTasks, NEW t \in Threads,
         us[t] = Running(a, n),
         \A s \in Threads : s # t => us[s] = ts[s],
         ts[t].state # "running"
  PROVE  RunningIn(us) = RunningIn(ts) \cup {a}
<1>1. us[t].state = "running" /\ us[t].act = a
  BY RunningState
<1>2. QED
  BY <1>1 DEF RunningIn

LEMMA SameRun ==
  ASSUME NEW ts, NEW us, NEW t \in Threads,
         \A s \in Threads : s # t => us[s] = ts[s],
         ts[t].state # "running", us[t].state # "running"
  PROVE  RunningIn(us) = RunningIn(ts)
BY DEF RunningIn

LEMMA IdleDoesNotRun ==
  ASSUME NEW x, ~HasWork(x)
  PROVE  x.state # "running"
BY DEF HasWork

(* Handing a runnable to the executor starts it or leaves what runs alone. *)
LEMMA ExecuteRuns ==
  ASSUME NEW ts \in [Threads -> ThreadStates], NEW a \in Actors, NEW n \in 1 .. MaxTasks,
         \A t \in Threads : thread[t] \in {NotStarted, Dead} => ts[t].state # "running",
         Execute(ts, a, n)
  PROVE  RunningIn(thread') \in {RunningIn(ts), RunningIn(ts) \cup {a}}
<1>1. ASSUME NEW t \in Threads, thread[t] \in {NotStarted, Dead},
             thread' = [ts EXCEPT ![t] = Running(a, n)]
      PROVE  RunningIn(thread') = RunningIn(ts) \cup {a}
  <2>1. thread'[t] = Running(a, n) /\ \A s \in Threads : s # t => thread'[s] = ts[s]
    BY <1>1
  <2>2. ts[t].state # "running"
    BY <1>1
  <2>3. QED
    BY <2>1, <2>2, OneMoreRuns
<1>2. QED
  BY <1>1 DEF Execute

LEMMA SubmitIsMailboxStep ==
  ASSUME IInv, NEW a \in Actors, submit(a)
  PROVE  M!Submit(a)
<1>1. /\ ~isShutdown
      /\ submitted[a] < MaxTasks
      /\ submitted' = [submitted EXCEPT ![a] = @ + 1]
      /\ UNCHANGED <<done, isShutdown>>
  BY MaxTasksAssumption DEF submit, IInv, TypeOK
<1>2. RunningIn(thread') \in {RunningIn(thread), RunningIn(thread) \cup {a}}
  <2>1. \A t \in Threads : thread[t] \in {NotStarted, Dead} => thread[t].state # "running"
    BY IdleStates, IdleDoesNotRun
  <2>2. submitted[a] + 1 \in 1 .. MaxTasks /\ thread \in [Threads -> ThreadStates]
    BY MaxTasksAssumption DEF submit, IInv, TypeOK
  <2>3. CASE Execute(thread, a, submitted[a] + 1)
    BY <2>1, <2>2, <2>3, ExecuteRuns
  <2>4. QED
    BY <2>3 DEF submit
<1>3. QED
  BY <1>1, <1>2 DEF M!Submit, RunningIn

(* The head of the executor's queue is its actor's only runnable there. *)
LEMMA TakeIsMailboxStep ==
  ASSUME IInv, NEW t \in Threads, Take(t)
  PROVE  \E a \in Actors : M!Start(a)
<1>0. PICK a, n : a = Head(queue)[1] /\ n = Head(queue)[2]
  OBVIOUS
<1>1. /\ 1 \in DOMAIN queue
      /\ Head(queue) = queue[1]
      /\ a \in Actors /\ n \in 1 .. MaxTasks
  <2>1. queue \in Seq(Actors \X (1 .. MaxTasks)) /\ queue # <<>>
    BY DEF Take, IInv, TypeOK
  <2>2. QED
    BY <1>0, <2>1
<1>2. a \notin RunningIn(thread)
  BY <1>0, <1>1 DEF IInv, Exclusive, RunningIn, HasWork
<1>3. done[a] < submitted[a]
  <2>1. submitted[a] - Len(pending[a]) = done[a] + 1
    BY <1>0, <1>1 DEF IInv, HeldInTurn, InTurn
  <2>2. /\ Len(pending[a]) \in Nat
        /\ submitted[a] \in 0 .. MaxTasks /\ done[a] \in 0 .. MaxTasks
    BY <1>1, PendingFacts DEF IInv
  <2>3. QED
    BY <2>1, <2>2, MaxTasksAssumption
<1>4. RunningIn(thread') = RunningIn(thread) \cup {a}
  <2>1. /\ thread'[t] = Running(a, n)
        /\ \A s \in Threads : s # t => thread'[s] = thread[s]
    BY <1>0 DEF Take, IInv, TypeOK
  <2>2. thread[t].state # "running"
    BY IdleStates, IdleDoesNotRun DEF Take
  <2>3. QED
    BY <1>1, <2>1, <2>2, OneMoreRuns
<1>5. UNCHANGED <<submitted, done, isShutdown>>
  BY DEF Take
<1>6. M!Start(a)
  BY <1>2, <1>3, <1>4, <1>5 DEF M!Start, RunningIn
<1>7. QED
  BY <1>1, <1>6

(* No other thread runs a runnable of the actor. *)
LEMMA EndRunIsMailboxStep ==
  ASSUME IInv, NEW t \in Threads, EndRun(t)
  PROVE  \E a \in Actors : M!End(a)
<1>0. PICK a, n : a = thread[t].act /\ n = thread[t].task
  OBVIOUS
<1>1. thread[t].state = "running" /\ HasWork(thread[t])
  BY DEF EndRun, HasWork
<1>2. a \in Actors /\ n \in 1 .. MaxTasks
  BY <1>0, <1>1, WorkingState DEF IInv, TypeOK
<1>3. PICK b \in BOOLEAN : thread' = [thread EXCEPT ![t] = Ended(a, n, b)]
  BY <1>0 DEF EndRun
<1>4. /\ thread'[t].state = "ended"
      /\ \A s \in Threads : s # t => thread'[s] = thread[s]
  BY <1>2, <1>3, EndedState DEF IInv, TypeOK
<1>5. \A s \in Threads : thread[s].state = "running" /\ thread[s].act = a => s = t
  BY <1>0, <1>1 DEF IInv, Exclusive, HasWork
<1>6. a \in RunningIn(thread) /\ RunningIn(thread') = RunningIn(thread) \ {a}
  BY <1>0, <1>1, <1>2, <1>4, <1>5 DEF RunningIn
<1>7. M!End(a)
  BY <1>0, <1>6 DEF M!End, RunningIn, EndRun
<1>8. QED
  BY <1>2, <1>7

(* complete may start the actor's next runnable, on a thread of its own. *)
LEMMA CompleteIsMailboxStep ==
  ASSUME IInv, NEW t \in Threads, complete(t)
  PROVE  (\E a \in Actors : M!Start(a)) \/ UNCHANGED mailboxVars
<1>0. PICK a : a = thread[t].act
  OBVIOUS
<1>1. thread[t].state = "ended" /\ UNCHANGED <<submitted, done, isShutdown>>
  BY DEF complete
<1>2. PICK x \in {Waiting, Dead} : Freed(t) = [thread EXCEPT ![t] = x]
  BY DEF Freed
<1>3. x \in ThreadStates /\ x.state # "running" /\ Dead.state # "running"
  BY IdleStates, IdleDoesNotRun
<1>4. ASSUME NEW y \in {x, Dead}, NEW ts, ts = [thread EXCEPT ![t] = y]
      PROVE  RunningIn(ts) = RunningIn(thread)
  <2>1. ts[t] = y /\ \A s \in Threads : s # t => ts[s] = thread[s]
    BY <1>4 DEF IInv, TypeOK
  <2>2. QED
    BY <1>1, <1>3, <2>1, SameRun
<1>5. CASE thread' = Freed(t) \/ thread' = [thread EXCEPT ![t] = Dead]
  <2>1. RunningIn(thread') = RunningIn(thread)
    BY <1>2, <1>4, <1>5
  <2>2. QED
    BY <1>1, <2>1 DEF mailboxVars
<1>6. CASE pending[a] # <<>> /\ Execute(Freed(t), a, Head(pending[a]))
  <2>1. a \in Actors /\ Unheld(Freed(t), queue, a) /\ done[a] = submitted[a] - Len(pending[a])
    BY <1>0, <1>1, <1>2, <1>3, IdleStates, BeforeComplete
  <2>2. /\ Head(pending[a]) \in 1 .. MaxTasks
        /\ done[a] < submitted[a]
    <3>1. /\ pending[a] \in Seq(1 .. MaxTasks)
          /\ submitted[a] \in 0 .. MaxTasks
      BY <2>1, PendingFacts DEF IInv
    <3>2. Len(pending[a]) \in Nat \ {0} /\ Head(pending[a]) \in 1 .. MaxTasks
      <4> DEFINE S == 1 .. MaxTasks
                 p == pending[a]
      <4>1. p \in Seq(S) /\ p # <<>>
        BY <1>6, <3>1
      <4> HIDE DEF p, S
      <4>2. Len(p) \in Nat \ {0} /\ Head(p) \in S
        BY <4>1, NonEmptyQueue
      <4>3. QED
        BY <4>2 DEF p, S
    <3>3. QED
      BY <2>1, <3>1, <3>2, MaxTasksAssumption
  <2>3. RunningIn(thread') \in {RunningIn(Freed(t)), RunningIn(Freed(t)) \cup {a}}
    <3>1. Freed(t) \in [Threads -> ThreadStates]
      BY <1>2, <1>3 DEF IInv, TypeOK
    <3>2. \A s \in Threads : thread[s] \in {NotStarted, Dead} => Freed(t)[s].state # "running"
      BY <1>2, <1>3, IdleStates, IdleDoesNotRun DEF IInv, TypeOK
    <3>3. QED
      BY <1>6, <2>1, <2>2, <3>1, <3>2, ExecuteRuns
  <2>4. RunningIn(Freed(t)) = RunningIn(thread)
    BY <1>2, <1>4
  <2>5. a \notin RunningIn(thread)
    BY <2>1, <2>4 DEF Unheld, RunningIn, HasWork
  <2>6. CASE RunningIn(thread') = RunningIn(thread) \cup {a}
    <3>1. M!Start(a)
      BY <1>1, <2>2, <2>5, <2>6 DEF M!Start, RunningIn
    <3>2. QED
      BY <2>1, <3>1
  <2>7. CASE RunningIn(thread') = RunningIn(thread)
    BY <1>1, <2>7 DEF mailboxVars
  <2>8. QED
    BY <2>3, <2>4, <2>6, <2>7
<1>7. QED
  BY <1>0, <1>5, <1>6 DEF complete, StopPlaying, RunNext

LEMMA ReplaceIsMailboxStep ==
  ASSUME IInv, NEW t \in Threads, Replace(t)
  PROVE  UNCHANGED mailboxVars
<1>1. thread[t].state # "running" /\ Waiting.state # "running"
  BY IdleStates, IdleDoesNotRun DEF Replace
<1>2. thread'[t] = Waiting /\ \A s \in Threads : s # t => thread'[s] = thread[s]
  BY DEF Replace, IInv, TypeOK
<1>3. RunningIn(thread') = RunningIn(thread)
  BY <1>1, <1>2, SameRun
<1>4. QED
  BY <1>3 DEF Replace, mailboxVars

(* The safety part of ImplementsMailbox: what the pool does to the runnables of an actor
   is what a mailbox may do, one at a time, each to its end, in order. *)
THEOREM PoolTakesMailboxSteps == Spec => M!Init /\ [][M!Next]_(M!vars)
<1>1. Init => M!Init
  <2> SUFFICES ASSUME Init PROVE M!Init
    OBVIOUS
  <2>1. RunningIn(thread) = {}
    BY DEF Init, RunningIn, NotStarted
  <2>2. QED
    BY <2>1 DEF Init, M!Init, RunningIn
<1>2. IInv /\ [Next]_vars => [M!Next]_(M!vars)
  <2> SUFFICES ASSUME IInv, [Next]_vars
               PROVE  M!Next \/ UNCHANGED mailboxVars
    BY MailboxState DEF M!vars, mailboxVars, RunningIn
  <2>1. ASSUME NEW a \in Actors, submit(a)
        PROVE  M!Next
    BY <2>1, SubmitIsMailboxStep DEF M!Next
  <2>2. ASSUME NEW t \in Threads, ThreadStep(t)
        PROVE  M!Next \/ UNCHANGED mailboxVars
    BY <2>2, TakeIsMailboxStep, EndRunIsMailboxStep, CompleteIsMailboxStep,
       ReplaceIsMailboxStep DEF ThreadStep, M!Next
  <2>3. CASE shutdown
    BY <2>3 DEF shutdown, M!Next, M!Stop
  <2>4. CASE UNCHANGED vars
    BY <2>4 DEF vars, mailboxVars
  <2>5. QED
    BY <2>1, <2>2, <2>3, <2>4 DEF Next
<1>3. QED
  BY <1>1, <1>2, Invariance, PTL DEF Spec
==============================================================================
