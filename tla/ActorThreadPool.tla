--------------------------- MODULE ActorThreadPool ---------------------------
(***************************************************************************)
(* ActorThreadPool.java: runnables of one actor run one at a time, on a    *)
(* fixed number of threads.  The actors are the reactor's connection       *)
(* handlers, a runnable is one buffer of bytes to decode and process.      *)
(*                                                                         *)
(* submit and complete hold the actor's monitor from end to end, and what  *)
(* they share with the other actors (playingNow, the executor) is thread   *)
(* safe, so each is one step.  The n-th runnable of an actor is n.         *)
(***************************************************************************)
EXTENDS Naturals, Sequences

CONSTANTS
  Actors,
  Threads,    \* the threads of newFixedThreadPool
  MaxTasks    \* bound: runnables submitted for one actor

ASSUME MaxTasksAssumption == MaxTasks \in Nat

VARIABLES
  submitted,   \* number of runnables submitted for each actor
  done,        \* number of each actor's runnables whose run() has ended
  pending,     \* acts: the queue of each actor
  playingNow,
  queue,       \* the executor's queue of <<actor, runnable>>
  thread,      \* what each of the executor's threads is doing
  isShutdown

vars == <<submitted, done, pending, playingNow, queue, thread, isShutdown>>

(* A thread that was never started, waits for work, or was killed by an exception
   and is not replaced yet. *)
NotStarted == [state |-> "not started"]
Waiting    == [state |-> "waiting"]
Dead       == [state |-> "dead"]

(* In run(), or past it and about to complete(a); an abrupt end kills the thread
   afterwards. *)
Running(a, n) == [state |-> "running", act |-> a, task |-> n]
Ended(a, n, abrupt) == [state |-> "ended", act |-> a, task |-> n, abrupt |-> abrupt]

ThreadStates ==
  {NotStarted, Waiting, Dead}
    \cup {Running(a, n) : a \in Actors, n \in 1 .. MaxTasks}
    \cup {Ended(a, n, b) : a \in Actors, n \in 1 .. MaxTasks, b \in BOOLEAN}

Busy(t) == thread[t].state \in {"running", "ended"}

Init ==
  /\ submitted = [a \in Actors |-> 0]
  /\ done = [a \in Actors |-> 0]
  /\ pending = [a \in Actors |-> <<>>]
  /\ playingNow = {}
  /\ queue = <<>>
  /\ thread = [t \in Threads |-> NotStarted]
  /\ isShutdown = FALSE

-----------------------------------------------------------------------------
(* threads.execute(a's n-th runnable): a thread is started for it if the pool may have
   one more; otherwise it is queued.  ts is what the other threads do next. *)
Execute(ts, a, n) ==
  \/ \E t \in Threads :
       /\ thread[t] \in {NotStarted, Dead}
       /\ thread' = [ts EXCEPT ![t] = Running(a, n)]
       /\ UNCHANGED queue
  \/ /\ \A t \in Threads : thread[t] \notin {NotStarted, Dead}
     /\ thread' = ts
     /\ queue' = Append(queue, <<a, n>>)

(* Mutant: the actor is not marked as playing. *)
submitForgetsToPlay(a) ==
  LET n == submitted[a] + 1 IN
  /\ ~isShutdown
  /\ n <= MaxTasks
  /\ submitted' = [submitted EXCEPT ![a] = n]
  /\ Execute(thread, a, n)
  /\ UNCHANGED <<done, pending, playingNow, isShutdown>>

(* Only the selector's thread submits, and it is the one that shuts the pool down. *)
submit(a) ==
  LET n == submitted[a] + 1 IN
  /\ ~isShutdown
  /\ n <= MaxTasks
  /\ submitted' = [submitted EXCEPT ![a] = n]
  /\ \/ /\ a \notin playingNow
        /\ playingNow' = playingNow \cup {a}
        /\ Execute(thread, a, n)
        /\ UNCHANGED pending
     \/ /\ a \in playingNow
        /\ pending' = [pending EXCEPT ![a] = Append(@, n)]
        /\ UNCHANGED <<playingNow, queue, thread>>
  /\ UNCHANGED <<done, isShutdown>>

(* A waiting thread takes the runnable at the head of the executor's queue. *)
Take(t) ==
  /\ thread[t] = Waiting
  /\ queue # <<>>
  /\ thread' = [thread EXCEPT ![t] = Running(Head(queue)[1], Head(queue)[2])]
  /\ queue' = Tail(queue)
  /\ UNCHANGED <<submitted, done, pending, playingNow, isShutdown>>

(* run() returns, or throws. *)
EndRun(t) ==
  LET a == thread[t].act IN
  /\ thread[t].state = "running"
  /\ \E abrupt \in BOOLEAN :
       thread' = [thread EXCEPT ![t] = Ended(a, thread[t].task, abrupt)]
  /\ done' = [done EXCEPT ![a] = @ + 1]
  /\ UNCHANGED <<submitted, pending, playingNow, queue, isShutdown>>

(* What becomes of a thread after complete. *)
Freed(t) ==
  [thread EXCEPT ![t] = IF thread[t].abrupt THEN Dead ELSE Waiting]

(* Nothing is pending: the actor stops playing. *)
StopPlaying(t) ==
  /\ playingNow' = playingNow \ {thread[t].act}
  /\ thread' = Freed(t)
  /\ UNCHANGED <<pending, queue>>

(* Mutant: the next runnable is peeked at, not polled. *)
RunNextPeeked(t) ==
  /\ ~isShutdown
  /\ Execute(Freed(t), thread[t].act, Head(pending[thread[t].act]))
  /\ UNCHANGED <<pending, playingNow>>

(* Mutant: the runnable submitted last is run next. *)
RunLatest(t) ==
  LET a == thread[t].act IN
  /\ ~isShutdown
  /\ pending' = [pending EXCEPT ![a] = SubSeq(@, 1, Len(@) - 1)]
  /\ Execute(Freed(t), a, pending[a][Len(pending[a])])
  /\ UNCHANGED playingNow

(* Mutant: the actor stops playing although its next runnable runs. *)
RunNextUnmarked(t) ==
  LET a == thread[t].act IN
  /\ ~isShutdown
  /\ pending' = [pending EXCEPT ![a] = Tail(@)]
  /\ Execute(Freed(t), a, Head(pending[a]))
  /\ playingNow' = playingNow \ {a}

(* The next runnable is polled and executed.  After shutdown execute throws
   RejectedExecutionException: the runnable is lost, the actor stays in playingNow. *)
RunNext(t) ==
  LET a == thread[t].act IN
  /\ pending' = [pending EXCEPT ![a] = Tail(@)]
  /\ \/ /\ ~isShutdown
        /\ Execute(Freed(t), a, Head(pending[a]))
     \/ /\ isShutdown
        /\ thread' = [thread EXCEPT ![t] = Dead]
        /\ UNCHANGED queue
  /\ UNCHANGED playingNow

(* Mutant: complete is not in a finally block. *)
completeUnlessThrown(t) ==
  LET a == thread[t].act IN
  /\ thread[t].state = "ended"
  /\ \/ thread[t].abrupt /\ thread' = Freed(t) /\ UNCHANGED <<pending, playingNow, queue>>
     \/ ~thread[t].abrupt /\ pending[a] = <<>> /\ StopPlaying(t)
     \/ ~thread[t].abrupt /\ pending[a] # <<>> /\ RunNext(t)
  /\ UNCHANGED <<submitted, done, isShutdown>>

(* Mutant: complete does not look at what is pending. *)
completeIgnoresPending(t) ==
  /\ thread[t].state = "ended"
  /\ StopPlaying(t)
  /\ UNCHANGED <<submitted, done, isShutdown>>

(* complete(a), in the finally block *)
complete(t) ==
  LET a == thread[t].act IN
  /\ thread[t].state = "ended"
  /\ \/ pending[a] = <<>> /\ StopPlaying(t)
     \/ pending[a] # <<>> /\ RunNext(t)
  /\ UNCHANGED <<submitted, done, isShutdown>>

(* The executor replaces a thread that died. *)
Replace(t) ==
  /\ thread[t] = Dead
  /\ ~isShutdown
  /\ thread' = [thread EXCEPT ![t] = Waiting]
  /\ UNCHANGED <<submitted, done, pending, playingNow, queue, isShutdown>>

(* shutdownNow drops what is queued; what runs goes on. *)
shutdown ==
  /\ ~isShutdown
  /\ isShutdown' = TRUE
  /\ queue' = <<>>
  /\ UNCHANGED <<submitted, done, pending, playingNow, thread>>

ThreadStep(t) == Take(t) \/ EndRun(t) \/ complete(t) \/ Replace(t)

Next ==
  \/ \E a \in Actors : submit(a)
  \/ \E t \in Threads : ThreadStep(t)
  \/ shutdown

(* The JVM runs every thread, a buffer is processed in finite time, and the executor
   has its threads wait on its queue. *)
Fairness == \A t \in Threads : WF_vars(ThreadStep(t))

Spec == Init /\ [][Next]_vars /\ Fairness

-----------------------------------------------------------------------------
(* Properties *)

TypeOK ==
  /\ submitted \in [Actors -> 0 .. MaxTasks]
  /\ done \in [Actors -> 0 .. MaxTasks]
  /\ pending \in [Actors -> Seq(1 .. MaxTasks)]
  /\ playingNow \subseteq Actors
  /\ queue \in Seq(Actors \X (1 .. MaxTasks))
  /\ thread \in [Threads -> ThreadStates]
  /\ isShutdown \in BOOLEAN

(* The runnable the executor holds for an actor is the only one: nothing else of the
   actor runs, has yet to be completed, or waits in the executor's queue. *)
OneRunnablePerActor ==
  /\ \A t, s \in Threads :
       Busy(t) /\ Busy(s) /\ thread[t].act = thread[s].act => t = s
  /\ \A j, k \in DOMAIN queue : queue[j][1] = queue[k][1] => j = k
  /\ \A t \in Threads, k \in DOMAIN queue : Busy(t) => thread[t].act # queue[k][1]

(* Runnables of an actor run in the order they were submitted in, none is skipped and
   none runs twice (submit and complete): bytes of a connection stay in order. *)
RunsInOrder ==
  \A t \in Threads :
    thread[t].state = "running" => thread[t].task = done[thread[t].act] + 1

(* An actor with runnables waiting is marked as playing, and then the executor holds
   one of its runnables, whose completion takes the next: the mark, which keeps
   submit from starting a runnable, is never left behind. *)
WhoeverPlaysIsHeld ==
  /\ \A a \in Actors : pending[a] # <<>> => a \in playingNow
  /\ ~isShutdown =>
       \A a \in playingNow :
         \/ \E t \in Threads : Busy(t) /\ thread[t].act = a
         \/ \E k \in DOMAIN queue : queue[k][1] = a

(* Every runnable submitted runs in the end, however many threads there are and
   whatever throws, unless the pool is shut down. *)
EverythingRuns ==
  \A a \in Actors : \A n \in 1 .. MaxTasks :
    submitted[a] >= n ~> done[a] >= n \/ isShutdown

M == INSTANCE Mailbox WITH
       running <- {a \in Actors : \E t \in Threads :
                     thread[t].state = "running" /\ thread[t].act = a},
       stopped <- isShutdown

(* The pool implements one mailbox per actor. *)
ImplementsMailbox == M!Spec
==============================================================================
