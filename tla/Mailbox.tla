------------------------------- MODULE Mailbox -------------------------------
(***************************************************************************)
(* What a thread pool of actors promises: the runnables submitted for an   *)
(* actor run one at a time, each to its end, in the order of submission,   *)
(* and all of them run, until the pool is stopped.                         *)
(***************************************************************************)
EXTENDS Naturals

CONSTANTS Actors, MaxTasks

VARIABLES
  submitted,  \* how many runnables were submitted for each actor
  done,       \* how many of them ran to their end
  running,    \* the actors one of whose runnables runs now
  stopped

vars == <<submitted, done, running, stopped>>

Init ==
  /\ submitted = [a \in Actors |-> 0]
  /\ done = [a \in Actors |-> 0]
  /\ running = {}
  /\ stopped = FALSE

(* A runnable may start as it is submitted. *)
Submit(a) ==
  /\ ~stopped
  /\ submitted[a] < MaxTasks
  /\ submitted' = [submitted EXCEPT ![a] = @ + 1]
  /\ running' \in {running, running \cup {a}}
  /\ UNCHANGED <<done, stopped>>

Start(a) ==
  /\ a \notin running
  /\ done[a] < submitted[a]
  /\ running' = running \cup {a}
  /\ UNCHANGED <<submitted, done, stopped>>

End(a) ==
  /\ a \in running
  /\ running' = running \ {a}
  /\ done' = [done EXCEPT ![a] = @ + 1]
  /\ UNCHANGED <<submitted, stopped>>

Stop ==
  /\ ~stopped
  /\ stopped' = TRUE
  /\ UNCHANGED <<submitted, done, running>>

Next == Stop \/ \E a \in Actors : Submit(a) \/ Start(a) \/ End(a)

Fairness ==
  \A a \in Actors : WF_vars(~stopped /\ Start(a)) /\ WF_vars(End(a))

Spec == Init /\ [][Next]_vars /\ Fairness
==============================================================================
