-------------------------- MODULE ActorThreadPoolMC --------------------------
(* ActorThreadPool with more actors than threads: a busy pool queues actors. *)
EXTENDS ActorThreadPool

CONSTANTS h1, h2, h3, t1, t2

MCActors  == {h1, h2, h3}
MCThreads == {t1, t2}
==============================================================================
