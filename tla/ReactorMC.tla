------------------------------- MODULE ReactorMC -------------------------------
(* Reactor with two connections. *)
EXTENDS Reactor, TLC

Symmetry == Permutations(Handlers)
================================================================================
