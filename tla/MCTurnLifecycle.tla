-------------------------- MODULE MCTurnLifecycle --------------------------
(* Sends of clients that are interchangeable, one plan the agent proposes.  *)
EXTENDS TurnLifecycle, TLC

CONSTANTS c1, c2, q1

Symmetry == Permutations(Commands)
=============================================================================
