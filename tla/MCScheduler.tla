----------------------------- MODULE MCScheduler -----------------------------
(***************************************************************************)
(* Days of three instants: a cycle that starts with the day, one that      *)
(* starts late and continues after midnight, and no schedule at all.       *)
(***************************************************************************)
EXTENDS Scheduler, TLC

MCSchedules == {[every |-> 2, at |-> 0], [every |-> 1, at |-> 2], [every |-> 0, at |-> 0]}

Symmetry == Permutations(Servers)
=============================================================================
