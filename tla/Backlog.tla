------------------------------- MODULE Backlog -------------------------------
(***************************************************************************)
(* What the two work queues of Ziba promise, whatever drains them.         *)
(*                                                                         *)
(* A row (a collected item, or an article waiting for analysis) enters its *)
(* queue once, is charged for every attempt that fails, and leaves either  *)
(* because an attempt succeeded or because MaxFailures attempts failed.    *)
(* A row given up may still be completed by an attempt that was already    *)
(* under way; a row that is done stays done.                               *)
(*                                                                         *)
(* This is the abstract specification: Pipeline implements it.             *)
(***************************************************************************)
EXTENDS Naturals

CONSTANTS
  Rows,        \* everything that can be queued
  MaxFailures  \* failed attempts after which a row is given up

VARIABLES
  status,      \* where each row stands
  charges      \* failed attempts since it was queued

vars == <<status, charges>>

Status == {"absent", "queued", "done", "failed"}

TypeOK ==
  /\ status \in [Rows -> Status]
  /\ charges \in [Rows -> 0..MaxFailures]

Init ==
  /\ status = [r \in Rows |-> "absent"]
  /\ charges = [r \in Rows |-> 0]

Enqueue(S) ==
  /\ \A r \in S : status[r] = "absent"
  /\ status' = [r \in Rows |-> IF r \in S THEN "queued" ELSE status[r]]
  /\ UNCHANGED charges

Charge(r) ==
  /\ status[r] = "queued"
  /\ charges' = [charges EXCEPT ![r] = @ + 1]
  /\ status' = [status EXCEPT
       ![r] = IF charges[r] + 1 = MaxFailures THEN "failed" ELSE "queued"]

Finish(S) ==
  /\ \A r \in S : status[r] \in {"queued", "failed"}
  /\ status' = [r \in Rows |-> IF r \in S THEN "done" ELSE status[r]]
  /\ charges' = [r \in Rows |-> IF r \in S THEN 0 ELSE charges[r]]

Next ==
  \/ \E S \in SUBSET Rows : Enqueue(S) \/ Finish(S)
  \/ \E r \in Rows : Charge(r)

(* The safety half, which every implementation owes unconditionally.       *)
SafeSpec == Init /\ [][Next]_vars

(* A queued row does not wait for ever: it is charged or finished.         *)
Serve(r) ==
  /\ status[r] = "queued"
  /\ Next
  /\ status'[r] = "done" \/ charges'[r] > charges[r]

Spec == SafeSpec /\ \A r \in Rows : WF_vars(Serve(r))
=============================================================================
