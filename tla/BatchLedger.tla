----------------------------- MODULE BatchLedger -----------------------------
(***************************************************************************)
(* What the tables of batches and operations promise to the rest of the    *)
(* system: a confirmed batch is run, and run again after a failure, in     *)
(* single steps; work that has succeeded is never undone; and a batch has  *)
(* succeeded exactly when all of its operations have.                      *)
(***************************************************************************)
CONSTANTS Batches, Steps

VARIABLES
  status,  \* the status of each batch
  done     \* the operations of each batch that have succeeded

Init ==
  /\ status = [b \in Batches |-> "none"]
  /\ done = [b \in Batches |-> {}]

Submit(b) ==
  /\ status[b] = "none"
  /\ status' = [status EXCEPT ![b] = "pending"]
  /\ UNCHANGED done

Run(b) ==
  /\ status[b] \in {"pending", "failed"}
  /\ done[b] \subseteq done'[b] /\ done'[b] \subseteq Steps
  /\ done' = [done EXCEPT ![b] = done'[b]]
  /\ status' = [status EXCEPT ![b] = IF done'[b] = Steps THEN "succeeded" ELSE "failed"]

Next == \E b \in Batches : Submit(b) \/ Run(b)

Spec == Init /\ [][Next]_<<status, done>>
=============================================================================
