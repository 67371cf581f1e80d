--------------------------- MODULE FBTransaction ---------------------------
(***************************************************************************)
(* What Fenchel-Bregman training promises about its two learned states:    *)
(* the model (posterior mean) and the failure state that weights the next  *)
(* advantages (auto_lm/fbi.py: "Driver-owned transactional FB state").  A  *)
(* training step either updates both or neither; a save makes the pair     *)
(* durable as a whole; a crash brings back the last durable pair.          *)
(***************************************************************************)
EXTENDS Integers

VARIABLES
  frozen,    \* freeze_failure_updates: the failure state is not learned
  steps,     \* training steps completed
  model,     \* updates applied to the model
  failures,  \* failure observations committed
  durable    \* what a restart would start from

tvars == <<frozen, steps, model, failures, durable>>

Learned == IF frozen THEN 0 ELSE 1

TInit ==
  /\ frozen \in BOOLEAN
  /\ steps = 0
  /\ model = 0
  /\ failures = 0
  /\ durable = [steps |-> 0, model |-> 0, failures |-> 0]

(* The optimizer step was applied on every rank.                           *)
CommitStep ==
  /\ steps' = steps + 1
  /\ model' = model + 1
  /\ failures' = failures + Learned
  /\ UNCHANGED <<frozen, durable>>

(* The optimizer step was skipped on every rank.                           *)
AbandonStep ==
  /\ steps' = steps + 1
  /\ UNCHANGED <<frozen, model, failures, durable>>

MakeDurable ==
  /\ durable' = [steps |-> steps, model |-> model, failures |-> failures]
  /\ UNCHANGED <<frozen, steps, model, failures>>

Recover ==
  /\ steps' = durable.steps
  /\ model' = durable.model
  /\ failures' = durable.failures
  /\ UNCHANGED <<frozen, durable>>

TNext == CommitStep \/ AbandonStep \/ MakeDurable \/ Recover

TSpec == TInit /\ [][TNext]_tvars
=============================================================================
