----------------------------- MODULE RRMReference -----------------------------
(***************************************************************************)
(* What recursive reasoning training promises, however many ranks run it:  *)
(* one process trains over the global batch.  An update advances the slots *)
(* of the batch, a slot whose example has halted taking the next example,  *)
(* and folds the failures into the estimates once, in batch order.  A      *)
(* checkpoint keeps this state; a run starts from it, or from nothing.     *)
(***************************************************************************)
EXTENDS FailureTracker

CONSTANT Slots \* positions of the global batch

VARIABLES
  duplicates, \* how several visits of one group in a batch are folded
  tape,     \* what the stream deals: batch number -> slot -> group
  updates,  \* optimizer updates so far
  carried,  \* the example each slot works on
  estimate, \* the failure estimates
  durable   \* the last checkpoint, or the fresh state

refvars == <<duplicates, tape, updates, carried, estimate, durable>>

Fresh ==
  [updates  |-> 0,
   carried  |-> [s \in Slots |-> [row |-> 0, halted |-> TRUE]],
   estimate |-> FreshTracker]

State == [updates |-> updates, carried |-> carried, estimate |-> estimate]

ReferenceInit ==
  /\ duplicates \in {"sequential", "group_mean"}
  /\ State = Fresh
  /\ durable = Fresh

(* The batch whose example is in the slot during the next update.          *)
RowIn(s) == IF carried[s].halted THEN updates + 1 ELSE carried[s].row

(* One update; which examples halt after it is up to the model.            *)
TrainStep ==
  /\ \E halts \in [Slots -> BOOLEAN] :
       carried' = [s \in Slots |-> [row |-> RowIn(s), halted |-> halts[s]]]
  /\ estimate' = TrackerUpdate(estimate,
       [s \in Slots |-> tape[RowIn(s)][s]],
       [s \in Slots |-> [step |-> updates + 1, slot |-> s, row |-> RowIn(s)]],
       duplicates)
  /\ updates' = updates + 1
  /\ UNCHANGED <<duplicates, tape, durable>>

MakeCheckpoint ==
  /\ durable' = State
  /\ UNCHANGED <<duplicates, tape, updates, carried, estimate>>

(* A run continues exactly where the checkpoint was taken, or starts over. *)
StartRun ==
  /\ State' \in {durable, Fresh}
  /\ UNCHANGED <<duplicates, tape, durable>>

ReferenceNext == TrainStep \/ MakeCheckpoint \/ StartRun

ReferenceSpec == ReferenceInit /\ [][ReferenceNext]_refvars
=============================================================================
