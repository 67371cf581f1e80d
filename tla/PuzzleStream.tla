----------------------------- MODULE PuzzleStream -----------------------------
(***************************************************************************)
(* The training data stream of the recursive reasoning models:             *)
(* PuzzleTrainStream of rrm/utils.py.  An iteration shuffles the groups    *)
(* Epochs times and walks through them; for each group a puzzle is drawn   *)
(* from the generator of the iteration and rows of it from the global      *)
(* NumPy generator, which the model uses too.  A batch that the iteration  *)
(* cannot fill is thrown away.                                             *)
(*                                                                         *)
(* Pseudo-random values are functions of the state of their generator: a   *)
(* drawn puzzle and a selection of rows are named by that state, and the   *)
(* tape says which group comes next and how many rows its puzzle has.      *)
(* state_dict is taken between two steps of training; a process may be     *)
(* replaced at any time by one that loads the last one taken.              *)
(***************************************************************************)
EXTENDS Naturals, Sequences

CONSTANTS
  BatchSize,
  Epochs,       \* epochs_per_iteration
  GroupCount,   \* num_groups
  ModelDraws,   \* NumPy values the model takes itself in a training step
  MaxBatches,   \* bound: batches asked for
  MaxRestarts,  \* bound: replaced processes
  Tapes,        \* iteration -> place in the order -> group and puzzle size
  None          \* no state dictionary

OrderSize == GroupCount * Epochs
Groups == 1 .. GroupCount
Places == 1 .. OrderSize

(* One permutation of the groups after the other.                          *)
IsOrder(o) ==
  \A p, q \in Places :
    (p - 1) \div GroupCount = (q - 1) \div GroupCount /\ p # q
      => o[p].group # o[q].group

(* Nothing in the code excludes a data set whose iterations are smaller    *)
(* than a batch; the registered data sets are larger.                      *)
ASSUME StreamConstants ==
  /\ BatchSize \in Nat \ {0} /\ Epochs \in Nat \ {0} /\ GroupCount \in Nat \ {0}
  /\ ModelDraws \in Nat /\ MaxBatches \in Nat /\ MaxRestarts \in Nat
  /\ OrderSize >= BatchSize
  /\ \A t \in Tapes : \A i \in 1 .. MaxBatches + 1 :
       /\ t[i] \in [Places -> [group : Groups, size : Nat \ {0}]]
       /\ IsOrder(t[i])

VARIABLES
  tape,      \* what the generators of the iterations produce
  iteration,
  cursor,    \* groups of the order that are used up
  rng,       \* the stream's generator: its seed and the values drawn
  numpy,     \* values drawn from the global NumPy generator
  pc,        \* "idle", "filling" a batch, or "training" on it
  rows,      \* the pieces of the batch being filled
  count,     \* rows in them
  index,     \* batches served
  served,    \* history: the batches by number
  saved,     \* the last state dictionary, with the number of batches served
  restarts

vars == <<tape, iteration, cursor, rng, numpy, pc, rows, count, index, served,
          saved, restarts>>

position == <<iteration, cursor, rng, numpy>>

(* Building the order draws one permutation per epoch.                     *)
Seeded(n) == [seed |-> n, drawn |-> Epochs]

NoBatch == <<>>

Init ==
  /\ tape \in Tapes
  /\ iteration = 1
  /\ cursor = 0
  /\ rng = Seeded(1)
  /\ numpy = 0
  /\ pc = "idle"
  /\ rows = NoBatch
  /\ count = 0
  /\ index = 0
  /\ served = [n \in 1 .. MaxBatches |-> NoBatch]
  /\ saved = None
  /\ restarts = 0

RngState == [seed : 1 .. MaxBatches + 1, drawn : Epochs .. Epochs + OrderSize]

TypeOK ==
  /\ iteration \in 1 .. MaxBatches + 1
  /\ cursor \in 0 .. OrderSize
  /\ rng \in RngState
  /\ numpy \in Nat
  /\ pc \in {"idle", "filling", "training"}
  /\ count \in 0 .. BatchSize
  /\ Len(rows) <= count
  /\ index \in 0 .. MaxBatches
  /\ restarts \in 0 .. MaxRestarts

-----------------------------------------------------------------------------
NextBatch ==
  /\ pc = "idle"
  /\ index < MaxBatches
  /\ pc' = "filling"
  /\ rows' = NoBatch
  /\ count' = 0
  /\ UNCHANGED <<tape, position, index, served, saved, restarts>>

Smaller(m, n) == IF m < n THEN m ELSE n

(* What the generator in its present state makes of the next group.        *)
Drawn ==
  [group |-> tape[iteration][cursor + 1].group,
   size  |-> tape[rng.seed][rng.drawn - Epochs + 1].size]

(* Mutant: the last puzzle is not cut.                                     *)
RowsTaken_Whole(size) == size

(* The rows taken from a puzzle: all of it, or what is missing.            *)
RowsTaken(size) == Smaller(size, BatchSize - count)

(* One group of the inner loop.                                            *)
TakeGroup ==
  /\ pc = "filling"
  /\ cursor < OrderSize
  /\ count < BatchSize
  /\ cursor' = cursor + 1
  /\ rng' = [rng EXCEPT !.drawn = @ + 1]
  /\ numpy' = numpy + 1
  /\ rows' = Append(rows, [group |-> Drawn.group, puzzle |-> rng,
                           selection |-> numpy, taken |-> RowsTaken(Drawn.size)])
  /\ count' = count + RowsTaken(Drawn.size)
  /\ UNCHANGED <<tape, iteration, pc, index, served, saved, restarts>>

Serve ==
  /\ pc = "filling"
  /\ count = BatchSize
  /\ index' = index + 1
  /\ served' = [served EXCEPT ![index + 1] = rows]
  /\ pc' = "training"
  /\ UNCHANGED <<tape, position, rows, count, saved, restarts>>

(* Mutant: every iteration has the same seed.                              *)
StartIteration_SameSeed ==
  /\ pc = "filling"
  /\ cursor = OrderSize
  /\ count < BatchSize
  /\ iteration' = iteration + 1
  /\ rng' = Seeded(1)
  /\ cursor' = 0
  /\ rows' = NoBatch
  /\ count' = 0
  /\ UNCHANGED <<tape, numpy, pc, index, served, saved, restarts>>

(* Mutant: an iteration that ends with a batch starts no other.            *)
StartIteration_NothingLeft ==
  /\ pc = "filling"
  /\ cursor = OrderSize
  /\ count < BatchSize
  /\ count > 0
  /\ iteration' = iteration + 1
  /\ rng' = Seeded(iteration + 1)
  /\ cursor' = 0
  /\ rows' = NoBatch
  /\ count' = 0
  /\ UNCHANGED <<tape, numpy, pc, index, served, saved, restarts>>

(* The iteration is over before the batch is full: drop it, start again.   *)
StartIteration ==
  /\ pc = "filling"
  /\ cursor = OrderSize
  /\ count < BatchSize
  /\ iteration' = iteration + 1
  /\ rng' = Seeded(iteration + 1)
  /\ cursor' = 0
  /\ rows' = NoBatch
  /\ count' = 0
  /\ UNCHANGED <<tape, numpy, pc, index, served, saved, restarts>>

(* The training step, as far as it shares the NumPy generator.             *)
Train ==
  /\ pc = "training"
  /\ numpy' = numpy + ModelDraws
  /\ pc' = "idle"
  /\ UNCHANGED <<tape, iteration, cursor, rng, rows, count, index, served, saved, restarts>>

SaveState ==
  /\ pc = "idle"
  /\ saved' = [iteration |-> iteration, cursor |-> cursor, rng |-> rng,
               numpy |-> numpy, index |-> index]
  /\ UNCHANGED <<tape, position, pc, rows, count, index, served, restarts>>

(* Mutant: the generator stays where building the order has left it.       *)
LoadState_OrderOnly ==
  /\ saved # None
  /\ restarts < MaxRestarts
  /\ iteration' = saved.iteration
  /\ cursor' = saved.cursor
  /\ rng' = Seeded(saved.iteration)
  /\ numpy' = saved.numpy
  /\ index' = saved.index
  /\ pc' = "idle"
  /\ rows' = NoBatch
  /\ count' = 0
  /\ restarts' = restarts + 1
  /\ UNCHANGED <<tape, served, saved>>

(* A new process: the order is rebuilt from the seed, then the generators  *)
(* are put where they were.                                                *)
LoadState ==
  /\ saved # None
  /\ restarts < MaxRestarts
  /\ iteration' = saved.iteration
  /\ cursor' = saved.cursor
  /\ rng' = saved.rng
  /\ numpy' = saved.numpy
  /\ index' = saved.index
  /\ pc' = "idle"
  /\ rows' = NoBatch
  /\ count' = 0
  /\ restarts' = restarts + 1
  /\ UNCHANGED <<tape, served, saved>>

Next ==
  \/ NextBatch \/ TakeGroup \/ Serve \/ StartIteration \/ Train
  \/ SaveState \/ LoadState

Spec == Init /\ [][Next]_vars

(* A call of next_batch runs on; nobody has to call it.                    *)
FairSpec == Spec /\ WF_vars(TakeGroup \/ Serve \/ StartIteration)

-----------------------------------------------------------------------------
(* A process that loads a saved state deals the batches that the saving    *)
(* process dealt after it: a batch that is dealt again is the same batch   *)
(* (utils.py:405-447).                                                     *)
SameBatchAgain ==
  [][\A n \in 1 .. MaxBatches :
       served[n] # NoBatch => served'[n] = served[n]]_vars

(* No two batches share randomness: neither the draw of a puzzle nor a     *)
(* selection of rows is used twice, across iterations and restarts         *)
(* (utils.py:346-386).                                                     *)
FreshDraws ==
  \A m, n \in 1 .. MaxBatches : \A j \in DOMAIN served[m], k \in DOMAIN served[n] :
    <<m, j>> # <<n, k>> =>
      /\ served[m][j].puzzle # served[n][k].puzzle
      /\ served[m][j].selection # served[n][k].selection

(* next_batch returns, however much of an iteration it throws away         *)
(* (utils.py:354-386).                                                     *)
BatchesReturn == pc = "filling" ~> pc # "filling"
=============================================================================
