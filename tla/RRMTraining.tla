----------------------------- MODULE RRMTraining -----------------------------
(***************************************************************************)
(* Training of a recursive reasoning model with the Fenchel-Bregman        *)
(* objective and IVON: run_training of rrm/train.py on every rank, with    *)
(* the failure tracker of rrm/fbi.py.  The ranks run the same program and  *)
(* meet only in collectives (gather_rank_ordered_vectors, the sum of the   *)
(* gradients, all_gather_object and barrier at the end).                   *)
(*                                                                         *)
(* Objective "sampled" is the closure given to IVON, the path of FPRM on   *)
(* many ranks; "split" is the price-anchored curvature path of PTRM, which *)
(* runs on one.  A slot of the batch works on one example until it halts;  *)
(* whether it does is up to the model.  The data stream is a tape: a batch *)
(* is a function of its number (module PuzzleStream).                      *)
(*                                                                         *)
(* A run saves once, at its end.  It may die anywhere; the next run starts *)
(* from the saved checkpoint or from the initializer.                      *)
(***************************************************************************)
EXTENDS FailureTracker

CONSTANTS
  BatchSize,        \* examples of the global batch
  Settings,         \* configurations a training may have, see Setting
  Schedules,        \* max_updates of each run, in the order they are started
  Tapes,            \* what the stream may deal: batch number -> slot -> group
  None              \* no value

Primary == 1
Slots == 1 .. BatchSize             \* positions of the global batch

(* Objective "sampled" or "split"; how duplicates are folded               *)
(* (FenchelBregmanConfig.duplicate_update); curvature_refresh_interval;    *)
(* whether the noise is seeded by the step (FPRM on Maze-Hard); the groups *)
(* of an epoch (train_group_count_for_epochs).                             *)
Setting ==
  [world : {n \in 1 .. BatchSize : BatchSize % n = 0},
   objective : {"sampled", "split"},
   duplicates : {"sequential", "group_mean"},
   interval : Nat \ {0}, seeded : BOOLEAN, groups : Nat \ {0},
   schedule : Schedules]

ASSUME TrainingConstants ==
  /\ BatchSize \in Nat \ {0}
  /\ Settings \subseteq Setting
  /\ \A c \in Settings : c.objective = "split" => c.world = 1
  /\ Schedules \subseteq Seq(Nat \ {0}) /\ <<>> \notin Schedules
  /\ \A t \in Tapes : \A n \in DOMAIN t : t[n] \in [Slots -> Groups]

(* The stream deals for ever: it never ends before the longest run does.   *)
ASSUME TapesAreLong ==
  \A t \in Tapes, c \in Schedules :
    \A k \in DOMAIN c : 1 .. c[k] \subseteq DOMAIN t

VARIABLES
  tape,      \* what the stream deals
  setting,   \* the configuration of this training
  run,       \* which run of Schedule this is
  alive,     \* its processes have not died
  pc,        \* where each rank stands
  step,      \* the loop variable
  dealt,     \* batches taken from the rank's stream
  calls,     \* collectives the rank has entered
  carry,     \* the example each slot works on, between two updates
  out,       \* the carry returned by the forward pass
  weight,    \* the estimates that weight the loss of this step
  sent,      \* what the slots contribute to the gather of this step
  rng,       \* values drawn from the rank's torch generator
  noise,     \* the IVON draw the parameters contain
  passes,    \* split path: the ordinary and the mean forward pass
  shard,     \* what the rank contributes to the gradient sum
  mean,      \* the model: the gradients applied to it
  tracker,   \* each rank's FailureProbabilityTracker
  bundle,    \* what the rank contributes to the checkpoint
  file       \* checkpoint.pt of the last run that saved one

vars == <<tape, setting, run, alive, pc, step, dealt, calls, carry, out,
          weight, sent, rng, noise, passes, shard, mean, tracker, bundle, file>>

history == <<tape, setting, run, alive, file>>

World == setting.world
Objective == setting.objective
Duplicates == setting.duplicates
RefreshInterval == setting.interval
SeededDraws == setting.seeded
Schedule == setting.schedule

Ranks == 1 .. World                 \* rank + 1
LocalSize == BatchSize \div World   \* examples of the batch on one rank
Owner(s) == ((s - 1) \div LocalSize) + 1
LocalSlots(r) == {s \in Slots : Owner(s) = r}

(* No run is longer; a tape is long enough for a run that starts late.     *)
MaxUpdates == CHOOSE m \in {Schedule[k] : k \in DOMAIN Schedule} :
                \A k \in DOMAIN Schedule : Schedule[k] <= m

PCs == {"loop", "forward", "gather", "reduce", "ordinary", "mean", "split",
        "collect", "barrier", "done"}

-----------------------------------------------------------------------------
Target == Schedule[run]

(* epochs_per_iteration of the stream, ceil(max_updates * batch / groups).  *)
Epochs(updates) ==
  (updates * BatchSize + setting.groups - 1) \div setting.groups

(* An example is named by the batch that dealt it and its slot.            *)
NewCarry == [s \in Slots |-> [row |-> 0, halted |-> TRUE]]

Everywhere(value) == [r \in Ranks |-> value]

NoPasses == [ordinary |-> None, mean |-> None]

(* The initializer is the model without updates.                           *)
Init ==
  /\ tape \in Tapes
  /\ setting \in Settings
  /\ run = 1
  /\ alive = TRUE
  /\ pc = Everywhere("loop")
  /\ step = Everywhere(0)
  /\ dealt = Everywhere(0)
  /\ calls = Everywhere(0)
  /\ carry = NewCarry
  /\ out = NewCarry
  /\ weight = [s \in Slots |-> <<>>]
  /\ sent = [s \in Slots |-> None]
  /\ rng = Everywhere(0)
  /\ noise = Everywhere(None)
  /\ passes = NoPasses
  /\ shard = Everywhere(None)
  /\ mean = Everywhere(<<>>)
  /\ tracker = Everywhere(FreshTracker)
  /\ bundle = Everywhere(None)
  /\ file = None

Batches == UNION {DOMAIN t : t \in Tapes}

Failure == [step : 1 .. MaxUpdates, slot : Slots, row : Batches]

Example == [row : Batches \union {0}, halted : BOOLEAN]

TypeOK ==
  /\ tape \in Tapes
  /\ setting \in Settings
  /\ run \in DOMAIN Schedule
  /\ alive \in BOOLEAN
  /\ pc \in [Ranks -> PCs]
  /\ step \in [Ranks -> 0 .. MaxUpdates]
  /\ dealt \in [Ranks -> Batches \union {0}]
  /\ calls \in [Ranks -> 0 .. 2 * MaxUpdates + 2]
  /\ carry \in [Slots -> Example]
  /\ out \in [Slots -> Example]
  /\ rng \in [Ranks -> 0 .. 2 * MaxUpdates]
  /\ tracker \in [Ranks -> [Groups -> Seq(SUBSET Failure)]]

-----------------------------------------------------------------------------
Goto(r, label) == pc' = [pc EXCEPT ![r] = label]

(* The rank enters its next collective; it leaves when all have entered.   *)
Enter(r) == calls' = [calls EXCEPT ![r] = @ + 1]

AllEntered(r) == \A q \in Ranks : calls[q] >= calls[r]

(* stream.next_batch, of which the rank keeps its slots.                   *)
NextBatch(r) ==
  /\ pc[r] = "loop"
  /\ step[r] < Target
  /\ step' = [step EXCEPT ![r] = @ + 1]
  /\ dealt' = [dealt EXCEPT ![r] = @ + 1]
  /\ Goto(r, "forward")
  /\ UNCHANGED <<history, calls, carry, out, weight, sent, rng, noise, passes,
                 shard, mean, tracker, bundle>>

(* The example a slot works on in this step, and its group.                *)
RowOf(s) == IF carry[s].halted THEN dealt[Owner(s)] ELSE carry[s].row

GroupOf(s) == tape[RowOf(s)][s]

(* Mutant: ranks are seeded apart.                                         *)
NextNoise_PerRank(r) ==
  IF SeededDraws THEN <<"seed", step[r] + r>> ELSE <<"stream", rng[r]>>

(* Mutant: the seeded draw comes out of the rank's generator.              *)
AfterNoise_NotForked(r) == rng[r] + 1

(* _sample_params: a draw seeded by the step, with the generator put back, *)
(* or the next value of the rank's generator.                              *)
NextNoise(r) ==
  IF SeededDraws THEN <<"seed", step[r]>> ELSE <<"stream", rng[r]>>

AfterNoise(r) == IF SeededDraws THEN rng[r] ELSE rng[r] + 1

(* Mutant: the tracker is updated before its values are read.              *)
ForwardAndLoss_UpdateFirst(r) ==
  /\ \E halts \in [LocalSlots(r) -> BOOLEAN] :
       out' = [s \in Slots |->
                 IF Owner(s) = r THEN [row |-> RowOf(s), halted |-> halts[s]]
                                 ELSE out[s]]
  /\ weight' = [s \in Slots |->
       IF Owner(s) = r
       THEN Append(tracker[r][GroupOf(s)],
                   {[step |-> step[r], slot |-> s, row |-> RowOf(s)]})
       ELSE weight[s]]
  /\ sent' = [s \in Slots |->
       IF Owner(s) = r
       THEN [group |-> GroupOf(s),
             failure |-> [step |-> step[r], slot |-> s, row |-> RowOf(s)]]
       ELSE sent[s]]

(* A forward pass and the loss weighted by the tracker as it is now.       *)
ForwardAndLoss(r) ==
  /\ \E halts \in [LocalSlots(r) -> BOOLEAN] :
       out' = [s \in Slots |->
                 IF Owner(s) = r THEN [row |-> RowOf(s), halted |-> halts[s]]
                                 ELSE out[s]]
  /\ weight' = [s \in Slots |->
                  IF Owner(s) = r THEN tracker[r][GroupOf(s)] ELSE weight[s]]
  /\ sent' = [s \in Slots |->
       IF Owner(s) = r
       THEN [group |-> GroupOf(s),
             failure |-> [step |-> step[r], slot |-> s, row |-> RowOf(s)]]
       ELSE sent[s]]

(* tracker.update with the contributions of all slots, rank by rank.       *)
Updated(t) ==
  TrackerUpdate(t, [s \in Slots |-> sent[s].group],
                   [s \in Slots |-> sent[s].failure], Duplicates)

(* The gradient of the rank's share of the loss at the sampled parameters. *)
Gradient(r) ==
  [rank |-> r, step |-> step[r], noise |-> noise[r], base |-> Len(mean[r])]

(* The closure, up to the gather of the failures.                          *)
Forward(r) ==
  /\ pc[r] = "forward"
  /\ Objective = "sampled"
  /\ noise' = [noise EXCEPT ![r] = NextNoise(r)]
  /\ rng' = [rng EXCEPT ![r] = AfterNoise(r) + 1]
  /\ ForwardAndLoss(r)
  /\ Enter(r)
  /\ Goto(r, "gather")
  /\ UNCHANGED <<history, step, dealt, carry, passes, shard, mean, tracker,
                 bundle>>

(* Mutant: the rank updates its tracker with its own slots only.           *)
Gather_LocalOnly(r) ==
  LET first == (r - 1) * LocalSize
      own   == [i \in 1 .. LocalSize |-> sent[first + i]]
  IN  /\ pc[r] = "gather"
      /\ AllEntered(r)
      /\ tracker' = [tracker EXCEPT ![r] =
           TrackerUpdate(@, [i \in DOMAIN own |-> own[i].group],
                            [i \in DOMAIN own |-> own[i].failure], Duplicates)]
      /\ shard' = [shard EXCEPT ![r] = Gradient(r)]
      /\ Enter(r)
      /\ Goto(r, "reduce")
      /\ UNCHANGED <<history, step, dealt, carry, out, weight, sent, rng, noise,
                     passes, mean, bundle>>

(* The gather returns: update the tracker, go backward, sum the gradients. *)
Gather(r) ==
  /\ pc[r] = "gather"
  /\ AllEntered(r)
  /\ tracker' = [tracker EXCEPT ![r] = Updated(@)]
  /\ shard' = [shard EXCEPT ![r] = Gradient(r)]
  /\ Enter(r)
  /\ Goto(r, "reduce")
  /\ UNCHANGED <<history, step, dealt, carry, out, weight, sent, rng, noise,
                 passes, mean, bundle>>

(* The sum returns: restore the mean and apply the update.                 *)
Reduce(r) ==
  /\ pc[r] = "reduce"
  /\ AllEntered(r)
  /\ mean' = [mean EXCEPT ![r] = Append(@, {shard[q] : q \in Ranks})]
  /\ carry' = [s \in Slots |-> IF Owner(s) = r THEN out[s] ELSE carry[s]]
  /\ noise' = [noise EXCEPT ![r] = None]
  /\ Goto(r, "loop")
  /\ UNCHANGED <<history, step, dealt, calls, out, weight, sent, rng, passes,
                 shard, tracker, bundle>>

-----------------------------------------------------------------------------
(* The split path: one draw, an ordinary pass at every RefreshInterval-th  *)
(* step, the weighted pass, and one update from both gradients.            *)
IsAnchor(n) == n % RefreshInterval = 0

SplitSample(r) ==
  /\ pc[r] = "forward"
  /\ Objective = "split"
  /\ noise' = [noise EXCEPT ![r] = NextNoise(r)]
  /\ rng' = [rng EXCEPT ![r] = AfterNoise(r)]
  /\ passes' = NoPasses
  /\ Goto(r, IF IsAnchor(step[r]) THEN "ordinary" ELSE "mean")
  /\ UNCHANGED <<history, step, dealt, calls, carry, out, weight, sent, shard,
                 mean, tracker, bundle>>

(* What a pass depends on besides the batch.                               *)
Pass(r) == [noise |-> noise[r], random |-> rng[r], base |-> Len(mean[r])]

(* The generator is put back to where the draw left it.                    *)
OrdinaryPass(r) ==
  /\ pc[r] = "ordinary"
  /\ passes' = [passes EXCEPT !.ordinary = Pass(r)]
  /\ Goto(r, "mean")
  /\ UNCHANGED <<history, step, dealt, calls, carry, out, weight, sent, rng,
                 noise, shard, mean, tracker, bundle>>

MeanPass(r) ==
  /\ pc[r] = "mean"
  /\ ForwardAndLoss(r)
  /\ passes' = [passes EXCEPT !.mean = Pass(r)]
  /\ rng' = [rng EXCEPT ![r] = @ + 1]
  /\ Goto(r, "split")
  /\ UNCHANGED <<history, step, dealt, calls, carry, noise, shard, mean,
                 tracker, bundle>>

(* The mean is restored, then the model and the tracker are updated.       *)
SplitUpdate(r) ==
  /\ pc[r] = "split"
  /\ mean' = [mean EXCEPT ![r] = Append(@, {Gradient(r)})]
  /\ tracker' = [tracker EXCEPT ![r] = Updated(@)]
  /\ carry' = out
  /\ noise' = [noise EXCEPT ![r] = None]
  /\ Goto(r, "loop")
  /\ UNCHANGED <<history, step, dealt, calls, out, weight, sent, rng, passes,
                 shard, bundle>>

-----------------------------------------------------------------------------
(* The loop is over: all_gather_object of what only the rank knows.        *)
Finish(r) ==
  /\ pc[r] = "loop"
  /\ step[r] >= Target
  /\ bundle' = [bundle EXCEPT ![r] =
       [carry |-> [s \in LocalSlots(r) |-> carry[s]],
        rng |-> rng[r], dealt |-> dealt[r]]]
  /\ Enter(r)
  /\ Goto(r, "collect")
  /\ UNCHANGED <<history, step, dealt, carry, out, weight, sent, rng, noise,
                 passes, shard, mean, tracker>>

(* The primary writes the checkpoint; model and tracker are its own.       *)
Checkpoint ==
  [step |-> Target, mean |-> mean[Primary], tracker |-> tracker[Primary],
   ranks |-> bundle]

(* Mutant: only the primary goes to the barrier.                           *)
Collect_BarrierOfPrimary(r) ==
  /\ pc[r] = "collect"
  /\ AllEntered(r)
  /\ file' = IF r = Primary THEN Checkpoint ELSE file
  /\ calls' = IF r = Primary THEN [calls EXCEPT ![r] = @ + 1] ELSE calls
  /\ Goto(r, IF r = Primary THEN "barrier" ELSE "done")
  /\ UNCHANGED <<tape, setting, run, alive, step, dealt, carry, out, weight,
                 sent, rng, noise, passes, shard, mean, tracker, bundle>>

Collect(r) ==
  /\ pc[r] = "collect"
  /\ AllEntered(r)
  /\ file' = IF r = Primary THEN Checkpoint ELSE file
  /\ Enter(r)
  /\ Goto(r, "barrier")
  /\ UNCHANGED <<tape, setting, run, alive, step, dealt, carry, out, weight,
                 sent, rng, noise, passes, shard, mean, tracker, bundle>>

(* Mutant: the rank leaves through a second barrier.                       *)
Leave_SecondBarrier(r) ==
  /\ pc[r] = "barrier"
  /\ AllEntered(r)
  /\ Enter(r)
  /\ Goto(r, "done")
  /\ UNCHANGED <<history, step, dealt, carry, out, weight, sent, rng, noise,
                 passes, shard, mean, tracker, bundle>>

Leave(r) ==
  /\ pc[r] = "barrier"
  /\ AllEntered(r)
  /\ Goto(r, "done")
  /\ UNCHANGED <<history, step, dealt, calls, carry, out, weight, sent, rng,
                 noise, passes, shard, mean, tracker, bundle>>

RankStep(r) ==
  /\ alive
  /\ \/ NextBatch(r) \/ Forward(r) \/ Gather(r) \/ Reduce(r)
     \/ SplitSample(r) \/ OrdinaryPass(r) \/ MeanPass(r) \/ SplitUpdate(r)
     \/ Finish(r) \/ Collect(r) \/ Leave(r)

-----------------------------------------------------------------------------
AllDone == \A r \in Ranks : pc[r] = "done"

(* One process fails, by an exception or otherwise, and takes all with it. *)
Crash ==
  /\ alive
  /\ ~AllDone
  /\ alive' = FALSE
  /\ UNCHANGED <<tape, setting, run, pc, step, dealt, calls, carry, out, weight,
                 sent, rng, noise, passes, shard, mean, tracker, bundle, file>>

NewRun ==
  /\ alive => AllDone
  /\ run < Len(Schedule)
  /\ run' = run + 1
  /\ UNCHANGED <<tape, setting, file>>

(* New processes; what the loop starts from is set by the caller.          *)
NewProcesses ==
  /\ NewRun
  /\ alive' = TRUE
  /\ pc' = Everywhere("loop")
  /\ calls' = Everywhere(0)
  /\ out' = NewCarry
  /\ weight' = [s \in Slots |-> <<>>]
  /\ sent' = [s \in Slots |-> None]
  /\ noise' = Everywhere(None)
  /\ passes' = NoPasses
  /\ shard' = Everywhere(None)
  /\ bundle' = Everywhere(None)

StartFresh ==
  /\ NewProcesses
  /\ step' = Everywhere(0)
  /\ dealt' = Everywhere(0)
  /\ carry' = NewCarry
  /\ rng' = Everywhere(0)
  /\ mean' = Everywhere(<<>>)
  /\ tracker' = Everywhere(FreshTracker)

SameEpochs == Epochs(file.step) = Epochs(Schedule[run + 1])

(* Mutant: the stream of the new process starts at its beginning.          *)
Resume_StreamRestarts ==
  /\ file # None
  /\ NewProcesses
  /\ SameEpochs
  /\ step' = Everywhere(file.step)
  /\ mean' = Everywhere(file.mean)
  /\ tracker' = Everywhere(file.tracker)
  /\ carry' = [s \in Slots |-> file.ranks[Owner(s)].carry[s]]
  /\ rng' = [r \in Ranks |-> file.ranks[r].rng]
  /\ dealt' = Everywhere(0)

(* restore_training_checkpoint and what run_training takes from the        *)
(* adapter state: the model and the tracker of the primary on every rank.  *)
Resume ==
  /\ file # None
  /\ NewProcesses
  /\ SameEpochs
  /\ step' = Everywhere(file.step)
  /\ mean' = Everywhere(file.mean)
  /\ tracker' = Everywhere(file.tracker)
  /\ carry' = [s \in Slots |-> file.ranks[Owner(s)].carry[s]]
  /\ rng' = [r \in Ranks |-> file.ranks[r].rng]
  /\ dealt' = [r \in Ranks |-> file.ranks[r].dealt]

(* The stream refuses a state with another epochs_per_iteration.           *)
RefuseResume ==
  /\ file # None
  /\ NewRun
  /\ ~SameEpochs
  /\ alive' = FALSE
  /\ UNCHANGED <<pc, step, dealt, calls, carry, out, weight, sent, rng, noise,
                 passes, shard, mean, tracker, bundle>>

Next ==
  \/ \E r \in Ranks : RankStep(r)
  \/ Crash
  \/ StartFresh \/ Resume \/ RefuseResume

Spec == Init /\ [][Next]_vars

(* Every rank of a living run keeps executing; there are no more ranks     *)
(* than slots.                                                             *)
FairSpec == Spec /\ \A r \in Slots : WF_vars(r \in Ranks /\ RankStep(r))

-----------------------------------------------------------------------------
(* Two ranks that have reached the same step hold the same model, the same *)
(* failure estimates and the same place in the random stream, although     *)
(* each saw only its share of the batch (train.py:1119-1132); the          *)
(* checkpoint relies on it and keeps the primary's only.                   *)
RanksAgree ==
  \A q, r \in Ranks :
    pc[q] = "loop" /\ pc[r] = "loop" /\ step[q] = step[r] =>
      /\ mean[q] = mean[r]
      /\ tracker[q] = tracker[r]
      /\ rng[q] = rng[r]

(* The loss of a step is weighted by the estimates before that step: all   *)
(* earlier failures of the group, none of its own (fbi.py objective with   *)
(* lagged values).                                                         *)
LaggedWeights ==
  \A s \in Slots :
    LET r         == Owner(s)
        estimates == tracker[r][sent[s].group]
    IN  pc[r] \in {"gather", "reduce", "split"} =>
          /\ DOMAIN weight[s] \subseteq DOMAIN estimates
          /\ \A k \in DOMAIN weight[s] : weight[s][k] = estimates[k]
          /\ \A k \in DOMAIN estimates :
               k \in DOMAIN weight[s] <=> \A f \in estimates[k] : f.step < step[r]

(* Every update applies one gradient of the whole batch: a share of every  *)
(* rank, all taken in the same step, from the same model under the same    *)
(* draw.                                                                   *)
OneGradient ==
  \A r \in Ranks : \A k \in DOMAIN mean[r] :
    /\ {g.rank : g \in mean[r][k]} = Ranks
    /\ \A g, h \in mean[r][k] : g.noise = h.noise /\ g.base = h.base
    /\ \A g \in mean[r][k] : g.base = k - 1 /\ g.step = k

(* How much randomness a run has consumed is a function of the step alone: *)
(* neither refreshing the curvature nor resuming a run moves the stream,   *)
(* although a refresh passes through the model twice, both times at the    *)
(* same parameters with the same randomness (train.py:1144-1166).          *)
RandomnessFollowsSteps ==
  /\ \A r \in Ranks :
       pc[r] = "loop" => rng[r] = (IF SeededDraws THEN 1 ELSE 2) * step[r]
  /\ \A r \in Ranks : pc[r] = "split" =>
       passes.ordinary = IF IsAnchor(step[r]) THEN passes.mean ELSE None

(* A run that does not die ends on every rank: no rank waits for ever in a *)
(* collective that another one does not enter.                             *)
RunEnds == alive ~> (AllDone \/ ~alive)

-----------------------------------------------------------------------------
(* The state of the single process that the ranks stand for: that of a     *)
(* rank that has folded in the most failures.                              *)
Folded(r) == Len(mean[r]) + (IF pc[r] = "reduce" THEN 1 ELSE 0)

Leader == CHOOSE r \in Ranks : \A q \in Ranks : Folded(q) <= Folded(r)

GlobalCarry ==
  [s \in Slots |->
     IF Len(mean[Owner(s)]) = Folded(Leader) THEN carry[s] ELSE out[s]]

SavedState ==
  IF file = None
  THEN [updates |-> 0, carried |-> NewCarry, estimate |-> FreshTracker]
  ELSE [updates |-> Len(file.mean),
        carried |-> [s \in Slots |-> file.ranks[Owner(s)].carry[s]],
        estimate |-> file.tracker]

Reference == INSTANCE RRMReference WITH
  duplicates <- Duplicates,
  updates <- Folded(Leader), carried <- GlobalCarry,
  estimate <- tracker[Leader], durable <- SavedState

(* The ranks implement one process that trains over the global batch, and  *)
(* a run that is resumed continues it.                                     *)
ImplementsReference == Reference!ReferenceSpec
=============================================================================
