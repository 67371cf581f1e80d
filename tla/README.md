# Verification of Fenchel-Bregman IVON training

TLA+ modules, TLC runs and TLAPS proofs about the program in this repository:
reinforcement learning of a language model (`src/auto_lm`) and training of
recursive reasoning models (`src/rrm`) with the Fenchel-Bregman (FB) objective
and the variational optimizer IVON (`src/optim`), and the fully asynchronous
trainer of the framework they run on (`src/auto_lm/MMPO/verl`).

The program's own logic is a protocol. For each training step the driver names
a *logical perturbation*, every actor rank adds its own posterior noise to its
parameters, the perturbed weights are pushed to the rollout replicas, a batch is
generated with them, gradients are taken at exactly these parameters, the noise
is taken out by **drawing it again**, the optimizer steps or skips, and the
failure state that weights the next advantages is committed only if it stepped.
The state is spread over many processes and, in a checkpoint, over many files;
the job may die anywhere and resumes from the last tracked checkpoint.

Paths below are relative to `src/auto_lm/MMPO/verl` (`verl/`), to
`src/auto_lm/MMPO/recipe/mmpo` (`recipe/`) or to `src/`.

## 1. Inventory

| Component | State it keeps | Operations | Modelled in |
|---|---|---|---|
| IVON optimizer, `optim/fbi_ivon.py`, with the lifecycle checks of `verl/workers/engine/ivon_contract.py` | mean, Hessian, generator, captured generator state, `_is_noised`, perturbation ID, sample count, step, checkpoint metadata | `_sample_params`, `_restore_param_average`, `step`, `_reset_samples`, `state_dict`, `load_state_dict`; `sample_ivon_parameters`, `restore_ivon_parameter_mean`, `assert_ivon_perturbation` | `IVON` |
| Actor worker and engine, `verl/workers/engine_workers.py`, `engine/base.py`, `engine/fsdp/transformer_impl.py` | the optimizer, `p.grad`, progress of a `train_batch` | `sample_parameters`, `restore_parameter_mean`, `train_batch`, `optimizer_step`, save and load | `IVONWorker`, `FBTrainer` |
| Failure state, `auto_lm/fbi.py` (formulas in `fb.py`) | failure EMA per problem, pending update, perturbation counter | `next_perturbation_id`, `compute_advantages`, `commit`, `save`, `load` | `FBTrainer`, `FBTransaction` |
| Training loop, `recipe/mmpo_ray_trainer.py` | `global_steps`, dataloader position | `fit`, `_validate_fb_posterior_draws`, `_commit_fb_update`, `_save_checkpoint`, `_load_checkpoint` | `FBTrainer` |
| Weight transfer, `verl/checkpoint_engine/base.py`, `nccl_checkpoint_engine.py`, `verl/workers/rollout/vllm_rollout/bucketed_weight_transfer.py` | replicas asleep or awake; two buffers per rank and one per receiver, copies under way, metadata on a PUB/SUB topic, a merged weight | `sleep_replicas`, `update_weights`; `split_weight_chunks`, `send_weights`, `receive_weights`, `merge_weight_chunks`, `async_send_weights`, `load_weights` | `FBTrainer` (colocated), `Serving` (abort, load, resume), `WeightTransfer` (the bytes) |
| Rollout servers and load balancer, `verl/workers/rollout/llm_server.py`, `vllm_rollout/vllm_async_server.py` | of a server: asleep, paused, weights, `global_steps`; in-flight counts, sticky entries | `acquire_server`, `release_server`, `add_servers`, `remove_servers`, `generate`, `abort_all_requests`, `resume_generation`, `sleep` | `Serving` |
| Checkpoint store, `verl/utils/checkpoint/*.py` | files of each checkpoint, tracker file, `previous_saved_paths` | save with retention, find the latest, load | `CheckpointStore` |
| Launcher and configuration, `auto_lm/run.py`, `recipe/main_mmpo.py` | none | build and validate one configuration | not modelled; its guarantees are assumed |
| Objectives, `recipe/core_algos.py`, `dmpo_objective.py`, ... | none | real-valued formulas over a batch | not modelled |
| RRM tracker, `FailureProbabilityTracker` of `rrm/fbi.py` | failure estimate per group, on every rank | `update` with `sequential` or `group_mean` duplicates, `state_dict` | `FailureTracker` |
| RRM training loop, `rrm/train.py` | model, tracker, carry and generators of every rank, one checkpoint file | the update of the sampled and of the split path, gather, gradient sum, final checkpoint, resume | `RRMTraining`, `RRMReference` |
| RRM puzzle stream, `PuzzleTrainStream` of `rrm/utils.py` | iteration, cursor, generators | `next_batch`, `state_dict`, `load_state_dict` | `PuzzleStream` |
| RRM models and evaluation, `rrm/fprm.py`, `ptrm.py`, `gram.py`, `evaluation.py`, `arc.py` | numerical | | not modelled |
| Other optimizers, `optim/ivon.py`, `evon.py`, `soap.py`, ... | numerical | | not modelled |
| Fully asynchronous policy, `verl/experimental/fully_async_policy` | message queue, pending queue, active tasks, staleness counter, pause flag and event, lock; `local_trigger_step`, `current_param_version` | feed, process, pause, resume, reset, monitor, put, get; train, push, validate, save, restart; partial rollout | `FullyAsync`, `Serving` |
| One-step-off, agent loop, reward loop, the rest of verl | | services of the loop, or unused by the recipe | not modelled |

How they interact. The driver is one process and calls the ranks remotely; a
call runs on all ranks in any order and the driver waits for all of them.
Weights reach the replicas only through `update_weights`. The failure state
lives in the driver, the model in the ranks; the only link between "the model
was updated" and "the failure state was updated" is the metric
`actor/optimizer_step_succeeded`. Driver and ranks write different files of one
checkpoint, and the tracker file, written last, makes it count.

The recursive reasoning part is a program of its own. Every rank runs the whole
of `run_training`, deals itself the same global batch, works on its slots of it,
and meets the others only in collectives: the gather of the failures, the sum of
the gradients, and the two at the end around the checkpoint. Model and failure
estimates exist once per rank and must be equal although nobody compares them.

The fully asynchronous trainer is a third program, on the same workers. The
rollouter is one event loop that turns samples of the dataloader into generation
tasks; finished samples go through a Ray actor, `MessageQueue`, to the trainer,
which is another actor and comes back with three calls: new weights for the
servers, `reset_staleness`, and every `test_freq` versions a validation for
which it lends its own GPUs to the load balancer. Requests know nothing of this:
they are aborted and come back.

What is hard here: noise removed by regeneration, which is only right if
nothing it depends on has moved; evaluation draws that borrow the training
generator; skipped steps, which leave a sample collected but not consumed; a
transaction over many ranks and the driver without a commit protocol; crashes
between any two file operations of a save, with retention deleting files at the
same time; a resume that must put five streams back to one step; estimates kept on every
rank, whose value depends on the order of their observations; an example
that stays in its slot over several updates, whose failures must go to its own
group; a counter that one coroutine increments and another overwrites; decisions
taken before an `await` and carried out after it; buffers used again while
asynchronous copies read them; and requests that meet servers which are paused,
loaded, lent, taken back and put to sleep one by one.

What makes each component correct is stated by the properties of its module,
section 3. The list of hazards, each at its line with the properties that
cover it, is in `PROJECT.json`.

## 2. Modules

* `IVON` - operators on the record of one optimizer; no variables. A parameter
  tensor is the version of its mean and the set of signed noise draws in it. A
  draw is named by what it is computed from: the generator state and the
  version of the Hessian. Two draws cancel only if they are the same draw, so
  "restored" is a result and not an assumption. `_restore_param_average` is
  modelled as it is written: it regenerates from the captured state and the
  *current* Hessian. Loading keeps the runtime-only fields, as the code does.
* `IVONWorker` - one rank serving every order of calls, with right and wrong
  names, with seeds and without; a call is served or refused, a backward pass
  may raise after any number of microbatches, a step may be skipped. This is
  more than the driver does: what holds here does not rely on the driver.
* `FBTrainer` - the job: driver, ranks, replicas, disk, crashes and restarts.
  The program counter `pc` is the line of `fit` where the driver stands; `todo`
  the ranks that have not finished the current remote call. Actions of ranks
  (`Sample`, `Backward`, `Optimize`, `SaveActor`, `EvalSample`, `EvalRestore`)
  interleave, all others are the driver's. `ContractNeverRefuses` states that
  the guards standing for raised exceptions are never false where the driver
  gets to them, so nothing is hidden by a disabled action. `job` is the configuration,
  chosen in `Init` and never changed: how many evaluation draws, whether the
  failure state is frozen, whether the instance may expire.
* `FBTransaction` - what FB training promises: a step updates model and failure
  state together or not at all, saves make the pair durable as a whole, a crash
  brings back the last durable pair; with a frozen failure state only the model
  moves. `FBTrainer!ImplementsTransaction` is the
  refinement; the mapping is at the end of `FBTrainer`.
* `CheckpointStore` - the checkpoint directory file by file. Each file holds
  the number of the process incarnation that wrote it, so that a mixture of two
  incarnations is visible. Retention removes files one at a time. `maxKeep` is the limit of this job.
* `FailureTracker` - operators, no variables. The estimate of a group is a moving
  average, so it is represented by what determines it: the sequence of the
  observations folded in, each the set of the failures whose mean it was. The loop
  over the batch is a recursive function.
* `RRMReference` - what RRM training promises: a single process over the global
  batch, with an update, a checkpoint and a start as its only steps.
* `RRMTraining` - the ranks. `calls[r]` counts the collectives a rank has
  entered; it leaves one when every rank has entered it (`AllEntered`), so ranks
  drift apart by as much as the code lets them. `setting` is the configuration,
  chosen in `Init`. `Objective = "sampled"` is the
  closure given to IVON, taken by FPRM on many ranks, with the noise seeded by
  the step or taken from the rank's generator; `"split"` is the price-anchored
  path of PTRM on one rank, with its second forward pass under a replayed
  generator. Halting of examples is the model's choice. `Resume` and
  `RefuseResume` follow `epochs_per_iteration`, which depends on `max_updates`
  and which the stream compares. The refinement `ImplementsReference` reads the
  single process off the rank that is furthest ahead (`Leader`).
* `PuzzleStream` - one stream, down to the single group taken into a batch. A
  random value is named by the state of its generator, so equality of values
  across a restart means equality of generator states; the tape says what these
  values are.
* `FullyAsync` - rollouter, message queue and trainer. What the event loop runs
  between two awaits is one action; `pc` is the await where `_processor_worker`
  stands, `lock` says who holds the asyncio lock across an await. Feed,
  processor, tasks, monitor and trainer interleave; a generation may raise and
  the job may be killed and started from its last checkpoint. `fresh`,
  `staleUsed` and `trained` are history: under which weights a sample was
  submitted and what was trained.
* `WeightTransfer` - one transfer, byte by byte and copy by copy. `stream[n]`
  are the copies enqueued on a device and not yet carried out, so a missing
  `synchronize()` shows as wrong bytes (`LoadedFaithfully`). Every receiver is
  one coroutine (`pc`), its broadcast in the executor's thread (`op`) and the
  worker behind its ZMQ socket (`worker`).
* `Serving` - requests, load balancer, servers and the trainer's program. The
  trainer works through the instructions of `Update` and `Validation`, which
  are the awaited calls of `update_weights` and `_trainer_side_validate` in their
  order; each takes effect on its servers one by one. It takes from
  `WeightTransfer` only that a load either has happened on a server or has not.
* `IVONWorker_proofs`, `FBTrainer_proofs`, `CheckpointStore_proofs`,
  `RRMTraining_proofs`, `PuzzleStream_proofs`, `FullyAsync_proofs`,
  `WeightTransfer_proofs`, `Serving_proofs` - each the theorems about the module
  it is named after, with the invariant they rest on and the lemmas about the
  module's operators; section 4.
* `MC*` - instances for TLC. Definitions named `X_Something` directly above a
  definition `X` are deliberately wrong variants of it, used to confirm that
  the properties notice; no specification uses them.

## 3. Runs

| Run | Question and result |
|---|---|
| `worker` | One optimizer, every order of calls. `ParamsCoherent`: parameters hold the mean, or the mean and exactly the draw a restore would regenerate. `TrainBatchNeverAborts`: an accepted batch is never refused later. `UpdateUsesItsOwnDraw`: an update uses gradients of its own perturbation only. `NoDrawReuse`: no training draw is used by two updates, whatever was evaluated in between. All hold. |
| `trainer` | The job on two ranks with skips and two crashes, with seeded evaluation and as the ablation with a frozen failure state on an instance that may expire at any step. `OnPolicyDraw` and `GenerateSeesCurrent` (which weights the replicas and the gradients see), `CheckpointCoherent`, `DrawIsFunctionOfStep` (a resumed job continues the same streams), `ContractNeverRefuses`, the liveness property `FitEnds` and the refinement of `FBTransaction` hold. |
| `store` | Retention without limit and with limits of one and two: `TrackedLoadable` (under every limit but one the tracked checkpoint is whole and of one incarnation) and `KeepsAtMost` hold across crashes at every file operation. |
| `rrm` | Two ranks of the sampled path, and one rank of the split path with a stateful generator and `group_mean` duplicates, over several runs with crashes anywhere, a resume and a refused resume. `RanksAgree`, `LaggedWeights`, `OneGradient`, `RandomnessFollowsSteps` (the position of the random streams is that of the steps, and both passes of a refresh see the same parameters and randomness), the liveness property `RunEnds` (no rank is left in a collective) and the refinement of `RRMReference` hold. |
| `puzzle_stream` | `SameBatchAgain` (a resumed stream deals the batches an uninterrupted one deals), `FreshDraws` (no two batches share randomness, dropped batches included), `BatchesReturn` (`next_batch` returns). |
| `async` | `OutstandingBounded`: at most one sample over the limit is under way. `SynchronousWhenZero`: with `staleness_threshold = 0` nothing stale is trained on, nothing is dropped, every announced version is trained. `TrainedOnce`: no sample twice, restarts included. `TrainerFinishes`: the trainer ends, whatever wakeup is lost and whichever generation raises, unless a reset counted a task whose sample was trained already (`Miscounted`); then the rollouter may stay paused with the trainer waiting. |
| `weights` | `LoadedFaithfully`: what the workers load is a prefix of what was sent, byte for byte. `AssertionsHold`: none of the transfer's assertions fails. `TransferEnds`: it ends with everything loaded, unless metadata were published before a subscription arrived, or a worker's `load_weights` raised; in both cases the code waits for ever. |
| `serving` | `OneVersion`: the servers of the pool that take requests hold one version, under its label, and are awake. `VersionsBracket`: the versions a finished request reports bracket all of its tokens. `RequestsReturn`: every request ends and the trainer gets through, except for requests caught at the gate of a server that leaves the pool. `TypeOK` includes that no in-flight count is negative. |
| `beyond_total`, `store_keep_one`, `async_stale`, `serving_asleep` | Statements of the documentation that the code does not keep, section 5. |

Bounds, and why they are enough:

* `worker`: at most four draws from any one generator, so that a training draw,
  an evaluation draw, a skipped and an applied update fit in every order; two
  microbatches, so that a backward pass can raise between them; two training
  names and one evaluation name, so that a wrong name exists for every call.
* `trainer`: two ranks, so that a rank can be ahead of another inside a call;
  four steps and `SaveFreq` 3, so that unsaved steps lie before the first save
  and the last step is saved off schedule; two evaluation draws, so that one
  follows another; two crashes, so that a resumed job can crash again.
  `MaxStep = TotalSteps + MaxCrashes` bounds only what a job resumed from its
  final checkpoint adds.
* `store`: limits zero (keep everything), one and two and four saves, so that
  retention evicts twice under each limit; three incarnations; two ranks with
  three files each.
* `rrm`: two slots; two ranks with one slot each, so that the order of the
  gathered failures matters and one rank can be ahead inside a step; two tapes
  over two groups, which have one group twice in a batch and both orders of two
  groups; runs of up to 1, 2 and 3 updates, so that a run is resumed after
  another, and four groups per epoch, so that the third asks for another
  `epochs_per_iteration` and its resume is refused. The split path has runs of up
  to 3 and 4 updates and a refresh every second step, so that refreshes lie on
  both sides of the resume.
* `puzzle_stream`: two groups in two epochs per iteration, batches of three rows
  and puzzles of one or two, so that batches end inside and at the end of a
  puzzle and of an iteration and are dropped; four batches, so that a second and
  a third iteration start; two restarts; all 16 tapes of these sizes.
* `async`: local steps of one sample and two per version, so that a version is
  made of several steps; a limit of one version (synchronous) and of one and a
  half; two tasks at a time and a pending queue of one, so that every place where
  a sample waits can be full; four samples, that is two versions; one fault, a
  generation that raises or a restart. `MaxSample` bounds what a restarted job
  fetches again; it is never reached by a job of this size. `async_stale` has six
  samples and no fault.
* `weights`: buckets of two bytes, two receivers, and seven lists of weights:
  smaller than a bucket, filling one, of one and a half, of two and of two and a
  half buckets, alone and between small ones, so that chunks of two weights share
  a bucket and a merge spans three; one worker that raises.
* `serving`: two standalone servers, so that least-loaded has a choice and one
  can be paused before the other; one hybrid server; one generation request that
  may live through both versions; one request of each validation; every version
  validated; `partial_rollout` on and off.

Fairness. `FairSpec` asks that the driver and each rank keep executing
(weak fairness of `DriverStep` and of each `RankStep(r)`): the driver is a
plain loop and a Ray actor executes its next call. Crashes and non-finite
gradients are never forced and never forbidden beyond `MaxCrashes`. `FitEnds`
excludes a torn tracker, which does stop the job for good. In `RRMTraining` every rank of a living run keeps
executing, and a collective returns once all have entered. In `PuzzleStream` only
the steps inside one call of `next_batch` are fair: nobody has to call it. Its
`BatchesReturn` rests on the assumption that an iteration has at least as many
groups as a batch has rows, which the code does not check and which the
registered data sets, with 1000 groups, meet. In `FullyAsync` a coroutine that can
go on does, and one that waits for the asyncio lock gets it when it keeps finding
it free (strong fairness), because `asyncio.Lock` serves its waiters in order;
generation ends, the monitor keeps looking. In `WeightTransfer` every thread,
device and process goes on; whether a subscription arrives (`Join`) and whether
`load_weights` raises is left open. In `Serving` messages arrive, the engines
serve, the trainer's calls return; nobody has to start a request or train the
next version. `IVONWorker` and
`CheckpointStore` only have safety properties and no fairness. Deadlock is not
checked where the system stops: the end of `fit` or of `run_training`, a failed
load, a transfer that is over, the last version, and the bound of the counters.

## 4. Proofs

Every theorem holds for all values of the constants that meet the named
assumption of its module (`WorkerConstants`, `TrainerConstants`, ...), which TLC
evaluates on every run. These assumptions are types, values that are not one
another (`NoSeed`, `NoGen`, `NoFile`, rank 0 is no receiver) and what the code
or its configuration guarantees: the names of training and evaluation draws are
disjoint (`train:` and `eval:` prefixes), an iteration of the puzzle stream has
at least as many groups as a batch has rows, the stream deals a batch for every
update of every run (`TapesAreLong`; it never ends), the split path runs on one rank, a
version needs no more samples than may be outstanding. The bounds that keep
TLC's instances finite (crashes, restarts, draws, versions, steps) are arbitrary
numbers in the proofs; `MaxSample` of `FullyAsync` is so large that it never binds.

| Module | Theorem | States |
|---|---|---|
| `IVONWorker_proofs` | `TypeCorrect`, `MeanNeverDrifts`, `AcceptedBatchNeverAborts`, `CoherentUpdate`, `DrawsAreUsedOnce` | `TypeOK`, `ParamsCoherent`, `TrainBatchNeverAborts`, `UpdateUsesItsOwnDraw`, `NoDrawReuse` |
| `FBTrainer_proofs` | `TypeCorrect`, `ContractAlwaysAccepts`, `GradientIsOnPolicy`, `TrackedCheckpointIsACut`, `DrawsFollowTheStep`, `ReplicasGenerateCurrent`, `TrainingIsTransactional` | `TypeOK`, `ContractNeverRefuses`, `OnPolicyDraw`, `CheckpointCoherent`, `DrawIsFunctionOfStep`, `GenerateSeesCurrent`, the refinement `ImplementsTransaction` |
| `CheckpointStore_proofs` | `TypeCorrect`, `TrackedCheckpointSurvives`, `RetentionKeepsLimit` | `TypeOK`, `TrackedLoadable`, `KeepsAtMost` |
| `RRMTraining_proofs` | `TypeCorrect`, `RanksAlwaysAgree`, `OneGradientPerUpdate`, `RandomnessIsStep`, `WeightsLag`, `TrainingImplementsReference`; `ModesDifferByDuplicatesOnly` | `TypeOK`, `RanksAgree`, `OneGradient`, `RandomnessFollowsSteps`, `LaggedWeights`, the refinement `ImplementsReference`; a law of the tracker |
| `PuzzleStream_proofs` | `TypeCorrect`, `DrawsAreFresh`, `RestartDealsTheSame` | `TypeOK`, `FreshDraws`, `SameBatchAgain` |
| `FullyAsync_proofs` | `TypeCorrect`, `RunsAheadBounded`, `SamplesTrainedOnce`, `SynchronousWithoutAhead` | `TypeOK`, `OutstandingBounded`, `TrainedOnce`, `SynchronousWhenZero` |
| `WeightTransfer_proofs` | `TypeCorrect`, `LoadsWhatWasSent`, `AssertionsNeverFail` | `TypeOK`, `LoadedFaithfully`, `AssertionsHold` |
| `Serving_proofs` | `TypeCorrect`, `PoolServesOneVersion`, `NotedVersionsBracket` | `TypeOK`, `OneVersion`, `VersionsBracket` |

In every module the invariant is called `IInv`, a conjunction of named parts (in
`FullyAsync` a second one, `SyncInv`, joins it); it
holds initially, every action preserves it, and the properties follow from it.
Why it has to be stronger than they are:

* `IVONWorker`. `ParamsCoherent` is not inductive alone: that a restore removes
  the draw needs that the captured generator state is there (`DrawCaptured`) and
  that the Hessian has not moved since, which holds because only an unperturbed
  optimizer steps, that is `TrainBatchNeverAborts`; that an update uses its own
  draw needs that every gradient collected so far was taken at the current
  contents (`GradientOfThisBatch`). `AddThenCancel` is the lemma about the noise
  bookkeeping that everything rests on: taking out the draw that was just added
  gives back what was there. That no draw serves twice follows from the
  generator only moving forward over what the updates have used.
* `FBTrainer`. The driver is one process, so where it stands and which ranks it
  waits for determine what each optimizer holds: the bare mean, or the mean and
  the one draw with the name of the step (`ShapeInv`, `DriverInv`); every counter is
  a function of the step (`StepInv`, `StreamInv`, `BatchInv`); the means differ only
  between ranks on different sides of `Optimize` (`MeanInv`); a save in progress
  has written what it is about to track (`SaveInv`). `CheckpointCoherent` is part of
  the invariant, since what a restart loads must satisfy all the others. In
  `TrainingIsTransactional` each step of the job is a step of `FBTransaction` or a
  stutter: an update of model and failures happens at `Commit`, after the last rank
  has stepped, a save when the tracker is written, a restart at `Crash`; `ColdStart`
  adds that a process that has loaded nothing has learned nothing.
* `CheckpointStore`. The tracked step is the last of the kept paths, or the last
  but one while a save has registered its own (`TrackedIsLast`); paths that are
  being removed are older than it (`DoomedAreOld`); what a save has
  written so far is of its own incarnation (`SavedSoFar`). That the limit is not
  one is used in one place: what is being removed is then older than the tracked
  checkpoint (`DoomedAreOld`), for which there is room beside the new one
  (`RoomLeft`).
* `RRMTraining`. A collective lets no rank go before every rank has entered, so
  two ranks are at most one collective apart (`ClockInv`); what a rank contributed
  stays put until the last rank has taken it (`ShardInv`), so all ranks fold the
  same contributions into what was the same before (`AgreeInv`). `RanksAlwaysAgree`
  holds for any sequence of runs. `OneGradientPerUpdate` and `RandomnessIsStep`
  assume `GrowingSchedules`: no run is started for fewer updates than an earlier
  one, since a run that is, stops beyond its own end, which `OneGradient` and
  `RandomnessFollowsSteps` do not describe. So does `TrainingImplementsReference`:
  the first rank that leaves the gather, or the split update, is the reference's
  update, the primary's write its checkpoint, and every other step a stutter
  (`GatherMaps`, `CollectMaps`, `StartMaps`, `QuietStep`). It needs that the stream is as
  far as the updates (`StreamInv`) and that a slot's contribution is about the
  example it works on until the rank has applied it (`SentInv`), and it assumes
  that no checkpoint is the value `None` (`NoneIsNoFile`). `WeightsLag` and
  `TypeCorrect`, again for growing sequences of runs, rest on `LagInv`, inductive
  beside the rest: an estimate is made of failures of updates that have been folded
  in and of no later one (`FoldsInv`), so the weight of the update under way, computed
  before its own failures are gathered, is all of the estimate that is older
  (`WeightInv`); a rank has entered at most two collectives per update
  (`CallsInv`). `FoldsInv` and `WeightInv` survive an update of the tracker because it
  only appends, to the groups the batch visits, observations of failures of that
  batch (`TrackerGrows`). Since an update is a loop, this is an induction over its length. The
  induction theorems of the library take an operator as a parameter, so
  `InductionOverSet` states the principle for sets of numbers instead, from the
  least element of a set that the well-founded order gives; the property of the loop
  is then a set of indices. `ModesDifferByDuplicatesOnly` comes from the same
  induction: on a batch that visits no group twice, the loop of `sequential` and the
  single pass of `group_mean` agree.
* `PuzzleStream`. However often the process is replaced, it is at a station of one
  uninterrupted run. The invariant says that such a run exists (`OnRun`) and that the
  batches served and the state saved are taken from it. It quantifies over runs,
  so TLC cannot evaluate it; `Walks`, the lemma that a run is determined by its
  first station, gives the action property.
* `FullyAsync`. Samples leave the data stream in order (`InOrder`) and each is in one
  place (`OnePlace`), so none is met again; the staleness counter is never more
  than one behind what is outstanding (`StaleInv`), because `reset_staleness` misses
  only the sample that the processor holds (`ActiveInv`, `LockInv` say where it can
  stand while that happens). `SynchronousWithoutAhead` rests on a second invariant,
  `SyncInv`, inductive beside the first: what has been taken from the pending queue
  since the last reset - samples under way, samples whose generation raised, the end
  signal, and what the trainer has had of the version - is at most one version
  (`ProgressInv`), although the counter that should enforce it is overwritten; so
  nothing is left under way when the weights are pushed (`FreshInv`) and the queue has
  room. Without failures the end signal comes last in both queues (`LastInv`), and
  every sample that was fed is trained on or under way (`TotalInv`), which gives the
  number of versions at the end.
* `WeightTransfer`. No broadcast starts before every receiver has the one before
  it, so a receiver is at most two buckets behind and the positions at which
  their buckets begin and end meet (`RootInv`, `LinkInv`); a buffer holds its bucket
  up to the copies still enqueued (`RootCopied`, `ArrivedInv`); the merge and the IPC
  bucket are what lies before the receiver's cursor (`PlaceInv`, `PackedInv`); a copy
  enqueued on a device will find the bytes it was enqueued for, because its
  source is filled again only behind a `synchronize()` (`CopiedInv`); a worker is
  loading only from a device that has come to rest (`HandedInv`). Bytes, buckets
  and buffers are sequences of arbitrary length here.
* `Serving`. The trainer's program is always what is left of the sixteen
  instructions of an update and a validation; the place of the instruction it is
  at says which servers take no request, are awake and have loaded what
  (`ProgramInv`, `AwakeInv`), and where each request can be (`RequestInv`).

What the proofs corrected. Three statements turned out to be true on TLC's
instances only, and were restated: bounds of `TypeOK` in `FullyAsync` that hold
for its small job but not in general; `SynchronousWhenZero`, whose last conjunct fails
when a version is a single sample and the job is restarted; and in `FBTrainer`,
where `CheckpointCoherent` and `DrawIsFunctionOfStep` say where the noise stream
stands only if evaluation draws are seeded or there are none (`StreamUntouched`),
because an evaluation draw without a seed is taken out of the training stream.

Model-checked only: liveness under fairness (`FitEnds`, `RunEnds`, `BatchesReturn`,
`TrainerFinishes`, `TransferEnds`, `RequestsReturn`), which is outside the
prover's reach. Every other property of a passing run is a theorem. The four runs
that show a disagreement need none: their traces are the evidence.

## 5. Where documentation and code disagree

1. `beyond_total`: "Total training steps" is not an upper bound. After a
   restart `fit` increments `global_steps` and trains before anything compares
   it with the total (`recipe/mmpo_ray_trainer.py:1657`, `1725`). When the total
   is given explicitly and the epochs are not exhausted, a job resumed from its
   final checkpoint, by `resume_mode` `auto` (the default of the configuration) or
   by `resume_path`, trains one more step.
   (With a total derived from the epochs the epoch loop is empty instead.)
2. `store_keep_one`: with a limit of one the previous checkpoint is removed when
   the new *shards* are written, before the failure state, the dataloader state
   and the tracker; `checkpoint_manager.py:148` promises to keep it until the
   save completes.
3. `async_stale`: `staleness_threshold` "indicates the maximum proportion of
   stale samples allowed to be used" (`fully_async_policy/README.md:128`).
   `reset_staleness` counts the active tasks and the queued samples
   (`fully_async_rollouter.py:575`), but not the sample that the processor has
   taken from the pending queue and holds while it waits for a free slot; one
   more stale sample than allowed may be trained on.
4. `serving_asleep`: a hybrid server is drained before it sleeps
   (`vllm_async_server.py:1058`), but an aborted client that asks again before
   `remove_replicas` is handed the same server and waits at its paused gate, which
   is not drained; `resume_generation_replicas` (`fully_async_trainer.py:593`)
   lets it in after the weights were released. What the engine does then is not
   defined, and the interruption is not "invisible to the AgentLoop"
   (`fully_async_rollouter.py:52`).

Two weaknesses of the checkpoint store are in the model and contradict no
document. `previous_saved_paths` is not restored after a restart, so checkpoints
of an earlier incarnation are never rotated out (`checkpoint_manager.py:59`). The
tracker file is truncated before it is written
(`recipe/mmpo_ray_trainer.py:1258`); a crash in between makes the restart raise.

## 6. Abstractions and what is left out

* Numbers. Means, Hessians and failure estimates are versions and counts;
  rounding of `(p + n) - n` in low precision is outside the model.
* One update per rollout: `validate_fb_training_contract` demands it, so a
  `train_batch` of `FBTrainer` carries the perturbation of its step.
* One `train_batch` of `FBTrainer` is `Backward` on each rank, the all-reduced
  `GradNorm`, `Optimize` on each rank; microbatches are in `IVONWorker`.
* An exception of a rank or of the driver ends the job; it is a `Crash`. The
  `finally` blocks that run on the way out change nothing that survives.
* The dataloader is a count of batches and the epochs are assumed not to be
  exhausted before `total_training_steps`; splitting into epochs is external.
* `val_only` is a prefix of the modelled evaluation. `resume_path`, HDFS,
  `async_save`, `del_local_ckpt_after_load` and `checkpoint_io_gate` are not
  modelled; neither are the critic, the reference policy and the reward model.
* `auto_lm/run.py` starts its second stage with `resume_path` at a checkpoint of
  the first; only the mode `auto` is modelled. `find_latest_ckpt_path` is called
  before the mode is looked at, so a torn tracker stops either mode.
* RRM: the GRAM objective, the AdamW path, the optimizer of the sparse
  embeddings, the averaged copy of the weights, warm starts, presets and all
  formulas are left out. The visit count of a group is the length of its
  sequence of observations. The cache of weights, which only a checkpoint in a
  legacy format fills, is left out. On one rank the closure
  updates the tracker inside the loss instead of after a gather, which is the
  same step. An exception in one rank ends the run (`torchrun` stops all
  processes) and is a `Crash`. `RRMTraining` takes a batch to be a function of
  its number, which is what `PuzzleStream` establishes.
* The command line pins `max_updates` of `run_training` to the preset, so the runs
  of the TLC instances grow; `RanksAlwaysAgree` is proved for any sequence of runs.
* The buffered mode of IVON (`train_mc_samples > 1`) and its `sync` are not
  used by the trainer and not modelled.
* `FullyAsync`: validation (see `Serving`), profiling, saves forced by an expiring
  instance and metrics are left out. A push of the weights, and a save, is one
  step of the trainer. Every sample of the data set is one `RolloutSample`.
* `WeightTransfer`: `collective.broadcast` is complete when it returns, a handle of
  `reduce_tensor` orders its reader behind the copies into the tensor (both are
  promises of the libraries); names of weights are unique, no weight is empty
  (a weight of no bytes would yield no chunk at all and not be sent,
  `checkpoint_engine/base.py:532`); one transfer, since `prepare` allocates new
  buffers for the next one. Shared memory and the other engines are not modelled.
* `Serving`: vLLM 0.12 or later, where `abort_all_requests` pauses the engine (an
  earlier engine is not paused, and the property `OneVersion` is not claimed for
  it); `free_cache_engine` is on; a request is one turn; caches of keys and
  prefixes, LoRA and the expiry of sticky entries are left out. The set of
  hybrid servers is fixed. An engine that is asleep does nothing with a request.
  A validation starts its requests afresh once the releases of its previous ones
  have arrived.
* Without `partial_rollout` an aborted request that has produced nothing returns
  without a version; `VersionsBracket` speaks of requests that have tokens.
* All ranks see one file system, and `os.replace` is atomic.

## 7. Plan

Modelled, in this order, because each builds on the one before or matters less:
the optimizer contract, the training loop, the checkpoint store; the recursive
reasoning training; the fully asynchronous trainer, its weight transfer and its
servers. Then the theorems of section 4: safety of every module, and the
refinements of `FBTransaction` and `RRMReference`. Of the properties that runs
check, only liveness is left without a theorem.

Not modelled, and why:

* Objectives, estimators, models, other optimizers, kernels, Megatron and the
  evaluation scripts: numerical or offline code without a protocol; nothing in
  it interleaves, persists or fails in part.
* The launcher: it builds one configuration and validates it; the modules assume
  what it guarantees.
* One-step-off, agent loop and reward loop: services of the training loop that
  keep no state over a step; one-step-off is the fully asynchronous trainer with
  one batch ahead and no queue.
* `resume_path`: `CheckpointStore` starts from the tracked checkpoint. A job resumed
  from an older one overwrites the files of the tracked one in place, which is
  listed as a hazard.
* The buffered mode of IVON (`train_mc_samples > 1`), which nothing here configures.
