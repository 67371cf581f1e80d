----------------------------- MODULE FBTrainer -----------------------------
(***************************************************************************)
(* The Fenchel-Bregman training loop: RayPPOTrainer.fit of                 *)
(* recipe/mmpo/mmpo_ray_trainer.py with the driver-owned FBI state         *)
(* (auto_lm/fbi.py), one IVON optimizer per rank, the rollout replicas and *)
(* the checkpoints on disk.  The driver is one process; a remote call runs *)
(* on the ranks in any order and the driver waits for all of them.         *)
(*                                                                         *)
(* The job may crash at any point (an exception of a rank or of the driver *)
(* also ends it) and is restarted in resume_mode "auto".  Checkpoints are  *)
(* one record per step here; their files, their retention and the ranks'   *)
(* shards are the subject of CheckpointStore.                              *)
(***************************************************************************)
EXTENDS IVON, FiniteSets

CONSTANTS
  Ranks,       \* actor ranks 0 .. world_size - 1
  TotalSteps,  \* total_training_steps
  SaveFreq,    \* trainer.save_freq
  EvalSeed,    \* algorithm.fb.eval_posterior_seed, or NoSeed
  TrainSeed,   \* ivon_noise_seed
  Jobs,        \* configurations a job may run with, see Frozen
  NoFile,      \* a file that does not exist
  MaxCrashes   \* bound: crashes of the job

(* A restart from the final checkpoint trains one more step, see Begin.    *)
MaxStep == TotalSteps + MaxCrashes

(* What StateDict and FBI.state_dict put into a file.                      *)
SavedActor == [mean: Nat, residue: SUBSET SignedNoise, hess: Nat, count: Nat,
               meta: [current: Nat, generator: GenState]]
SavedFailures == [commits: Nat, counter: Nat]

ASSUME TrainerConstants ==
  /\ Ranks \subseteq Nat /\ Ranks # {} /\ IsFiniteSet(Ranks)
  /\ TotalSteps \in Nat \ {0}
  /\ SaveFreq \in Nat \ {0}
  /\ EvalSeed \in Nat \union {NoSeed}
  /\ TrainSeed \in Nat
  /\ Jobs \subseteq [frozen: BOOLEAN, elastic: BOOLEAN, draws: Nat]
  /\ MaxCrashes \in Nat
  /\ NoSeed \notin Nat /\ NoGen \notin GenState
  /\ NoFile \notin SavedActor /\ NoFile \notin SavedFailures /\ NoFile \notin Nat

VARIABLES
  pc,         \* where the driver stands
  step,       \* global_steps
  todo,       \* ranks that have not finished the current remote call
  opt,        \* the optimizer of each rank
  grad,       \* p.grad of each rank, as in IVONWorker
  finite,     \* the all-reduced gradient norm of this step is finite
  fbi,        \* the driver's FBI object
  data,       \* batches taken from the dataloader
  draw,       \* candidate_index of the posterior evaluation
  replicas,   \* the rollout replicas: awake, and the weights they hold
  made,       \* the weights the current batch was generated with
  tracker,    \* latest_checkpointed_iteration.txt
  disk,       \* the checkpoint of each step
  crashes,
  job         \* the configuration of this job

vars == <<pc, step, todo, opt, grad, finite, fbi, data, draw, replicas, made,
          tracker, disk, crashes, job>>

Frozen == job.frozen      \* algorithm.fb.freeze_failure_updates
EvalDraws == job.draws    \* algorithm.fb.eval_posterior_draws
Elastic == job.elastic    \* the instance may expire (should_save_ckpt_esi)

volatile == <<todo, opt, grad, finite, fbi, data, draw, replicas, made>>

-----------------------------------------------------------------------------
(* The parameters as a reader of the weights sees them.                    *)
Contents(o) == [mean |-> o.mean, residue |-> o.residue]

Weights == [r \in Ranks |-> Contents(opt[r])]

(* next_perturbation_id and the name of an evaluation draw.                *)
PerturbationId == <<"fb", step, fbi.counter>>
EvalId == <<"fb-eval", step, draw>>

PerturbationIds ==
  ({"fb"} \X (0 .. MaxStep) \X (0 .. MaxStep + 1))
    \union ({"fb-eval"} \X (0 .. MaxStep) \X (0 .. EvalDraws))

(* sample_ivon_parameters reseeds with noise_seed + rank.                  *)
EvalSeedOf(r) == IF EvalSeed = NoSeed THEN NoSeed ELSE EvalSeed + 1000 * draw + r

NewFBI == [commits |-> 0, pending |-> FALSE, counter |-> 0]

EmptyCheckpoint ==
  [actor |-> [r \in Ranks |-> NoFile], fb |-> NoFile, data |-> NoFile]

CompleteCheckpoint(c) ==
  /\ \A r \in Ranks : c.actor[r] # NoFile
  /\ c.fb # NoFile
  /\ c.data # NoFile

(* A process that has just started.                                        *)
NewOptimizers == [r \in Ranks |-> NewOptimizer(TrainSeed + r)]
NewWeights == [r \in Ranks |-> Contents(NewOptimizers[r])]
NewReplicas == [awake |-> FALSE, weights |-> NewWeights]

Init ==
  /\ pc = "load"
  /\ step = 0
  /\ todo = {}
  /\ opt = NewOptimizers
  /\ grad = [r \in Ranks |-> {}]
  /\ finite = TRUE
  /\ fbi = NewFBI
  /\ data = 0
  /\ draw = 0
  /\ replicas = NewReplicas
  /\ made = NewWeights
  /\ tracker = [step |-> 0, whole |-> TRUE]   \* step 0: no tracker file yet
  /\ disk = [s \in 1 .. MaxStep |-> EmptyCheckpoint]
  /\ crashes = 0
  /\ job \in Jobs

-----------------------------------------------------------------------------
(* checkpoint_manager.update_weights and sleep_replicas.                   *)
Awake == [awake |-> TRUE, weights |-> Weights]
Asleep == [replicas EXCEPT !.awake = FALSE]

(* One rank finishes the remote call of phase "from"; the driver moves on  *)
(* when all have.                                                          *)
RankDone(r, from, to) ==
  /\ pc = from
  /\ r \in todo
  /\ todo' = todo \ {r}
  /\ pc' = IF todo = {r} THEN to ELSE pc

(* The driver issues a remote call to every rank.                          *)
Call(phase) ==
  /\ pc' = phase
  /\ todo' = Ranks

-----------------------------------------------------------------------------
(* _load_checkpoint in mode "auto", then the initial update_weights.       *)
LoadFromScratch ==
  /\ pc = "load"
  /\ tracker.whole
  /\ tracker.step = 0
  /\ pc' = "first_sync"
  /\ UNCHANGED <<step, volatile, tracker, disk, crashes, job>>

(* Mutant: the failure state is not loaded.                                *)
LoadCheckpoint_NoFailureState ==
  LET saved == disk[tracker.step]
  IN  /\ pc = "load"
      /\ tracker.whole
      /\ tracker.step # 0
      /\ CompleteCheckpoint(saved)
      /\ step' = tracker.step
      /\ opt' = [r \in Ranks |-> LoadStateDict(opt[r], saved.actor[r])]
      /\ data' = saved.data
      /\ fbi' = [fbi EXCEPT !.counter = saved.fb.counter]
      /\ pc' = "first_sync"
      /\ UNCHANGED <<todo, grad, finite, draw, replicas, made, tracker, disk,
                     crashes, job>>

LoadCheckpoint ==
  LET saved == disk[tracker.step]
  IN  /\ pc = "load"
      /\ tracker.whole
      /\ tracker.step # 0
      /\ CompleteCheckpoint(saved)
      /\ step' = tracker.step
      /\ opt' = [r \in Ranks |-> LoadStateDict(opt[r], saved.actor[r])]
      /\ data' = saved.data
      /\ fbi' = [fbi EXCEPT !.commits = saved.fb.commits,
                            !.counter = saved.fb.counter]
      /\ pc' = "first_sync"
      /\ UNCHANGED <<todo, grad, finite, draw, replicas, made, tracker, disk,
                     crashes, job>>

(* An empty tracker file is not a number: the job ends with an exception.  *)
LoadFails ==
  /\ pc = "load"
  /\ ~tracker.whole
  /\ pc' = "failed"
  /\ UNCHANGED <<step, volatile, tracker, disk, crashes, job>>

(* With posterior draws the fit continues in _validate_fb_posterior_draws, *)
(* otherwise (val_before_train=False) with the first step.                 *)
FirstSync ==
  /\ pc = "first_sync"
  /\ replicas' = Awake
  /\ IF EvalDraws = 0
       THEN /\ pc' = "begin"
            /\ step' = step + 1
            /\ UNCHANGED todo
       ELSE /\ Call("eval_sample")
            /\ UNCHANGED step
  /\ UNCHANGED <<opt, grad, finite, fbi, data, draw, made, tracker, disk,
                 crashes, job>>

-----------------------------------------------------------------------------
(* _validate_fb_posterior_draws: each draw is sampled on the ranks, pushed *)
(* to the replicas, evaluated and taken out again.                         *)
EvalSample(r) ==
  /\ RankDone(r, "eval_sample", "eval_sleep")
  /\ SampleAccepted(opt[r], EvalId, EvalSeedOf(r))
  /\ opt' = [opt EXCEPT ![r] =
               SampleIvonParameters(@, EvalId, EvalSeedOf(r))]
  /\ UNCHANGED <<step, grad, finite, fbi, data, draw, replicas, made, tracker,
                 disk, crashes, job>>

EvalSleep ==
  /\ pc = "eval_sleep"
  /\ replicas' = Asleep
  /\ pc' = "eval_push"
  /\ UNCHANGED <<step, todo, opt, grad, finite, fbi, data, draw, made, tracker,
                 disk, crashes, job>>

EvalPush ==
  /\ pc = "eval_push"
  /\ replicas' = Awake
  /\ pc' = "eval_generate"
  /\ UNCHANGED <<step, todo, opt, grad, finite, fbi, data, draw, made, tracker,
                 disk, crashes, job>>

EvalGenerate ==
  /\ pc = "eval_generate"
  /\ replicas' = Asleep
  /\ Call("eval_restore")
  /\ UNCHANGED <<step, opt, grad, finite, fbi, data, draw, made, tracker, disk,
                 crashes, job>>

EvalRestore(r) ==
  /\ RankDone(r, "eval_restore", "eval_next")
  /\ ActivePerturbation(opt[r], EvalId)
  /\ opt' = [opt EXCEPT ![r] = RestoreIvonParameterMean(@, FALSE)]
  /\ UNCHANGED <<step, grad, finite, fbi, data, draw, replicas, made, tracker,
                 disk, crashes, job>>

(* Mutant: one draw too many.                                              *)
EvalNext_OffByOne ==
  /\ pc = "eval_next"
  /\ draw < EvalDraws
  /\ draw' = draw + 1
  /\ Call("eval_sample")
  /\ UNCHANGED <<step, opt, grad, finite, fbi, data, replicas, made, tracker,
                 disk, crashes, job>>

EvalNext ==
  /\ pc = "eval_next"
  /\ draw + 1 < EvalDraws
  /\ draw' = draw + 1
  /\ Call("eval_sample")
  /\ UNCHANGED <<step, opt, grad, finite, fbi, data, replicas, made, tracker,
                 disk, crashes, job>>

EvalDone ==
  /\ pc = "eval_next"
  /\ draw + 1 = EvalDraws
  /\ replicas' = Awake
  /\ step' = step + 1
  /\ pc' = "begin"
  /\ UNCHANGED <<todo, opt, grad, finite, fbi, data, draw, made, tracker, disk,
                 crashes, job>>

-----------------------------------------------------------------------------
(* A training step: take a batch, name the perturbation, sample it on every*)
(* rank.  Nothing compares step with TotalSteps before the step is run.    *)
Begin ==
  /\ pc = "begin"
  /\ data' = data + 1
  /\ fbi' = [fbi EXCEPT !.counter = @ + 1]
  /\ Call("sample")
  /\ UNCHANGED <<step, opt, grad, finite, draw, replicas, made, tracker, disk,
                 crashes, job>>

Sample(r) ==
  /\ RankDone(r, "sample", "sleep")
  /\ SampleAccepted(opt[r], PerturbationId, NoSeed)
  /\ opt' = [opt EXCEPT ![r] = SampleIvonParameters(@, PerturbationId, NoSeed)]
  /\ UNCHANGED <<step, grad, finite, fbi, data, draw, replicas, made, tracker,
                 disk, crashes, job>>

SleepReplicas ==
  /\ pc = "sleep"
  /\ replicas' = Asleep
  /\ pc' = "push"
  /\ UNCHANGED <<step, todo, opt, grad, finite, fbi, data, draw, made, tracker,
                 disk, crashes, job>>

(* Mutant: the replicas are woken without the new weights.                 *)
Push_NoUpdate ==
  /\ pc = "push"
  /\ replicas' = [replicas EXCEPT !.awake = TRUE]
  /\ pc' = "generate"
  /\ UNCHANGED <<step, todo, opt, grad, finite, fbi, data, draw, made, tracker,
                 disk, crashes, job>>

(* update_weights: from here the replicas serve the perturbed model.       *)
Push ==
  /\ pc = "push"
  /\ replicas' = Awake
  /\ pc' = "generate"
  /\ UNCHANGED <<step, todo, opt, grad, finite, fbi, data, draw, made, tracker,
                 disk, crashes, job>>

Generate ==
  /\ pc = "generate"
  /\ made' = replicas.weights
  /\ replicas' = Asleep
  /\ pc' = "advantage"
  /\ UNCHANGED <<step, todo, opt, grad, finite, fbi, data, draw, tracker, disk,
                 crashes, job>>

(* FBI.compute_advantages: refuses while an update is pending.             *)
ComputeAdvantages ==
  /\ pc = "advantage"
  /\ ~fbi.pending
  /\ fbi' = [fbi EXCEPT !.pending = TRUE]
  /\ Call("backward")
  /\ UNCHANGED <<step, opt, grad, finite, data, draw, replicas, made, tracker,
                 disk, crashes, job>>

(* train_batch on a rank up to the gradient norm.                          *)
Backward(r) ==
  /\ RankDone(r, "backward", "norm")
  /\ ActivePerturbation(opt[r], PerturbationId)
  /\ grad' = [grad EXCEPT ![r] = {opt[r].residue}]
  /\ opt' = [opt EXCEPT ![r] = RestoreIvonParameterMean(@, TRUE)]
  /\ UNCHANGED <<step, finite, fbi, data, draw, replicas, made, tracker, disk,
                 crashes, job>>

(* clip_grad_norm_ all-reduces the norm: every rank sees the same value.   *)
GradNorm ==
  /\ pc = "norm"
  /\ finite' \in BOOLEAN
  /\ Call("optimize")
  /\ UNCHANGED <<step, opt, grad, fbi, data, draw, replicas, made, tracker,
                 disk, crashes, job>>

(* Mutant: each rank judges its own gradient shard.                        *)
Optimize_LocalNorm(r) ==
  /\ RankDone(r, "optimize", "commit")
  /\ \E ok \in {finite, TRUE} :
       /\ opt' = IF ok THEN [opt EXCEPT ![r] = Step(@)] ELSE opt
       /\ grad' = IF ok THEN grad ELSE [grad EXCEPT ![r] = {}]
  /\ UNCHANGED <<step, finite, fbi, data, draw, replicas, made, tracker, disk,
                 crashes, job>>

Optimize(r) ==
  /\ RankDone(r, "optimize", "commit")
  /\ opt' = IF finite THEN [opt EXCEPT ![r] = Step(@)] ELSE opt
  /\ grad' = IF finite THEN grad ELSE [grad EXCEPT ![r] = {}]
  /\ UNCHANGED <<step, finite, fbi, data, draw, replicas, made, tracker, disk,
                 crashes, job>>

(* The failure update is committed with the model update.                  *)
Learns == finite /\ ~Frozen

(* is_last_step, save_freq and an expiring instance decide on a save.      *)
NextPhase ==
  \/ /\ step >= TotalSteps \/ step % SaveFreq = 0 \/ Elastic
     /\ Call("save_actor")
  \/ /\ step < TotalSteps /\ step % SaveFreq # 0
     /\ pc' = "sync"
     /\ UNCHANGED todo

(* Mutant: the update stays pending.                                       *)
Commit_KeepPending ==
  /\ pc = "commit"
  /\ fbi.pending
  /\ fbi' = [fbi EXCEPT !.commits = IF Learns THEN @ + 1 ELSE @]
  /\ NextPhase
  /\ UNCHANGED <<step, opt, grad, finite, data, draw, replicas, made, tracker,
                 disk, crashes, job>>

(* _commit_fb_update and FBI.commit: the ranks agree, so the averaged      *)
(* metric is 0 or 1.                                                       *)
Commit ==
  /\ pc = "commit"
  /\ fbi.pending
  /\ fbi' = [fbi EXCEPT !.pending = FALSE,
                        !.commits = IF Learns THEN @ + 1 ELSE @]
  /\ NextPhase
  /\ UNCHANGED <<step, opt, grad, finite, data, draw, replicas, made, tracker,
                 disk, crashes, job>>

-----------------------------------------------------------------------------
(* _save_checkpoint, in the order of its writes.                           *)
SaveActor(r) ==
  /\ RankDone(r, "save_actor", "save_fb")
  /\ disk' = [disk EXCEPT ![step].actor[r] = StateDict(opt[r])]
  /\ UNCHANGED <<step, opt, grad, finite, fbi, data, draw, replicas, made,
                 tracker, crashes, job>>

(* FBI.state_dict refuses to be saved while an update is pending.          *)
SaveFailureState ==
  /\ pc = "save_fb"
  /\ ~fbi.pending
  /\ disk' = [disk EXCEPT ![step].fb =
                [commits |-> fbi.commits, counter |-> fbi.counter]]
  /\ pc' = "save_data"
  /\ UNCHANGED <<step, volatile, tracker, crashes, job>>

SaveData ==
  /\ pc = "save_data"
  /\ disk' = [disk EXCEPT ![step].data = data]
  /\ pc' = "open_tracker"
  /\ UNCHANGED <<step, volatile, tracker, crashes, job>>

(* open("w") empties the tracker, the write fills it.                      *)
OpenTracker ==
  /\ pc = "open_tracker"
  /\ tracker' = [tracker EXCEPT !.whole = FALSE]
  /\ pc' = "write_tracker"
  /\ UNCHANGED <<step, volatile, disk, crashes, job>>

WriteTracker ==
  /\ pc = "write_tracker"
  /\ tracker' = [step |-> step, whole |-> TRUE]
  /\ pc' = "sync"
  /\ UNCHANGED <<step, volatile, disk, crashes, job>>

(* Mutant: the replicas are woken with the weights they had.               *)
Sync_NoUpdate ==
  /\ pc = "sync"
  /\ replicas' = [replicas EXCEPT !.awake = TRUE]
  /\ pc' = "validate"
  /\ UNCHANGED <<step, todo, opt, grad, finite, fbi, data, draw, made, tracker,
                 disk, crashes, job>>

(* update_weights brings the mean to the replicas.                         *)
Sync ==
  /\ pc = "sync"
  /\ replicas' = Awake
  /\ pc' = "validate"
  /\ UNCHANGED <<step, todo, opt, grad, finite, fbi, data, draw, made, tracker,
                 disk, crashes, job>>

(* Mutant: the last step is not recognised.                                *)
Validate_NeverLast ==
  /\ pc = "validate"
  /\ step' = step + 1
  /\ pc' = "begin"
  /\ UNCHANGED <<volatile, tracker, disk, crashes, job>>

(* Validation (test_freq) generates and changes nothing; then the next step*)
(* or, after the last one, the end.                                        *)
Validate ==
  /\ pc = "validate"
  /\ step' = step + 1
  /\ pc' = IF step >= TotalSteps THEN "done" ELSE "begin"
  /\ UNCHANGED <<volatile, tracker, disk, crashes, job>>

-----------------------------------------------------------------------------
(* The job dies and is started again: only the disk survives.              *)
Crash ==
  /\ pc \notin {"load", "done", "failed"}
  /\ crashes < MaxCrashes
  /\ crashes' = crashes + 1
  /\ pc' = "load"
  /\ step' = 0
  /\ todo' = {}
  /\ opt' = NewOptimizers
  /\ grad' = [r \in Ranks |-> {}]
  /\ finite' = TRUE
  /\ fbi' = NewFBI
  /\ data' = 0
  /\ draw' = 0
  /\ replicas' = NewReplicas
  /\ made' = NewWeights
  /\ UNCHANGED <<tracker, disk, job>>

RankStep(r) ==
  \/ EvalSample(r) \/ EvalRestore(r)
  \/ Sample(r) \/ Backward(r) \/ Optimize(r) \/ SaveActor(r)

DriverStep ==
  \/ LoadFromScratch \/ LoadCheckpoint \/ LoadFails \/ FirstSync
  \/ EvalSleep \/ EvalPush \/ EvalGenerate \/ EvalNext \/ EvalDone
  \/ Begin \/ SleepReplicas \/ Push \/ Generate \/ ComputeAdvantages \/ GradNorm \/ Commit
  \/ SaveFailureState \/ SaveData \/ OpenTracker \/ WriteTracker
  \/ Sync \/ Validate

Next == DriverStep \/ (\E r \in Ranks : RankStep(r)) \/ Crash

Spec == Init /\ [][Next]_vars

(* The driver and the ranks keep executing; a crash is never forced.       *)
FairSpec ==
  /\ Spec
  /\ WF_vars(DriverStep)
  /\ \A r \in Ranks : WF_vars(RankStep(r))

-----------------------------------------------------------------------------
EvalPhases == {"eval_sample", "eval_sleep", "eval_push", "eval_generate",
               "eval_restore", "eval_next"}

StepPhases == {"begin", "sample", "sleep", "push", "generate", "advantage",
               "backward", "norm", "optimize", "commit", "save_actor",
               "save_fb", "save_data", "open_tracker", "write_tracker", "sync",
               "validate"}

Checkpoint ==
  [ actor : [Ranks -> SavedActor \union {NoFile}],
    fb    : SavedFailures \union {NoFile},
    data  : Nat \union {NoFile} ]

RankWeights == [Ranks -> [mean: Nat, residue: SUBSET SignedNoise]]

TypeOK ==
  /\ pc \in {"load", "first_sync", "done", "failed"} \union EvalPhases
              \union StepPhases
  /\ step \in 0 .. MaxStep + 1
  /\ todo \subseteq Ranks
  /\ opt \in [Ranks -> Optimizer(PerturbationIds)]
  /\ grad \in [Ranks -> SUBSET SUBSET SignedNoise]
  /\ finite \in BOOLEAN
  /\ fbi \in [commits: Nat, pending: BOOLEAN, counter: Nat]
  /\ data \in Nat
  /\ draw \in 0 .. EvalDraws
  /\ replicas \in [awake: BOOLEAN, weights: RankWeights]
  /\ made \in RankWeights
  /\ tracker \in [step: 0 .. MaxStep, whole: BOOLEAN]
  /\ disk \in [1 .. MaxStep -> Checkpoint]
  /\ crashes \in 0 .. MaxCrashes
  /\ job \in Jobs

(* Every refusal of the contract is unreachable from the training loop:    *)
(* whatever crashed or was skipped before, a rank is never asked to sample *)
(* or restore an identity its optimizer refuses, FBI never finds an update *)
(* pending or missing (fbi.py:273, 319, 325), a step never finds a sample  *)
(* count other than one, and a tracked checkpoint always has its files.    *)
ContractNeverRefuses ==
  /\ pc = "load" /\ tracker.whole /\ tracker.step # 0 =>
       CompleteCheckpoint(disk[tracker.step])
  /\ pc = "advantage" => ~fbi.pending
  /\ pc = "commit" => fbi.pending
  /\ pc = "save_fb" => ~fbi.pending
  /\ \A r \in todo :
       /\ pc = "eval_sample" => SampleAccepted(opt[r], EvalId, EvalSeedOf(r))
       /\ pc = "eval_restore" => ActivePerturbation(opt[r], EvalId)
       /\ pc = "sample" => SampleAccepted(opt[r], PerturbationId, NoSeed)
       /\ pc = "backward" => ActivePerturbation(opt[r], PerturbationId)
       /\ pc = "optimize" /\ finite => ~StepRefused(opt[r])

(* The gradient of every rank is taken at the very parameters the batch was*)
(* generated with, and at them only (fit, _update_actor, train_batch).     *)
OnPolicyDraw ==
  /\ \A r \in Ranks :
       pc = "advantage" \/ (pc = "backward" /\ r \in todo) =>
         Contents(opt[r]) = made[r]
  /\ \A r \in Ranks :
       pc = "norm" \/ (pc = "optimize" /\ r \in todo) =>
         grad[r] = {made[r].residue} /\ opt[r].mean = made[r].mean

(* Evaluation draws take nothing out of the training stream: they have a   *)
(* seed of their own, or there are none.                                   *)
StreamUntouched == EvalSeed # NoSeed \/ EvalDraws = 0

(* The tracked checkpoint is one consistent cut of the whole job: every    *)
(* rank saved its unperturbed mean of the same version, the failure state  *)
(* that goes with it, and streams of names, data and (StreamUntouched)     *)
(* noise that stand exactly at the tracked step (_save_checkpoint).        *)
CheckpointCoherent ==
  tracker.step # 0 =>
    LET saved == disk[tracker.step]
    IN  /\ CompleteCheckpoint(saved)
        /\ saved.data = tracker.step
        /\ saved.fb.counter = tracker.step
        /\ \A r \in Ranks :
             /\ saved.actor[r].residue = {}
             /\ saved.actor[r].mean
                  = saved.actor[CHOOSE q \in Ranks : TRUE].mean
             /\ ~Frozen => saved.actor[r].mean = saved.fb.commits
             /\ StreamUntouched => saved.actor[r].meta.generator
                  = [seed |-> TrainSeed + r, pos |-> tracker.step]

(* The noise, the name and the batch of a training step depend on the step *)
(* number and the rank only: not on crashes and resumes, on skipped steps  *)
(* or on how many seeded evaluation draws were made in between.            *)
DrawIsFunctionOfStep ==
  StreamUntouched /\ pc \in {"sleep", "push", "generate", "advantage"} =>
    /\ data = step
    /\ fbi.counter = step
    /\ \A r \in Ranks :
         opt[r].genState = [seed |-> TrainSeed + r, pos |-> step - 1]

(* The replicas never generate with stale or half-updated weights: awake,  *)
(* they hold what every rank's parameters hold now, perturbed or not.      *)
GenerateSeesCurrent ==
  pc \in {"generate", "eval_generate", "validate"} =>
    replicas = [awake |-> TRUE, weights |-> Weights]

(* The loop reaches its last step whatever is skipped and however often it *)
(* crashes, unless a crash has torn the tracker file.                      *)
FitEnds == <>(pc = "done" \/ (pc = "failed" /\ ~tracker.whole))

(* "Total training steps" is what the driver prints and what the progress  *)
(* bar counts to; a step beyond it is never trained.                       *)
NeverBeyondTotal == pc \in {"sample", "backward", "optimize"} => step <= TotalSteps

-----------------------------------------------------------------------------
(* The abstract transaction.  A step counts as completed with its commit;  *)
(* while the ranks are stepping one after the other the model is the one   *)
(* the batch was generated with; a job that has not loaded yet stands where*)
(* the durable state is (a torn tracker hides that state, it is not gone). *)
AnyRank == CHOOSE r \in Ranks : TRUE

Durable ==
  IF tracker.step = 0
    THEN [steps |-> 0, model |-> 0, failures |-> 0]
    ELSE [ steps    |-> tracker.step,
           model    |-> disk[tracker.step].actor[AnyRank].mean,
           failures |-> disk[tracker.step].fb.commits ]

StepsCompleted ==
  IF pc \in {"begin", "sample", "sleep", "push", "generate", "advantage",
             "backward", "norm", "optimize", "commit", "done"}
    THEN step - 1
    ELSE step

NotLoaded == pc \in {"load", "failed"}

TransactionSteps == IF NotLoaded THEN Durable.steps ELSE StepsCompleted

TransactionModel ==
  IF NotLoaded THEN Durable.model
  ELSE IF pc \in {"optimize", "commit"} THEN made[AnyRank].mean
  ELSE opt[AnyRank].mean

TransactionFailures == IF NotLoaded THEN Durable.failures ELSE fbi.commits

Transaction == INSTANCE FBTransaction WITH
  frozen   <- Frozen,
  steps    <- TransactionSteps,
  model    <- TransactionModel,
  failures <- TransactionFailures,
  durable  <- Durable

(* The training loop on all its ranks, with its crashes and its many-file  *)
(* saves, implements the transaction: a step updates model and failure     *)
(* state together or not at all, and a crash rolls both back together.     *)
ImplementsTransaction == Transaction!TSpec
=============================================================================
