----------------------------- MODULE IVONWorker -----------------------------
(***************************************************************************)
(* One rank's actor worker, seen from the remote calls it serves           *)
(* (verl/workers/engine_workers.py, engine/base.py, fsdp/                  *)
(* transformer_impl.py): sample_parameters, restore_parameter_mean and     *)
(* train_batch, in every order and with every identity the driver could    *)
(* use, each refused or served.  The worker executes one call at a time,   *)
(* so a call is interleaved with nothing, but a backward pass may raise    *)
(* after any number of microbatches and a gradient may be non-finite.      *)
(*                                                                         *)
(* The driver gives evaluation draws names of their own ("fb-eval-...") and*)
(* only they are ever seeded; train_batch only carries training names.     *)
(* Checkpoints are saved and loaded by the driver between updates only and *)
(* are therefore modelled in FBTrainer, where that order is checked.       *)
(***************************************************************************)
EXTENDS IVON, FiniteSets

CONSTANTS
  TrainIds,      \* names of training perturbations, "fb-<step>-<counter>"
  EvalIds,       \* names of evaluation perturbations, "fb-eval-<step>-<draw>"
  TrainSeed,     \* ivon_noise_seed + rank
  EvalSeeds,     \* the seeds of evaluation draws on this rank
  Microbatches,  \* microbatches of one train_batch
  MaxDraws       \* bound: noise passes drawn from any one generator

Ids == TrainIds \union EvalIds

ASSUME WorkerConstants ==
  /\ TrainSeed \in Nat
  /\ EvalSeeds \subseteq Nat
  /\ Microbatches \in Nat \ {0}
  /\ MaxDraws \in Nat
  /\ NoSeed \notin Nat
  /\ TrainIds \intersect EvalIds = {}
  /\ NoId \notin Ids
  /\ NoGen \notin GenState

VARIABLES
  opt,      \* the optimizer and its parameters
  grad,     \* p.grad: the parameter contents its backward passes ran under
  pc,       \* "idle", or where train_batch stands
  call,     \* the perturbation ID of the train_batch being served
  left,     \* microbatches of it still to run
  outcome,  \* how the last call ended
  used      \* history: generator states whose draws were used by an update

vars == <<opt, grad, pc, call, left, outcome, used>>

Outcomes == {"served", "refused", "raised", "skipped"}

TypeOK ==
  /\ opt \in Optimizer(Ids)
  /\ grad \subseteq SUBSET SignedNoise
  /\ pc \in {"idle", "backward", "step"}
  /\ call \in TrainIds \union {NoId}
  /\ left \in 0 .. Microbatches
  /\ outcome \in Outcomes
  /\ used \subseteq GenState

Init ==
  /\ opt = NewOptimizer(TrainSeed)
  /\ grad = {}
  /\ pc = "idle"
  /\ call = NoId
  /\ left = 0
  /\ outcome = "served"
  /\ used = {}

-----------------------------------------------------------------------------
(* A call that raises before it changes anything.                          *)
Refuse ==
  /\ outcome' = "refused"
  /\ UNCHANGED <<opt, grad, pc, call, left, used>>

SampleRequests == (Ids \X {NoSeed}) \union (EvalIds \X EvalSeeds)

SampleParameters(id, seed) ==
  /\ pc = "idle"
  /\ SampleAccepted(opt, id, seed)
  /\ opt.generator.pos < MaxDraws
  /\ opt' = SampleIvonParameters(opt, id, seed)
  /\ outcome' = "served"
  /\ UNCHANGED <<grad, pc, call, left, used>>

RefuseSample(id, seed) ==
  /\ pc = "idle"
  /\ ~SampleAccepted(opt, id, seed)
  /\ Refuse

(* The restore_parameter_mean call of the driver always has train=False.   *)
RestoreParameterMean(id) ==
  /\ pc = "idle"
  /\ ActivePerturbation(opt, id)
  /\ opt' = RestoreIvonParameterMean(opt, FALSE)
  /\ outcome' = "served"
  /\ UNCHANGED <<grad, pc, call, left, used>>

RefuseRestore(id) ==
  /\ pc = "idle"
  /\ ~ActivePerturbation(opt, id)
  /\ Refuse

-----------------------------------------------------------------------------
(* Mutant: the gradient of an aborted batch is not cleared.                *)
TrainBatch_NoZeroGrad(id) ==
  /\ pc = "idle"
  /\ ActivePerturbation(opt, id)
  /\ pc' = "backward"
  /\ call' = id
  /\ left' = Microbatches
  /\ UNCHANGED <<opt, grad, outcome, used>>

(* train_batch: zero_grad, then the microbatch loop.                       *)
TrainBatch(id) ==
  /\ pc = "idle"
  /\ ActivePerturbation(opt, id)
  /\ grad' = {}
  /\ pc' = "backward"
  /\ call' = id
  /\ left' = Microbatches
  /\ UNCHANGED <<opt, outcome, used>>

(* The first microbatch finds no matching perturbation: the assertion      *)
(* raises, and so does the restore that the handler attempts.              *)
RefuseTrainBatch(id) ==
  /\ pc = "idle"
  /\ ~ActivePerturbation(opt, id)
  /\ grad' = {}
  /\ outcome' = "refused"
  /\ UNCHANGED <<opt, pc, call, left, used>>

(* Mutant: one microbatch too many.                                        *)
Microbatch_OffByOne ==
  /\ pc = "backward"
  /\ left >= 0
  /\ ActivePerturbation(opt, call)
  /\ grad' = grad \union {opt.residue}
  /\ left' = left - 1
  /\ UNCHANGED <<opt, pc, call, outcome, used>>

Microbatch ==
  /\ pc = "backward"
  /\ left > 0
  /\ ActivePerturbation(opt, call)
  /\ grad' = grad \union {opt.residue}
  /\ left' = left - 1
  /\ UNCHANGED <<opt, pc, call, outcome, used>>

(* The microbatch loop or its postprocessing raises: the handler restores  *)
(* the mean and re-raises.                                                 *)
BackwardRaises ==
  /\ pc = "backward"
  /\ opt' = RestoreIvonParameterMean(opt, FALSE)
  /\ pc' = "idle"
  /\ call' = NoId
  /\ left' = 0
  /\ outcome' = "raised"
  /\ UNCHANGED <<grad, used>>

RestoreForStep ==
  /\ pc = "backward"
  /\ left = 0
  /\ opt' = RestoreIvonParameterMean(opt, TRUE)
  /\ pc' = "step"
  /\ UNCHANGED <<grad, call, left, outcome, used>>

(* optimizer_step with a finite gradient norm.                             *)
OptimizerStep ==
  /\ pc = "step"
  /\ opt' = Step(opt)
  /\ used' = IF StepRefused(opt) THEN used
             ELSE used \union {opt.genState}
  /\ pc' = "idle"
  /\ call' = NoId
  /\ outcome' = IF StepRefused(opt) THEN "raised" ELSE "served"
  /\ UNCHANGED <<grad, left>>

(* A non-finite gradient norm: the gradient is zeroed, no step is taken,   *)
(* and the collected sample stays counted.                                 *)
SkipStep ==
  /\ pc = "step"
  /\ grad' = {}
  /\ pc' = "idle"
  /\ call' = NoId
  /\ outcome' = "skipped"
  /\ UNCHANGED <<opt, left, used>>

Next ==
  \/ \E req \in SampleRequests :
       SampleParameters(req[1], req[2]) \/ RefuseSample(req[1], req[2])
  \/ \E id \in Ids : RestoreParameterMean(id) \/ RefuseRestore(id)
  \/ \E id \in TrainIds : TrainBatch(id) \/ RefuseTrainBatch(id)
  \/ Microbatch
  \/ BackwardRaises
  \/ RestoreForStep
  \/ OptimizerStep
  \/ SkipStep

Spec == Init /\ [][Next]_vars

-----------------------------------------------------------------------------
(* The parameters hold the mean plus exactly the draw that restoring would *)
(* take out, and nothing beside the mean when the optimizer says it is not *)
(* perturbed: no order of calls, refusals, exceptions and skipped steps    *)
(* lets noise leak into the mean (_sample_params, _restore_param_average). *)
ParamsCoherent ==
  opt.residue = IF opt.noised THEN {<<"plus", Regenerated(opt)>>} ELSE {}

(* Once train_batch has accepted a call, none of the internal checks fires:*)
(* the perturbation stays the one of the call through every microbatch,    *)
(* the assertion count == 1 of the restore holds, step() finds exactly one *)
(* collected sample and a draw to regenerate, also after skipped steps.    *)
TrainBatchNeverAborts ==
  /\ pc = "backward" => ActivePerturbation(opt, call) /\ opt.count = 0
  /\ pc = "step" => ~opt.noised /\ opt.count = 1 /\ opt.genState # NoGen

(* An update consumes a gradient all of whose backward passes ran on the   *)
(* mean plus the very draw it regenerates for the curvature statistic:     *)
(* "one coherent posterior sample" per update (fbi_ivon.py:179-180).       *)
UpdateUsesItsOwnDraw ==
  [][opt'.mean # opt.mean => grad = {{<<"plus", Regenerated(opt)>>}}]_vars

(* No two updates are made with the same draw of the noise stream, however *)
(* many evaluation draws, reseeded or not, come between them.              *)
NoDrawReuse ==
  [][opt'.mean # opt.mean => opt.genState \notin used]_vars
=============================================================================
