-------------------------------- MODULE IVON --------------------------------
(***************************************************************************)
(* The autoregressive IVON optimizer (optim/fbi_ivon.py) together with the *)
(* fail-closed lifecycle helpers that verl wraps around it                 *)
(* (verl/workers/engine/ivon_contract.py), as operators on the record of   *)
(* one rank's optimizer.  The module has no variables: IVONWorker drives   *)
(* one optimizer with every order of remote calls, FBTrainer drives one    *)
(* optimizer per rank in the order of the training loop.                   *)
(*                                                                         *)
(* What is abstracted: a parameter tensor is its mean (a version number,   *)
(* bumped by each applied update) plus the set of signed noise draws that  *)
(* have been added to it and not taken out again.  A noise draw is named   *)
(* by all it depends on: the generator state it was drawn from and the     *)
(* version of the Hessian that scales it.  Two draws are the same tensor   *)
(* exactly when both agree, which is what restoring the mean relies on.    *)
(* Only the single-sample path (train_mc_samples = mc_samples = 1, no      *)
(* sync) is modelled: it is the one the trainer configures.                *)
(***************************************************************************)
EXTENDS Integers

CONSTANTS
  NoId,    \* _logical_perturbation_id is None
  NoSeed,  \* noise_seed is None: draw from the optimizer's own stream
  NoGen    \* _gen_state is None: there is no draw to regenerate

-----------------------------------------------------------------------------
(* A torch.Generator is its seed and the number of noise passes drawn.     *)
GenState == [seed: Nat, pos: Nat]

Seeded(seed) == [seed |-> seed, pos |-> 0]

Advance(gen) == [gen EXCEPT !.pos = @ + 1]

(* A noise tensor, named by what _draw_noise computes it from.             *)
Noise == [gen: GenState, hess: Nat]

Draw(gen, hess) == [gen |-> gen, hess |-> hess]

(* Adding or subtracting a draw: only the very same draw with the opposite *)
(* sign cancels, any other one stays in the tensor.                        *)
Signs == {"plus", "minus"}

Opposite(sign) == IF sign = "plus" THEN "minus" ELSE "plus"

SignedNoise == Signs \X Noise

Accumulate(residue, sign, noise) ==
  IF <<Opposite(sign), noise>> \in residue
    THEN residue \ {<<Opposite(sign), noise>>}
    ELSE residue \union {<<sign, noise>>}

-----------------------------------------------------------------------------
(* The optimizer and the parameters it owns on one rank.                   *)
Optimizer(ids) ==
  [ mean      : Nat,                     \* updates applied to the mean
    residue   : SUBSET SignedNoise,      \* what the parameters hold beside it
    hess      : Nat,                     \* version of the Hessian vector
    generator : GenState,                \* _generator
    genState  : GenState \union {NoGen}, \* _gen_state
    noised    : BOOLEAN,                 \* _is_noised
    pid       : ids \union {NoId},       \* _logical_perturbation_id
    count     : Nat,                     \* state["count"]
    current   : Nat,                     \* current_step
    meta      : [current: Nat, generator: GenState] ]
                                         \* step and generator kept in state

NewOptimizer(seed) ==
  [ mean |-> 0, residue |-> {}, hess |-> 0, generator |-> Seeded(seed),
    genState |-> NoGen, noised |-> FALSE, pid |-> NoId, count |-> 0,
    current |-> 0, meta |-> [current |-> 0, generator |-> Seeded(seed)] ]

(* The metadata that a checkpoint of the optimizer carries.                *)
SyncMetadata(o) ==
  [o EXCEPT !.meta = [current |-> o.current, generator |-> o.generator]]

(* The draw that _regen_generator and _draw_noise replay: the captured     *)
(* generator state, scaled by the Hessian as it is now.                    *)
Regenerated(o) == Draw(o.genState, o.hess)

(* Mutants of SampleParams: the generator state is captured after the      *)
(* draw; a sample collected for a skipped step stays counted.              *)
SampleParams_LateCapture(o, id) ==
  SyncMetadata(
    [o EXCEPT !.count     = 0,
              !.genState  = Advance(o.generator),
              !.generator = Advance(o.generator),
              !.residue   = Accumulate(@, "plus", Draw(o.generator, o.hess)),
              !.noised    = TRUE,
              !.pid       = id])

SampleParams_KeepCount(o, id) ==
  SyncMetadata(
    [o EXCEPT !.genState  = o.generator,
              !.generator = Advance(o.generator),
              !.residue   = Accumulate(@, "plus", Draw(o.generator, o.hess)),
              !.noised    = TRUE,
              !.pid       = id])

(* _sample_params, past its checks: an unused gradient sample is given up, *)
(* the generator state is captured before it advances.                     *)
SampleParams(o, id) ==
  SyncMetadata(
    [o EXCEPT !.count     = 0,
              !.genState  = o.generator,
              !.generator = Advance(o.generator),
              !.residue   = Accumulate(@, "plus", Draw(o.generator, o.hess)),
              !.noised    = TRUE,
              !.pid       = id])

(* _restore_param_average(train) of a perturbed optimizer.                 *)
RestoreParamAverage(o, train) ==
  [o EXCEPT !.count   = IF train THEN @ + 1 ELSE @,
            !.residue = Accumulate(@, "minus", Regenerated(o)),
            !.noised  = FALSE,
            !.pid     = NoId]

ResetSamples(o) == SyncMetadata([o EXCEPT !.count = 0, !.genState = NoGen])

(* step(): _update bumps current_step before it refuses a count other than *)
(* one; an update moves the mean and the Hessian, then the sample is       *)
(* dropped.                                                                *)
StepRefused(o) == o.count # 1

Step(o) ==
  LET bumped == [o EXCEPT !.current = @ + 1]
  IN  IF StepRefused(o)
        THEN bumped
        ELSE ResetSamples([bumped EXCEPT !.mean = @ + 1, !.hess = @ + 1])

-----------------------------------------------------------------------------
(* ivon_contract.py                                                        *)

(* assert_ivon_perturbation                                                *)
ActivePerturbation(o, id) == o.noised /\ o.pid = id

(* The checks of sample_ivon_parameters and of _sample_params: an active   *)
(* perturbation is never reseeded and never given a second identity.       *)
SampleAccepted(o, id, seed) == o.noised => seed = NoSeed /\ o.pid = id

(* Mutant: the optimizer goes on drawing from the evaluation stream.       *)
SampleIvonParameters_KeepSeeded(o, id, seed) ==
  IF o.noised THEN o
  ELSE IF seed = NoSeed THEN SampleParams(o, id)
  ELSE SampleParams([o EXCEPT !.generator = Seeded(seed)], id)

(* sample_ivon_parameters: a second request for the active perturbation is *)
(* a no-op, a seeded draw is taken from a generator of its own and leaves  *)
(* the optimizer's stream as it found it.                                  *)
SampleIvonParameters(o, id, seed) ==
  IF o.noised THEN o
  ELSE IF seed = NoSeed THEN SampleParams(o, id)
  ELSE LET drawn == SampleParams([o EXCEPT !.generator = Seeded(seed)], id)
       IN  SyncMetadata([drawn EXCEPT !.generator = o.generator])

(* restore_ivon_parameter_mean, past its assertion.                        *)
RestoreIvonParameterMean(o, train) == RestoreParamAverage(o, train)

-----------------------------------------------------------------------------
(* Checkpointing.  The parameters are saved as they stand, the optimizer   *)
(* saves its state entries and groups; what is runtime-only (_is_noised,   *)
(* the perturbation ID, _gen_state) is neither saved nor reset by a load.  *)
StateDict(o) ==
  LET synced == SyncMetadata(o)
  IN  [ mean |-> synced.mean, residue |-> synced.residue, hess |-> synced.hess,
        count |-> synced.count, meta |-> synced.meta ]

LoadStateDict(o, saved) ==
  [o EXCEPT !.mean      = saved.mean,
            !.residue   = saved.residue,
            !.hess      = saved.hess,
            !.count     = saved.count,
            !.generator = saved.meta.generator,
            !.current   = saved.meta.current,
            !.meta      = saved.meta]
=============================================================================
