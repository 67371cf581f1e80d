------------------------- MODULE IVONWorker_proofs -------------------------
(* Theorems of IVONWorker for every set of names, every number of          *)
(* microbatches and every bound on the draws.                              *)
EXTENDS IVONWorker, TLAPS

(* The inductive invariant.  ParamsCoherent alone is not inductive: a      *)
(* restore during train_batch must know that the perturbation is the one   *)
(* of the call, and an update must know what its gradient was taken at.    *)
DrawCaptured == opt.noised => opt.genState # NoGen /\ opt.count = 0

GradientOfThisBatch ==
  /\ pc = "backward" =>
       grad = IF left = Microbatches THEN {} ELSE {{<<"plus", Regenerated(opt)>>}}
  /\ pc = "step" => grad = {{<<"plus", Regenerated(opt)>>}}

IInv ==
  /\ TypeOK
  /\ ParamsCoherent
  /\ TrainBatchNeverAborts
  /\ DrawCaptured
  /\ GradientOfThisBatch

-----------------------------------------------------------------------------
(* What an operation of the optimizer makes of a well-typed record.        *)

(* Adding a draw to the bare mean leaves that draw, taking the same draw   *)
(* out leaves the bare mean.                                               *)
LEMMA AddThenCancel ==
  ASSUME NEW noise
  PROVE  /\ Accumulate({}, "plus", noise) = {<<"plus", noise>>}
         /\ Accumulate({<<"plus", noise>>}, "minus", noise) = {}
  BY DEF Accumulate, Opposite

LEMMA DrawType ==
  ASSUME NEW o \in Optimizer(Ids), o.genState # NoGen
  PROVE  Regenerated(o) \in Noise
  BY DEF Optimizer, Regenerated, Draw, Noise

LEMMA SyncMetadataType ==
  ASSUME NEW o \in Optimizer(Ids)
  PROVE  SyncMetadata(o) \in Optimizer(Ids)
<1>1. [current |-> o.current, generator |-> o.generator]
        \in [current: Nat, generator: GenState]
  BY DEF Optimizer
<1> QED
  BY <1>1 DEF Optimizer, SyncMetadata

LEMMA SampleParamsType ==
  ASSUME NEW o \in Optimizer(Ids), NEW id \in Ids, o.residue = {}
  PROVE  /\ SampleParams(o, id) \in Optimizer(Ids)
         /\ SampleParams(o, id).noised
         /\ SampleParams(o, id).pid = id
         /\ SampleParams(o, id).count = 0
         /\ SampleParams(o, id).mean = o.mean
         /\ SampleParams(o, id).genState = o.generator
         /\ SampleParams(o, id).hess = o.hess
         /\ SampleParams(o, id).residue = {<<"plus", Draw(o.generator, o.hess)>>}
<1>1. Advance(o.generator) \in GenState
  BY DEF Optimizer, Advance, GenState
<1>2. Draw(o.generator, o.hess) \in Noise
  BY DEF Optimizer, Draw, Noise
<1>3. {<<"plus", Draw(o.generator, o.hess)>>} \in SUBSET SignedNoise
  BY <1>2 DEF SignedNoise, Signs
<1> QED
  BY <1>1, <1>3, AddThenCancel DEF Optimizer, SampleParams, SyncMetadata

Perturbed(o, s) ==
  /\ s \in Optimizer(Ids)
  /\ s.noised
  /\ s.count = 0
  /\ s.mean = o.mean
  /\ s.genState # NoGen
  /\ s.residue = {<<"plus", Regenerated(s)>>}

LEMMA SampleType ==
  ASSUME NEW o \in Optimizer(Ids), NEW id \in Ids, NEW seed \in Nat \union {NoSeed},
         o.residue = {}, ~o.noised
  PROVE  Perturbed(o, SampleIvonParameters(o, id, seed))
<1> DEFINE s == SampleIvonParameters(o, id, seed)
<1> USE WorkerConstants
<1>0. o.generator \in GenState
  BY DEF Optimizer
<1>1. CASE seed = NoSeed
  <2>1. s = SampleParams(o, id)
    BY <1>1 DEF SampleIvonParameters
  <2>2. SampleParams(o, id).genState # NoGen
    BY <1>0, SampleParamsType
  <2> QED
    BY <2>1, <2>2, SampleParamsType DEF Regenerated, Perturbed
<1>2. CASE seed # NoSeed
  <2> DEFINE e == [o EXCEPT !.generator = Seeded(seed)]
             d == SampleParams(e, id)
  <2>1. Seeded(seed) \in GenState
    BY <1>2 DEF Seeded, GenState
  <2>2. e \in Optimizer(Ids) /\ e.residue = {} /\ e.mean = o.mean
        /\ e.generator = Seeded(seed)
    BY <2>1 DEF Optimizer
  <2> HIDE DEF e
  <2>3. /\ d \in Optimizer(Ids) /\ d.noised /\ d.pid = id /\ d.count = 0
        /\ d.mean = o.mean /\ d.genState \in GenState
        /\ d.residue = {<<"plus", Draw(d.genState, d.hess)>>}
    BY <2>1, <2>2, SampleParamsType
  <2> HIDE DEF d
  <2>4. s = SyncMetadata([d EXCEPT !.generator = o.generator])
    BY <1>2 DEF SampleIvonParameters, d, e
  <2>5. s \in Optimizer(Ids)
    <3>1. [d EXCEPT !.generator = o.generator] \in Optimizer(Ids)
      BY <1>0, <2>3 DEF Optimizer
    <3> QED
      BY <2>4, <3>1, SyncMetadataType
  <2>6. /\ s.noised = d.noised /\ s.pid = d.pid /\ s.count = d.count
        /\ s.mean = d.mean /\ s.genState = d.genState
        /\ s.residue = d.residue /\ s.hess = d.hess
    BY <2>3, <2>4 DEF Optimizer, SyncMetadata
  <2> QED
    BY <2>3, <2>5, <2>6 DEF Regenerated, Perturbed
<1> QED
  BY <1>1, <1>2

Restored(o, s) ==
  /\ s \in Optimizer(Ids)
  /\ ~s.noised
  /\ s.residue = {}
  /\ s.mean = o.mean
  /\ s.genState = o.genState
  /\ s.generator = o.generator
  /\ Regenerated(s) = Regenerated(o)

LEMMA RestoreType ==
  ASSUME NEW o \in Optimizer(Ids), NEW train \in BOOLEAN,
         o.residue = {<<"plus", Regenerated(o)>>}
  PROVE  /\ Restored(o, RestoreIvonParameterMean(o, train))
         /\ RestoreIvonParameterMean(o, train).count
              = IF train THEN o.count + 1 ELSE o.count
<1> DEFINE s == RestoreIvonParameterMean(o, train)
<1>1. s = [o EXCEPT !.count   = IF train THEN @ + 1 ELSE @,
                    !.residue = {},
                    !.noised  = FALSE,
                    !.pid     = NoId]
  <2>1. Accumulate(o.residue, "minus", Regenerated(o)) = {}
    BY AddThenCancel
  <2> QED
    BY <2>1 DEF RestoreIvonParameterMean, RestoreParamAverage
<1>2. s \in Optimizer(Ids)
  <2>1. (IF train THEN o.count + 1 ELSE o.count) \in Nat
    BY DEF Optimizer
  <2> QED
    BY <1>1, <2>1 DEF Optimizer
<1>3. /\ ~s.noised /\ s.residue = {} /\ s.mean = o.mean
      /\ s.genState = o.genState /\ s.hess = o.hess /\ s.generator = o.generator
      /\ s.count = IF train THEN o.count + 1 ELSE o.count
  BY <1>1 DEF Optimizer
<1> QED
  BY <1>2, <1>3 DEF Regenerated, Restored

LEMMA StepType ==
  ASSUME NEW o \in Optimizer(Ids), o.count = 1
  PROVE  /\ Step(o) \in Optimizer(Ids)
         /\ Step(o).noised = o.noised
         /\ Step(o).residue = o.residue
         /\ Step(o).generator = o.generator
<1> DEFINE b == [o EXCEPT !.current = @ + 1]
           u == [b EXCEPT !.mean = @ + 1, !.hess = @ + 1]
           c == [u EXCEPT !.count = 0, !.genState = NoGen]
<1>1. c \in Optimizer(Ids) /\ c.noised = o.noised /\ c.residue = o.residue
      /\ c.generator = o.generator
  <2>1. b \in Optimizer(Ids) /\ b.noised = o.noised /\ b.residue = o.residue
        /\ b.generator = o.generator
    BY DEF Optimizer
  <2> HIDE DEF b
  <2>2. u \in Optimizer(Ids) /\ u.noised = b.noised /\ u.residue = b.residue
        /\ u.generator = b.generator
    <3>1. b.mean + 1 \in Nat /\ b.hess + 1 \in Nat
      BY <2>1 DEF Optimizer
    <3> QED
      BY <2>1, <3>1 DEF Optimizer
  <2> HIDE DEF u
  <2> QED
    BY <2>1, <2>2 DEF Optimizer
<1>2. Step(o) = SyncMetadata(c)
  BY DEF Step, StepRefused, ResetSamples
<1> HIDE DEF c
<1>3. /\ SyncMetadata(c).noised = c.noised
      /\ SyncMetadata(c).residue = c.residue
      /\ SyncMetadata(c).generator = c.generator
  BY <1>1 DEF Optimizer, SyncMetadata
<1> QED
  BY <1>1, <1>2, <1>3, SyncMetadataType

-----------------------------------------------------------------------------
LEMMA InitIInv == Init => IInv
<1> SUFFICES ASSUME Init PROVE IInv
  OBVIOUS
<1>1. Seeded(TrainSeed) \in GenState
  BY WorkerConstants DEF Seeded, GenState
<1>2. opt \in Optimizer(Ids) /\ opt.residue = {} /\ ~opt.noised
  BY <1>1 DEF Init, NewOptimizer, Optimizer
<1> QED
  BY <1>2, WorkerConstants
  DEF Init, IInv, TypeOK, Outcomes, ParamsCoherent, TrainBatchNeverAborts,
      DrawCaptured, GradientOfThisBatch

LEMMA NextIInv == IInv /\ [Next]_vars => IInv'
<1> SUFFICES ASSUME IInv, [Next]_vars PROVE IInv'
  OBVIOUS
<1> USE WorkerConstants
<1>0. /\ opt \in Optimizer(Ids)
      /\ opt.residue = IF opt.noised THEN {<<"plus", Regenerated(opt)>>} ELSE {}
  BY DEF IInv, TypeOK, ParamsCoherent
<1>1. ASSUME NEW req \in SampleRequests, SampleParameters(req[1], req[2])
      PROVE  IInv'
  <2>1. req[1] \in Ids /\ req[2] \in Nat \union {NoSeed}
    BY DEF SampleRequests, Ids
  <2>2. CASE opt.noised
    <3>1. opt' = opt
      BY <1>1, <2>2 DEF SampleParameters, SampleIvonParameters
    <3> QED
      BY <1>1, <3>1 DEF SampleParameters, IInv, TypeOK, Outcomes,
         ParamsCoherent, TrainBatchNeverAborts, DrawCaptured,
         GradientOfThisBatch
  <2>3. CASE ~opt.noised
    <3>1. Perturbed(opt, opt')
      BY <1>0, <1>1, <2>1, <2>3, SampleType DEF SampleParameters
    <3> QED
      BY <1>1, <3>1 DEF Perturbed, SampleParameters, IInv, TypeOK, Outcomes,
         ParamsCoherent, TrainBatchNeverAborts, DrawCaptured,
         GradientOfThisBatch
  <2> QED
    BY <2>2, <2>3
<1>2. ASSUME NEW id, RestoreParameterMean(id)
      PROVE  IInv'
  <2>1. Restored(opt, opt')
    BY <1>0, <1>2, RestoreType DEF RestoreParameterMean, ActivePerturbation
  <2> QED
    BY <1>2, <2>1 DEF Restored, RestoreParameterMean, IInv, TypeOK, Outcomes,
       ParamsCoherent, TrainBatchNeverAborts, DrawCaptured, GradientOfThisBatch
<1>3. ASSUME NEW id \in TrainIds, TrainBatch(id)
      PROVE  IInv'
  <2>1. opt.noised
    BY <1>3 DEF TrainBatch, ActivePerturbation
  <2> QED
    BY <1>3 DEF TrainBatch, IInv, TypeOK, Outcomes, ParamsCoherent,
       TrainBatchNeverAborts, DrawCaptured, GradientOfThisBatch,
       ActivePerturbation
<1>4. ASSUME NEW id, RefuseTrainBatch(id)
      PROVE  IInv'
  BY <1>4 DEF RefuseTrainBatch, IInv, TypeOK, Outcomes, ParamsCoherent,
     TrainBatchNeverAborts, DrawCaptured, GradientOfThisBatch
<1>5. CASE Microbatch
  <2>1. /\ opt.noised /\ opt.residue = {<<"plus", Regenerated(opt)>>}
    BY <1>0, <1>5 DEF Microbatch, ActivePerturbation
  <2>2. opt.residue \in SUBSET SignedNoise
    BY <1>0 DEF Optimizer
  <2>3. grad' = {{<<"plus", Regenerated(opt)>>}}
    BY <1>5, <2>1 DEF Microbatch, IInv, GradientOfThisBatch
  <2>4. left' \in 0 .. Microbatches /\ left' # Microbatches
    BY <1>5 DEF Microbatch, IInv, TypeOK
  <2> QED
    BY <1>5, <2>1, <2>2, <2>3, <2>4 DEF Microbatch, IInv, TypeOK,
       ParamsCoherent, TrainBatchNeverAborts, DrawCaptured, GradientOfThisBatch
<1>6. CASE BackwardRaises
  <2>1. opt.noised
    BY <1>6 DEF BackwardRaises, IInv, TrainBatchNeverAborts, ActivePerturbation
  <2>2. Restored(opt, opt')
    BY <1>0, <1>6, <2>1, RestoreType DEF BackwardRaises
  <2>3. TypeOK'
    <3>1. 0 \in 0 .. Microbatches
      OBVIOUS
    <3> QED
      BY <1>6, <2>2, <3>1
      DEF Restored, BackwardRaises, IInv, TypeOK, Outcomes
  <2>4. ParamsCoherent' /\ DrawCaptured'
    BY <2>2 DEF Restored, ParamsCoherent, DrawCaptured
  <2>5. TrainBatchNeverAborts' /\ GradientOfThisBatch'
    BY <1>6 DEF BackwardRaises, TrainBatchNeverAborts, GradientOfThisBatch
  <2> QED
    BY <2>3, <2>4, <2>5 DEF IInv
<1>7. CASE RestoreForStep
  <2>1. opt.noised /\ opt.count = 0
    BY <1>7 DEF RestoreForStep, IInv, TrainBatchNeverAborts, ActivePerturbation
  <2>2. Restored(opt, opt') /\ opt'.count = 1
    <3>1. opt.residue = {<<"plus", Regenerated(opt)>>}
      BY <1>0, <2>1
    <3>2. /\ Restored(opt, RestoreIvonParameterMean(opt, TRUE))
          /\ RestoreIvonParameterMean(opt, TRUE).count = opt.count + 1
      BY <1>0, <3>1, RestoreType
    <3>3. Restored(opt, opt') /\ opt'.count = opt.count + 1
      BY <1>7, <3>2 DEF RestoreForStep
    <3> QED
      BY <2>1, <3>3
  <2>3. grad = {{<<"plus", Regenerated(opt)>>}}
    BY <1>7 DEF RestoreForStep, IInv, GradientOfThisBatch
  <2> QED
    BY <1>7, <2>1, <2>2, <2>3 DEF Restored, RestoreForStep, IInv, TypeOK,
       ParamsCoherent, TrainBatchNeverAborts, DrawCaptured, GradientOfThisBatch
<1>8. CASE OptimizerStep
  <2>1. ~opt.noised /\ opt.count = 1 /\ opt.genState # NoGen
    BY <1>8 DEF OptimizerStep, IInv, TrainBatchNeverAborts
  <2>2. opt' \in Optimizer(Ids) /\ ~opt'.noised /\ opt'.residue = {}
    BY <1>0, <1>8, <2>1, StepType DEF OptimizerStep
  <2>3. used' \subseteq GenState
    BY <1>0, <1>8, <2>1 DEF OptimizerStep, IInv, TypeOK, Optimizer
  <2> QED
    BY <1>8, <2>2, <2>3 DEF OptimizerStep, IInv, TypeOK, Outcomes,
       ParamsCoherent, TrainBatchNeverAborts, DrawCaptured, GradientOfThisBatch
<1>9. CASE SkipStep
  BY <1>9 DEF SkipStep, IInv, TypeOK, Outcomes, ParamsCoherent,
     TrainBatchNeverAborts, DrawCaptured, GradientOfThisBatch
<1>10. CASE Refuse \/ UNCHANGED vars
  BY <1>10 DEF Refuse, vars, IInv, TypeOK, Outcomes, ParamsCoherent,
     TrainBatchNeverAborts, DrawCaptured, GradientOfThisBatch
<1> QED
  BY <1>1, <1>2, <1>3, <1>4, <1>5, <1>6, <1>7, <1>8, <1>9, <1>10
  DEF Next, RefuseSample, RefuseRestore

LEMMA InductiveInvariant == Spec => []IInv
  BY InitIInv, NextIInv, PTL DEF Spec

-----------------------------------------------------------------------------
(* Type correctness of the worker, whatever calls it is sent.              *)
THEOREM TypeCorrect == Spec => []TypeOK
<1>1. IInv => TypeOK
  BY DEF IInv
<1> QED
  BY <1>1, InductiveInvariant, PTL

(* The parameters are the mean plus exactly the active draw: no order of   *)
(* served, refused, failed and skipped calls (fbi_ivon.py _sample_params,  *)
(* _restore_param_average) makes the mean drift.                           *)
THEOREM MeanNeverDrifts == Spec => []ParamsCoherent
<1>1. IInv => ParamsCoherent
  BY DEF IInv
<1> QED
  BY <1>1, InductiveInvariant, PTL

(* A train_batch that was accepted meets none of the internal checks of    *)
(* base.py, ivon_contract.py and _update.                                  *)
THEOREM AcceptedBatchNeverAborts == Spec => []TrainBatchNeverAborts
<1>1. IInv => TrainBatchNeverAborts
  BY DEF IInv
<1> QED
  BY <1>1, InductiveInvariant, PTL

(* Only an optimizer step moves the mean.                                  *)
LEMMA OnlyStepMovesMean ==
  ASSUME IInv, [Next]_vars, opt'.mean # opt.mean
  PROVE  OptimizerStep
<1> USE WorkerConstants
<1>0. /\ opt \in Optimizer(Ids)
      /\ opt.residue = IF opt.noised THEN {<<"plus", Regenerated(opt)>>} ELSE {}
  BY DEF IInv, TypeOK, ParamsCoherent
<1>1. ASSUME NEW req \in SampleRequests, SampleParameters(req[1], req[2])
      PROVE  opt'.mean = opt.mean
  <2>1. req[1] \in Ids /\ req[2] \in Nat \union {NoSeed}
    BY DEF SampleRequests, Ids
  <2>2. CASE opt.noised
    BY <1>1, <2>2 DEF SampleParameters, SampleIvonParameters
  <2>3. CASE ~opt.noised
    BY <1>0, <1>1, <2>1, <2>3, SampleType DEF SampleParameters, Perturbed
  <2> QED
    BY <2>2, <2>3
<1>2. ASSUME NEW id, RestoreParameterMean(id)
      PROVE  opt'.mean = opt.mean
  BY <1>0, <1>2, RestoreType
  DEF RestoreParameterMean, ActivePerturbation, Restored
<1>3. CASE BackwardRaises \/ RestoreForStep
  <2>1. opt.noised
    BY <1>3 DEF BackwardRaises, RestoreForStep, IInv, TrainBatchNeverAborts,
       ActivePerturbation
  <2> QED
    BY <1>0, <1>3, <2>1, RestoreType
    DEF BackwardRaises, RestoreForStep, Restored
<1> QED
  BY <1>1, <1>2, <1>3
  DEF Next, RefuseSample, RefuseRestore, Refuse, TrainBatch,
      RefuseTrainBatch, Microbatch, SkipStep, vars

(* Every update of _update pairs the curvature statistic with a gradient   *)
(* taken at the very draw it regenerates.                                  *)
THEOREM CoherentUpdate == Spec => UpdateUsesItsOwnDraw
<1>1. IInv /\ [Next]_vars
        => [opt'.mean # opt.mean => grad = {{<<"plus", Regenerated(opt)>>}}]_vars
  BY OnlyStepMovesMean DEF OptimizerStep, IInv, GradientOfThisBatch
<1> QED
  BY <1>1, InductiveInvariant, PTL DEF Spec, UpdateUsesItsOwnDraw

-----------------------------------------------------------------------------
(* The optimizer's own stream is ahead of every draw used by an update, and *)
(* what train_batch regenerates came from that stream and is still unused.  *)
OwnStream(gen) == gen.seed = TrainSeed /\ gen.pos < opt.generator.pos

UsedAreBehind ==
  /\ opt.generator.seed = TrainSeed
  /\ \A gen \in used : OwnStream(gen)

InTraining == pc = "step" \/ (opt.noised /\ opt.pid \in TrainIds)

TrainDrawIsFresh ==
  /\ InTraining => OwnStream(opt.genState) /\ opt.genState \notin used
  /\ pc = "backward" => call \in TrainIds

StreamInv == UsedAreBehind /\ TrainDrawIsFresh

(* Only a draw without a seed takes from the optimizer's stream, and a      *)
(* draw with a seed gives the stream back as it was.                        *)
DrawnFor(o, id, seed, s) ==
  /\ s.pid = id
  /\ seed = NoSeed => /\ s.genState = o.generator
                      /\ s.generator = Advance(o.generator)
  /\ seed # NoSeed => s.generator = o.generator

LEMMA SampleStream ==
  ASSUME NEW o \in Optimizer(Ids), NEW id \in Ids, NEW seed \in Nat \union {NoSeed},
         o.residue = {}, ~o.noised
  PROVE  DrawnFor(o, id, seed, SampleIvonParameters(o, id, seed))
<1> DEFINE s == SampleIvonParameters(o, id, seed)
<1> USE WorkerConstants
<1>1. CASE seed = NoSeed
  <2>1. s = SampleParams(o, id)
    BY <1>1 DEF SampleIvonParameters
  <2>2. /\ SampleParams(o, id).pid = id
        /\ SampleParams(o, id).genState = o.generator
        /\ SampleParams(o, id).generator = Advance(o.generator)
    BY DEF SampleParams, SyncMetadata, Optimizer
  <2> QED
    BY <1>1, <2>1, <2>2 DEF DrawnFor
<1>2. CASE seed # NoSeed
  <2> DEFINE e == [o EXCEPT !.generator = Seeded(seed)]
             d == SampleParams(e, id)
  <2>1. e \in Optimizer(Ids) /\ e.residue = {}
    BY <1>2 DEF Optimizer, Seeded, GenState
  <2> HIDE DEF e
  <2>2. d \in Optimizer(Ids) /\ d.pid = id
    BY <2>1, SampleParamsType
  <2> HIDE DEF d
  <2>3. s = SyncMetadata([d EXCEPT !.generator = o.generator])
    BY <1>2 DEF SampleIvonParameters, d, e
  <2>4. s.pid = d.pid /\ s.generator = o.generator
    BY <2>2, <2>3 DEF Optimizer, SyncMetadata
  <2> QED
    BY <1>2, <2>2, <2>4 DEF DrawnFor
<1> QED
  BY <1>1, <1>2

LEMMA InitStreamInv == Init => StreamInv
  BY DEF Init, StreamInv, UsedAreBehind, TrainDrawIsFresh, InTraining, NewOptimizer, Seeded

LEMMA NextStreamInv == IInv /\ StreamInv /\ [Next]_vars => StreamInv'
<1> SUFFICES ASSUME IInv, StreamInv, [Next]_vars PROVE StreamInv'
  OBVIOUS
<1> USE WorkerConstants
<1>0. /\ opt \in Optimizer(Ids)
      /\ opt.residue = IF opt.noised THEN {<<"plus", Regenerated(opt)>>} ELSE {}
      /\ opt.generator \in GenState
      /\ used \subseteq GenState
  BY DEF IInv, TypeOK, ParamsCoherent, Optimizer
<1>1. ASSUME NEW req \in SampleRequests, SampleParameters(req[1], req[2])
      PROVE  StreamInv'
  <2>1. /\ req[1] \in Ids /\ req[2] \in Nat \union {NoSeed}
        /\ req[2] # NoSeed => req[1] \notin TrainIds
    BY DEF SampleRequests, Ids
  <2>2. CASE opt.noised
    <3>1. opt' = opt
      BY <1>1, <2>2 DEF SampleParameters, SampleIvonParameters
    <3> QED
      BY <1>1, <3>1 DEF SampleParameters, StreamInv, UsedAreBehind,
         TrainDrawIsFresh, InTraining, OwnStream
  <2>3. CASE ~opt.noised /\ req[2] = NoSeed
    <3> DEFINE s == SampleIvonParameters(opt, req[1], req[2])
    <3>0. DrawnFor(opt, req[1], req[2], s)
      BY <1>0, <2>1, <2>3, SampleStream
    <3>1. /\ opt'.genState = opt.generator
          /\ opt'.generator = Advance(opt.generator)
      <4>1. opt' = s
        BY <1>1 DEF SampleParameters
      <4> HIDE DEF s
      <4> QED
        BY <2>3, <3>0, <4>1 DEF DrawnFor
    <3>2. /\ opt'.generator.seed = opt.generator.seed
          /\ opt'.generator.pos = opt.generator.pos + 1
          /\ opt.generator.pos \in Nat
          /\ \A gen \in used : gen.pos \in Nat
      BY <1>0, <3>1 DEF Advance, GenState
    <3>3. UsedAreBehind'
      BY <1>1, <3>2 DEF SampleParameters, StreamInv, UsedAreBehind, OwnStream
    <3>4. OwnStream(opt.genState)' /\ opt'.genState \notin used
      BY <3>1, <3>2 DEF StreamInv, UsedAreBehind, OwnStream
    <3> QED
      BY <1>1, <3>3, <3>4 DEF SampleParameters, StreamInv, TrainDrawIsFresh
  <2>4. CASE ~opt.noised /\ req[2] # NoSeed
    <3>1. opt'.pid = req[1] /\ opt'.generator = opt.generator
      BY <1>0, <1>1, <2>1, <2>4, SampleStream DEF SampleParameters, DrawnFor
    <3> QED
      BY <1>1, <2>1, <2>4, <3>1 DEF SampleParameters, StreamInv,
         UsedAreBehind, TrainDrawIsFresh, InTraining, OwnStream
  <2> QED
    BY <2>2, <2>3, <2>4
<1>2. ASSUME NEW id, RestoreParameterMean(id)
      PROVE  StreamInv'
  <2>1. Restored(opt, opt')
    BY <1>0, <1>2, RestoreType DEF RestoreParameterMean, ActivePerturbation
  <2> QED
    BY <1>2, <2>1 DEF Restored, RestoreParameterMean, StreamInv,
       UsedAreBehind, TrainDrawIsFresh, InTraining, OwnStream
<1>3. ASSUME NEW id \in TrainIds, TrainBatch(id)
      PROVE  StreamInv'
  BY <1>3 DEF TrainBatch, StreamInv, UsedAreBehind, TrainDrawIsFresh,
     InTraining, OwnStream
<1>4. CASE BackwardRaises
  <2>1. Restored(opt, opt')
    <3>1. opt.noised
      BY <1>4 DEF BackwardRaises, IInv, TrainBatchNeverAborts, ActivePerturbation
    <3> QED
      BY <1>0, <1>4, <3>1, RestoreType DEF BackwardRaises
  <2> QED
    BY <1>4, <2>1 DEF Restored, BackwardRaises, StreamInv, UsedAreBehind,
       TrainDrawIsFresh, InTraining, OwnStream
<1>5. CASE RestoreForStep
  <2>1. opt.noised /\ opt.pid \in TrainIds
    BY <1>5 DEF RestoreForStep, IInv, TrainBatchNeverAborts,
       ActivePerturbation, StreamInv, TrainDrawIsFresh
  <2>2. Restored(opt, opt')
    BY <1>0, <1>5, <2>1, RestoreType DEF RestoreForStep
  <2> QED
    BY <1>5, <2>1, <2>2 DEF Restored, RestoreForStep, StreamInv,
       UsedAreBehind, TrainDrawIsFresh, InTraining, OwnStream
<1>6. CASE OptimizerStep
  <2>1. ~opt.noised /\ opt.count = 1
    BY <1>6 DEF OptimizerStep, IInv, TrainBatchNeverAborts
  <2>2. ~opt'.noised /\ opt'.generator = opt.generator
    BY <1>0, <1>6, <2>1, StepType DEF OptimizerStep
  <2>3. used' = used \union {opt.genState} /\ pc' = "idle"
    BY <1>6, <2>1 DEF OptimizerStep, StepRefused
  <2>4. OwnStream(opt.genState)
    BY <1>6 DEF OptimizerStep, StreamInv, TrainDrawIsFresh, InTraining
  <2> QED
    BY <2>2, <2>3, <2>4 DEF StreamInv, UsedAreBehind, TrainDrawIsFresh,
       InTraining, OwnStream
<1>7. CASE SkipStep
  BY <1>7 DEF SkipStep, IInv, TrainBatchNeverAborts, StreamInv,
     UsedAreBehind, TrainDrawIsFresh, InTraining, OwnStream
<1>8. CASE UNCHANGED <<opt, used, pc, call>>
  BY <1>8 DEF StreamInv, UsedAreBehind, TrainDrawIsFresh, InTraining, OwnStream
<1> QED
  BY <1>1, <1>2, <1>3, <1>4, <1>5, <1>6, <1>7, <1>8
  DEF Next, vars, RefuseSample, RefuseRestore, Refuse, RefuseTrainBatch,
      Microbatch

(* No two updates of _update use the same draw of the noise stream,         *)
(* whatever was evaluated, aborted or skipped between them.                 *)
THEOREM DrawsAreUsedOnce == Spec => NoDrawReuse
<1>1. IInv /\ StreamInv /\ [Next]_vars
        => [opt'.mean # opt.mean => opt.genState \notin used]_vars
  <2> SUFFICES ASSUME IInv, StreamInv, [Next]_vars, opt'.mean # opt.mean
               PROVE  pc = "step"
    BY DEF StreamInv, TrainDrawIsFresh, InTraining
  <2> QED
    BY OnlyStepMovesMean DEF OptimizerStep
<1> QED
  BY <1>1, InductiveInvariant, InitStreamInv, NextStreamInv, PTL
  DEF Spec, NoDrawReuse
=============================================================================
