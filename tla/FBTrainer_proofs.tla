--------------------------- MODULE FBTrainer_proofs ---------------------------
(* Theorems of FBTrainer for every number of ranks, every length of the     *)
(* training, saving frequency, evaluation and sequence of crashes.          *)
(*                                                                          *)
(* The idea of the proofs: the driver is one process, so where it stands    *)
(* and which ranks it still waits for say what every optimizer holds: the   *)
(* bare mean, or the mean and the one draw that carries the name of the     *)
(* step.  Every counter of the job is then a function of the step.          *)
EXTENDS FBTrainer, TLAPS

(* Ranks whose parameters hold the draw of the step, or of an evaluation.   *)
Trains(r) ==
  \/ pc \in {"sleep", "push", "generate", "advantage"}
  \/ pc = "sample" /\ r \notin todo
  \/ pc = "backward" /\ r \in todo

Evaluates(r) ==
  \/ pc \in {"eval_sleep", "eval_push", "eval_generate"}
  \/ pc = "eval_sample" /\ r \notin todo
  \/ pc = "eval_restore" /\ r \in todo

Perturbed(o, id) ==
  /\ o.noised /\ o.pid = id /\ o.count = 0 /\ o.genState \in GenState
  /\ o.residue = {<<"plus", Regenerated(o)>>}

Bare(o) == ~o.noised /\ o.residue = {}

ShapeInv ==
  \A r \in Ranks :
    /\ Trains(r) => Perturbed(opt[r], PerturbationId)
    /\ Evaluates(r) => Perturbed(opt[r], EvalId)
    /\ ~Trains(r) /\ ~Evaluates(r) => Bare(opt[r])

(* The step of the last batch taken from the dataloader.                    *)
Taken == IF pc \in {"begin", "done"} THEN step - 1 ELSE step

Starting == {"load", "failed", "first_sync"} \union EvalPhases

DriverInv ==
  /\ data = Taken /\ fbi.counter = Taken
  /\ fbi.pending <=> pc \in {"backward", "norm", "optimize", "commit"}
  /\ pc \in EvalPhases => draw < EvalDraws
  /\ pc \in {"load", "failed", "first_sync"} => draw = 0
  /\ pc \in {"load", "failed"} => step = 0
  /\ pc \in {"first_sync"} \union EvalPhases => step = tracker.step

(* Every restart from the final checkpoint trains one more step.            *)
StepInv ==
  /\ pc \in Starting => tracker.step < TotalSteps + crashes
  /\ pc \in StepPhases => step > 0 /\ step <= TotalSteps + crashes
  /\ pc \in {"sync", "validate"} => tracker.step <= step
  /\ pc \in StepPhases \ {"sync", "validate"} => tracker.step < step
  /\ pc = "done" => step <= TotalSteps + crashes + 1

(* Where the training stream of a rank stands.                              *)
Drawn(r) ==
  IF pc \in {"begin", "done"} \/ (pc = "sample" /\ r \in todo) THEN step - 1 ELSE step

StreamInv ==
  StreamUntouched =>
    \A r \in Ranks :
      /\ opt[r].generator = [seed |-> TrainSeed + r, pos |-> Drawn(r)]
      /\ Trains(r) => opt[r].genState = [seed |-> TrainSeed + r, pos |-> step - 1]

(* What is known of a rank between the generation of the batch and the      *)
(* commit.                                                                  *)
BatchInv ==
  \A r \in Ranks :
    /\ pc = "advantage" \/ (pc = "backward" /\ r \in todo) => Contents(opt[r]) = made[r]
    /\ \/ pc = "backward" /\ r \notin todo
       \/ pc = "norm"
       \/ pc = "optimize" /\ r \in todo
       => grad[r] = {made[r].residue} /\ opt[r].mean = made[r].mean /\ opt[r].count = 1
    /\ (pc = "optimize" /\ r \notin todo) \/ pc = "commit" =>
         opt[r].mean = made[r].mean + (IF finite THEN 1 ELSE 0)

(* All ranks hold the same version of the mean, the one that goes with the  *)
(* failure state, but for the update that is being applied.                 *)
Due(r) == IF pc = "optimize" /\ finite /\ r \in todo THEN 1 ELSE 0
Uncommitted == IF finite /\ pc \in {"optimize", "commit"} THEN 1 ELSE 0

MeanInv ==
  /\ \A q, r \in Ranks : opt[q].mean + Due(q) = opt[r].mean + Due(r)
  /\ ~Frozen => \A r \in Ranks : opt[r].mean + Due(r) = fbi.commits + Uncommitted

(* The files written so far of the checkpoint that is being saved.          *)
SaveInv ==
  /\ \A r \in Ranks :
       \/ pc = "save_actor" /\ r \notin todo
       \/ pc \in {"save_fb", "save_data", "open_tracker", "write_tracker"}
       => disk[step].actor[r] = StateDict(opt[r])
  /\ pc \in {"save_data", "open_tracker", "write_tracker"} =>
       disk[step].fb = [commits |-> fbi.commits, counter |-> fbi.counter]
  /\ pc \in {"open_tracker", "write_tracker"} => disk[step].data = data

IInv ==
  /\ TypeOK /\ ShapeInv /\ DriverInv /\ StepInv /\ StreamInv /\ BatchInv
  /\ MeanInv /\ SaveInv /\ CheckpointCoherent /\ GenerateSeesCurrent

-----------------------------------------------------------------------------
(* What the operations of the optimizer make of it.                         *)
LEMMA AddThenCancel ==
  ASSUME NEW noise
  PROVE  /\ Accumulate({}, "plus", noise) = {<<"plus", noise>>}
         /\ Accumulate({<<"plus", noise>>}, "minus", noise) = {}
BY DEF Accumulate, Opposite

LEMMA SampleParamsIs ==
  ASSUME NEW ids, NEW o \in Optimizer(ids), NEW id \in ids, o.residue = {}
  PROVE  /\ SampleParams(o, id) \in Optimizer(ids)
         /\ Perturbed(SampleParams(o, id), id)
         /\ SampleParams(o, id).mean = o.mean
         /\ SampleParams(o, id).generator = Advance(o.generator)
         /\ SampleParams(o, id).genState = o.generator
<1>1. Advance(o.generator) \in GenState /\ o.generator \in GenState
  BY DEF Optimizer, Advance, GenState
<1>2. {<<"plus", Draw(o.generator, o.hess)>>} \in SUBSET SignedNoise
  BY <1>1 DEF SignedNoise, Signs, Optimizer, Draw, Noise
<1>3. SampleParams(o, id) =
        [mean |-> o.mean, residue |-> {<<"plus", Draw(o.generator, o.hess)>>},
         hess |-> o.hess, generator |-> Advance(o.generator), genState |-> o.generator,
         noised |-> TRUE, pid |-> id, count |-> 0, current |-> o.current,
         meta |-> [current |-> o.current, generator |-> Advance(o.generator)]]
  <2>1. Accumulate(o.residue, "plus", Draw(o.generator, o.hess))
          = {<<"plus", Draw(o.generator, o.hess)>>}
    BY AddThenCancel
  <2>2. PICK n : n = {<<"plus", Draw(o.generator, o.hess)>>}
    OBVIOUS
  <2>3. PICK e : e = [o EXCEPT !.count     = 0,
                               !.genState  = o.generator,
                               !.generator = Advance(o.generator),
                               !.residue   = n,
                               !.noised    = TRUE,
                               !.pid       = id]
    OBVIOUS
  <2>4. SampleParams(o, id) = SyncMetadata(e)
    BY <2>1, <2>2, <2>3 DEF SampleParams, Optimizer
  <2>5. e = [mean |-> o.mean, residue |-> n, hess |-> o.hess,
             generator |-> Advance(o.generator), genState |-> o.generator, noised |-> TRUE,
             pid |-> id, count |-> 0, current |-> o.current, meta |-> o.meta]
    BY <2>3 DEF Optimizer
  <2> QED
    BY <2>2, <2>4, <2>5 DEF SyncMetadata
<1>4. SampleParams(o, id) \in Optimizer(ids)
  <2>1. [current |-> o.current, generator |-> Advance(o.generator)]
          \in [current : Nat, generator : GenState]
    BY <1>1 DEF Optimizer
  <2> QED
    BY <1>1, <1>2, <1>3, <2>1 DEF Optimizer
<1> QED
  BY <1>1, <1>3, <1>4 DEF Perturbed, Regenerated

(* A seeded draw leaves the stream of the optimizer as it was.              *)
LEMMA SampleIs ==
  ASSUME NEW ids, NEW o \in Optimizer(ids), NEW id \in ids, NEW seed \in Nat \union {NoSeed},
         Bare(o)
  PROVE  /\ SampleIvonParameters(o, id, seed) \in Optimizer(ids)
         /\ Perturbed(SampleIvonParameters(o, id, seed), id)
         /\ SampleIvonParameters(o, id, seed).mean = o.mean
         /\ seed = NoSeed => /\ SampleIvonParameters(o, id, seed).generator = Advance(o.generator)
                             /\ SampleIvonParameters(o, id, seed).genState = o.generator
         /\ seed # NoSeed => SampleIvonParameters(o, id, seed).generator = o.generator
<1> DEFINE s == SampleIvonParameters(o, id, seed)
<1>1. CASE seed = NoSeed
  BY <1>1, SampleParamsIs DEF Bare, SampleIvonParameters
<1>2. CASE seed # NoSeed
  <2>1. PICK e : e = [o EXCEPT !.generator = Seeded(seed)]
    OBVIOUS
  <2>2. PICK d : d = SampleParams(e, id)
    OBVIOUS
  <2>3. e \in Optimizer(ids) /\ e.residue = {} /\ e.mean = o.mean
    BY <1>2, <2>1 DEF Seeded, GenState, Optimizer, Bare
  <2>4. d \in Optimizer(ids) /\ Perturbed(d, id) /\ d.mean = o.mean
    BY <2>2, <2>3, SampleParamsIs
  <2>5. s = SyncMetadata([d EXCEPT !.generator = o.generator])
    BY <1>2, <2>1, <2>2 DEF SampleIvonParameters, Bare
  <2>6. s = [d EXCEPT !.generator = o.generator,
                      !.meta = [current |-> d.current, generator |-> o.generator]]
    BY <2>4, <2>5 DEF SyncMetadata, Optimizer
  <2>7. o.generator \in GenState /\ [current |-> d.current, generator |-> o.generator]
                                      \in [current : Nat, generator : GenState]
    BY <2>4 DEF Optimizer
  <2>8. s \in Optimizer(ids)
    BY <2>4, <2>6, <2>7 DEF Optimizer
  <2>9. /\ s.noised = d.noised /\ s.pid = d.pid /\ s.count = d.count /\ s.mean = d.mean
        /\ s.genState = d.genState /\ s.residue = d.residue /\ s.hess = d.hess
        /\ s.generator = o.generator
    BY <2>4, <2>6 DEF Optimizer
  <2> QED
    BY <1>2, <2>4, <2>8, <2>9 DEF Perturbed, Regenerated
<1> QED
  BY <1>1, <1>2

LEMMA RestoreIs ==
  ASSUME NEW ids, NEW o \in Optimizer(ids), NEW id, NEW train \in BOOLEAN, Perturbed(o, id)
  PROVE  /\ RestoreIvonParameterMean(o, train) \in Optimizer(ids)
         /\ Bare(RestoreIvonParameterMean(o, train))
         /\ RestoreIvonParameterMean(o, train).mean = o.mean
         /\ RestoreIvonParameterMean(o, train).generator = o.generator
         /\ train => RestoreIvonParameterMean(o, train).count = 1
<1> DEFINE s == RestoreIvonParameterMean(o, train)
<1>1. Accumulate(o.residue, "minus", Regenerated(o)) = {}
  BY AddThenCancel DEF Perturbed
<1>2. s = [o EXCEPT !.count   = IF train THEN @ + 1 ELSE @,
                    !.residue = {},
                    !.noised  = FALSE,
                    !.pid     = NoId]
  BY <1>1 DEF RestoreIvonParameterMean, RestoreParamAverage, Optimizer
<1>3. PICK n : n = IF train THEN o.count + 1 ELSE o.count
  OBVIOUS
<1>4. n \in Nat /\ (train => n = 1)
  BY <1>3 DEF Perturbed, Optimizer
<1>5. s = [o EXCEPT !.count = n, !.residue = {}, !.noised = FALSE, !.pid = NoId]
  BY <1>2, <1>3
<1> QED
  BY <1>4, <1>5 DEF Optimizer, Bare

LEMMA StepIs ==
  ASSUME NEW ids, NEW o \in Optimizer(ids), o.count = 1, Bare(o), NEW s, s = Step(o)
  PROVE  /\ s \in Optimizer(ids) /\ Bare(s) /\ s.mean = o.mean + 1
         /\ s.generator = o.generator
<1>1. s = [o EXCEPT !.mean = o.mean + 1, !.hess = o.hess + 1, !.current = o.current + 1,
                    !.count = 0, !.genState = NoGen,
                    !.meta = [current |-> o.current + 1, generator |-> o.generator]]
  BY DEF Step, StepRefused, ResetSamples, SyncMetadata, Optimizer
<1>2. /\ o.mean + 1 \in Nat /\ o.hess + 1 \in Nat /\ o.current + 1 \in Nat
      /\ [current |-> o.current + 1, generator |-> o.generator]
           \in [current : Nat, generator : GenState]
  BY DEF Optimizer
<1>3. PICK m, h, c, d : /\ m = o.mean + 1 /\ h = o.hess + 1 /\ c = o.current + 1
                        /\ d = [current |-> o.current + 1, generator |-> o.generator]
  OBVIOUS
<1>4. s = [o EXCEPT !.mean = m, !.hess = h, !.current = c, !.count = 0, !.genState = NoGen,
                    !.meta = d]
  BY <1>1, <1>3
<1>5. s \in Optimizer(ids)
  <2>1. m \in Nat /\ h \in Nat /\ c \in Nat /\ d \in [current : Nat, generator : GenState]
    BY <1>2, <1>3
  <2>2. s = [mean |-> m, residue |-> o.residue, hess |-> h, generator |-> o.generator,
             genState |-> NoGen, noised |-> o.noised, pid |-> o.pid, count |-> 0,
             current |-> c, meta |-> d]
    BY <1>4 DEF Optimizer
  <2>3. /\ o.residue \in SUBSET SignedNoise /\ o.generator \in GenState
        /\ o.noised \in BOOLEAN /\ o.pid \in ids \union {NoId}
    BY DEF Optimizer
  <2> QED
    BY <2>1, <2>2, <2>3 DEF Optimizer
<1> QED
  BY <1>3, <1>4, <1>5 DEF Optimizer, Bare

LEMMA StateDictIs ==
  ASSUME NEW ids, NEW o \in Optimizer(ids)
  PROVE  /\ StateDict(o) \in SavedActor
         /\ StateDict(o).mean = o.mean /\ StateDict(o).residue = o.residue
         /\ StateDict(o).meta.generator = o.generator
<1>1. StateDict(o) =
        [mean |-> o.mean, residue |-> o.residue, hess |-> o.hess, count |-> o.count,
         meta |-> [current |-> o.current, generator |-> o.generator]]
  BY DEF StateDict, SyncMetadata, Optimizer
<1>2. [current |-> o.current, generator |-> o.generator]
         \in [current : Nat, generator : GenState]
  BY DEF Optimizer
<1> QED
  BY <1>1, <1>2 DEF SavedActor, Optimizer

LEMMA LoadIs ==
  ASSUME NEW ids, NEW o \in Optimizer(ids), NEW saved \in SavedActor,
         NEW s, s = LoadStateDict(o, saved)
  PROVE  /\ s \in Optimizer(ids) /\ s.noised = o.noised /\ s.residue = saved.residue
         /\ s.mean = saved.mean /\ s.generator = saved.meta.generator
<1>1. saved.meta \in [current : Nat, generator : GenState]
  BY DEF SavedActor
<1> QED
  BY <1>1 DEF LoadStateDict, Optimizer, SavedActor

-----------------------------------------------------------------------------
LEMMA SeedType ==
  ASSUME TypeOK, NEW r \in Ranks
  PROVE  /\ EvalSeedOf(r) \in Nat \union {NoSeed}
         /\ (EvalSeed # NoSeed => EvalSeedOf(r) # NoSeed)
<1>1. draw \in Nat /\ r \in Nat
  BY TrainerConstants DEF TypeOK, EvalDraws
<1>2. EvalSeed # NoSeed => EvalSeed + 1000 * draw + r \in Nat
  BY <1>1, TrainerConstants
<1> QED
  BY <1>2, TrainerConstants DEF EvalSeedOf

(* The bounds that the types promise.                                       *)
LEMMA Bounds ==
  ASSUME TypeOK, DriverInv, StepInv
  PROVE  /\ step \in Nat /\ tracker.step \in Nat /\ crashes \in Nat /\ draw \in Nat
         /\ EvalDraws \in Nat /\ MaxStep \in Nat /\ TotalSteps \in Nat /\ MaxCrashes \in Nat
         /\ crashes <= MaxCrashes /\ MaxStep = TotalSteps + MaxCrashes
         /\ pc \in StepPhases => step \in 1 .. MaxStep
         /\ pc \in Starting => step + 1 \in 1 .. MaxStep
<1>1. /\ step \in Nat /\ tracker.step \in Nat /\ crashes \in Nat /\ crashes <= MaxCrashes
      /\ TotalSteps \in Nat /\ MaxCrashes \in Nat
  BY TrainerConstants DEF TypeOK, MaxStep
<1>2. EvalDraws \in Nat
  BY TrainerConstants DEF TypeOK, EvalDraws
<1>3. draw \in Nat
  BY <1>2 DEF TypeOK
<1>4. pc \in StepPhases => step \in 1 .. MaxStep
  BY <1>1 DEF StepInv, MaxStep
<1>5. pc \in Starting => step <= tracker.step /\ tracker.step < TotalSteps + crashes
  BY <1>1 DEF StepInv, DriverInv, Starting
<1> QED
  BY <1>1, <1>2, <1>3, <1>4, <1>5 DEF MaxStep

LEMMA Names ==
  ASSUME TypeOK, DriverInv, StepInv
  PROVE  /\ pc = "sample" => PerturbationId \in PerturbationIds
         /\ pc = "eval_sample" => EvalId \in PerturbationIds
<1>1. pc \in StepPhases => step \in 1 .. MaxStep
  BY Bounds
<1>2. pc = "sample" => step \in 0 .. MaxStep /\ fbi.counter \in 0 .. MaxStep + 1
  BY <1>1, Bounds DEF StepPhases, DriverInv, Taken
<1>3. pc = "eval_sample" => step \in 0 .. MaxStep /\ draw \in 0 .. EvalDraws
  BY Bounds DEF Starting, EvalPhases, TypeOK
<1> QED
  BY <1>2, <1>3 DEF PerturbationId, EvalId, PerturbationIds

(* What is loaded.                                                          *)
LEMMA LoadedFiles ==
  ASSUME TypeOK, CheckpointCoherent, tracker.step # 0
  PROVE  LET saved == disk[tracker.step]
         IN  /\ \A r \in Ranks : saved.actor[r] \in SavedActor /\ saved.actor[r].residue = {}
             /\ saved.fb \in SavedFailures /\ saved.data \in Nat
             /\ saved.fb.commits \in Nat /\ saved.fb.counter \in Nat
<1>1. tracker.step \in 1 .. MaxStep
  BY TrainerConstants DEF TypeOK, MaxStep
<1>2. disk[tracker.step] \in Checkpoint
  BY <1>1 DEF TypeOK
<1>3. PICK saved : saved = disk[tracker.step]
  OBVIOUS
<1>4. CompleteCheckpoint(saved) /\ \A r \in Ranks : saved.actor[r].residue = {}
  BY <1>3 DEF CheckpointCoherent
<1>5. /\ \A r \in Ranks : saved.actor[r] \in SavedActor
      /\ saved.fb \in SavedFailures /\ saved.data \in Nat
  BY <1>2, <1>3, <1>4 DEF Checkpoint, CompleteCheckpoint
<1>6. saved.fb.commits \in Nat /\ saved.fb.counter \in Nat
  BY <1>5 DEF SavedFailures
<1> QED
  BY <1>3, <1>4, <1>5, <1>6

-----------------------------------------------------------------------------
LEMMA Fresh ==
  /\ NewOptimizers \in [Ranks -> Optimizer(PerturbationIds)] /\ NewWeights \in RankWeights
  /\ \A r \in Ranks : /\ Bare(NewOptimizers[r]) /\ NewOptimizers[r].mean = 0
                      /\ NewOptimizers[r].generator = [seed |-> TrainSeed + r, pos |-> 0]
<1>1. ASSUME NEW r \in Ranks
      PROVE  /\ NewOptimizers[r] \in Optimizer(PerturbationIds)
             /\ Bare(NewOptimizers[r]) /\ NewOptimizers[r].mean = 0
             /\ NewOptimizers[r].generator = [seed |-> TrainSeed + r, pos |-> 0]
             /\ NewWeights[r] \in [mean : Nat, residue : SUBSET SignedNoise]
  <2>1. TrainSeed + r \in Nat
    BY TrainerConstants
  <2>2. Seeded(TrainSeed + r) \in GenState
    BY <2>1 DEF Seeded, GenState
  <2>3. NewOptimizers[r] = NewOptimizer(TrainSeed + r)
    BY DEF NewOptimizers
  <2>4. NewOptimizer(TrainSeed + r) \in Optimizer(PerturbationIds)
    BY <2>2 DEF NewOptimizer, Optimizer
  <2> QED
    BY <2>3, <2>4 DEF NewOptimizer, Bare, Seeded, NewWeights, Contents, Optimizer
<1>2. /\ NewOptimizers \in [Ranks -> Optimizer(PerturbationIds)] /\ NewWeights \in RankWeights
  BY <1>1 DEF NewOptimizers, NewWeights, RankWeights
<1> QED
  BY <1>1, <1>2

LEMMA InitHolds == Init => IInv
<1> SUFFICES ASSUME Init PROVE IInv
  OBVIOUS
<1>1. \A r \in Ranks : /\ Bare(NewOptimizers[r]) /\ NewOptimizers[r].mean = 0
                      /\ NewOptimizers[r].generator = [seed |-> TrainSeed + r, pos |-> 0]
  BY Fresh
<1>2. /\ NewOptimizers \in [Ranks -> Optimizer(PerturbationIds)] /\ NewWeights \in RankWeights
  BY Fresh
<1>3. /\ MaxStep \in Nat /\ EvalDraws \in Nat /\ TotalSteps \in Nat /\ TotalSteps > 0
      /\ MaxCrashes \in Nat
  BY TrainerConstants DEF MaxStep, EvalDraws, Init
<1>4. TypeOK
  <2>1. EmptyCheckpoint \in Checkpoint
    BY DEF EmptyCheckpoint, Checkpoint
  <2>2. NewReplicas \in [awake : BOOLEAN, weights : RankWeights]
    BY <1>2 DEF NewReplicas
  <2>3. NewFBI \in [commits : Nat, pending : BOOLEAN, counter : Nat]
    BY DEF NewFBI
  <2>4. [step |-> 0, whole |-> TRUE] \in [step : 0 .. MaxStep, whole : BOOLEAN]
    BY <1>3
  <2> QED
    BY <1>2, <1>3, <2>1, <2>2, <2>3, <2>4 DEF Init, TypeOK
<1>5. /\ pc = "load" /\ step = 0 /\ data = 0 /\ draw = 0 /\ crashes = 0 /\ tracker.step = 0
      /\ fbi.counter = 0 /\ fbi.commits = 0 /\ ~fbi.pending /\ opt = NewOptimizers
  BY DEF Init, NewFBI
<1>6. ShapeInv
  BY <1>1, <1>5 DEF ShapeInv, Trains, Evaluates
<1>7. DriverInv
  BY <1>5 DEF DriverInv, Taken, EvalPhases
<1>8. StepInv
  BY <1>3, <1>5 DEF StepInv, StepPhases
<1>9. StreamInv
  BY <1>1, <1>5 DEF StreamInv, Drawn, Trains
<1>10. BatchInv
  BY <1>5 DEF BatchInv
<1>11. MeanInv
  BY <1>1, <1>5 DEF MeanInv, Due, Uncommitted
<1>12. SaveInv /\ CheckpointCoherent /\ GenerateSeesCurrent
  BY <1>5 DEF SaveInv, CheckpointCoherent, GenerateSeesCurrent
<1> QED
  BY <1>4, <1>6, <1>7, <1>8, <1>9, <1>10, <1>11, <1>12 DEF IInv

(* A crash leaves the state of a process that has just started.             *)
LEMMA AfterCrash ==
  ASSUME Crash
  PROVE  /\ pc' = "load" /\ step' = 0 /\ data' = 0 /\ draw' = 0 /\ crashes' = crashes + 1
         /\ fbi'.counter = 0 /\ fbi'.commits = 0 /\ ~fbi'.pending /\ opt' = NewOptimizers
         /\ UNCHANGED <<tracker, disk, job>> /\ todo' = {}
         /\ replicas' = NewReplicas /\ made' = NewWeights
         /\ grad' = [r \in Ranks |-> {}] /\ finite' = TRUE
         /\ fbi' = [commits |-> 0, pending |-> FALSE, counter |-> 0]
BY DEF Crash, NewFBI

(* The jobs do not change, so names stay names.                             *)
LEMMA JobKept ==
  ASSUME [Next]_vars
  PROVE  /\ job' = job /\ PerturbationIds' = PerturbationIds /\ EvalDraws' = EvalDraws
         /\ Frozen' = Frozen /\ StreamUntouched' = StreamUntouched
<1> USE DEF Next, DriverStep, RankStep, vars, volatile
<1>1. CASE DriverStep
  <2>1. CASE LoadFromScratch \/ LoadCheckpoint \/ LoadFails \/ FirstSync
    BY <2>1 DEF LoadFromScratch, LoadCheckpoint, LoadFails, FirstSync, PerturbationIds,
       EvalDraws, Frozen, StreamUntouched
  <2>2. CASE EvalSleep \/ EvalPush \/ EvalGenerate \/ EvalNext \/ EvalDone \/ Begin
    BY <2>2 DEF EvalSleep, EvalPush, EvalGenerate, EvalNext, EvalDone, Begin,
       PerturbationIds, EvalDraws, Frozen, StreamUntouched
  <2>3. CASE SleepReplicas \/ Push \/ Generate \/ ComputeAdvantages \/ GradNorm \/ Commit
    BY <2>3 DEF SleepReplicas, Push, Generate, ComputeAdvantages, GradNorm, Commit,
       PerturbationIds, EvalDraws, Frozen, StreamUntouched
  <2>4. CASE SaveFailureState \/ SaveData \/ OpenTracker \/ WriteTracker \/ Sync \/ Validate
    BY <2>4 DEF SaveFailureState, SaveData, OpenTracker, WriteTracker, Sync, Validate,
       PerturbationIds, EvalDraws, Frozen, StreamUntouched
  <2> QED
    BY <1>1, <2>1, <2>2, <2>3, <2>4
<1>2. CASE (\E r \in Ranks : RankStep(r)) \/ Crash \/ UNCHANGED vars
  BY <1>2 DEF EvalSample, EvalRestore, Sample, Backward, Optimize, SaveActor, Crash,
     PerturbationIds, EvalDraws, Frozen, StreamUntouched
<1> QED
  BY <1>1, <1>2

(* The rank that finishes its call, and the others.                         *)
LEMMA RankStepOpt ==
  ASSUME TypeOK, NEW r \in Ranks, RankStep(r), NEW q \in Ranks, q # r
  PROVE  opt'[q] = opt[q] /\ grad'[q] = grad[q]
<1>1. opt \in [Ranks -> Optimizer(PerturbationIds)] /\ DOMAIN grad = Ranks
  BY DEF TypeOK
<1> QED
  BY <1>1 DEF RankStep, EvalSample, EvalRestore, Sample, Backward, Optimize, SaveActor

(* What a remote call leaves on the rank that served it.                    *)
LEMMA EvalSampleIs ==
  ASSUME TypeOK, DriverInv, StepInv, ShapeInv, NEW r \in Ranks, EvalSample(r)
  PROVE  /\ opt'[r] \in Optimizer(PerturbationIds) /\ Perturbed(opt'[r], EvalId)
         /\ opt'[r].mean = opt[r].mean
         /\ EvalSeed # NoSeed => opt'[r].generator = opt[r].generator
<1>1. /\ pc = "eval_sample" /\ r \in todo /\ opt[r] \in Optimizer(PerturbationIds)
      /\ opt'[r] = SampleIvonParameters(opt[r], EvalId, EvalSeedOf(r))
  BY DEF EvalSample, RankDone, TypeOK
<1>2. Bare(opt[r])
  BY <1>1 DEF ShapeInv, Trains, Evaluates
<1>3. EvalId \in PerturbationIds /\ EvalSeedOf(r) \in Nat \union {NoSeed}
      /\ (EvalSeed # NoSeed => EvalSeedOf(r) # NoSeed)
  BY <1>1, Names, SeedType
<1>4. PICK s, o, i, d : /\ s = SampleIvonParameters(o, i, d) /\ o = opt[r]
                        /\ i = EvalId /\ d = EvalSeedOf(r)
  OBVIOUS
<1>5. /\ s \in Optimizer(PerturbationIds) /\ Perturbed(s, i) /\ s.mean = o.mean
      /\ (d # NoSeed => s.generator = o.generator)
  <2>1. /\ o \in Optimizer(PerturbationIds) /\ Bare(o) /\ i \in PerturbationIds
        /\ d \in Nat \union {NoSeed}
    BY <1>1, <1>2, <1>3, <1>4
  <2>2. /\ SampleIvonParameters(o, i, d) \in Optimizer(PerturbationIds)
        /\ Perturbed(SampleIvonParameters(o, i, d), i)
        /\ SampleIvonParameters(o, i, d).mean = o.mean
        /\ d # NoSeed => SampleIvonParameters(o, i, d).generator = o.generator
    BY <2>1, SampleIs
  <2> QED
    BY <1>4, <2>1, <2>2
<1> QED
  BY <1>1, <1>3, <1>4, <1>5

LEMMA SampleStepIs ==
  ASSUME TypeOK, DriverInv, StepInv, ShapeInv, NEW r \in Ranks, Sample(r)
  PROVE  /\ opt'[r] \in Optimizer(PerturbationIds) /\ Perturbed(opt'[r], PerturbationId)
         /\ opt'[r].mean = opt[r].mean
         /\ opt'[r].generator = Advance(opt[r].generator)
         /\ opt'[r].genState = opt[r].generator
<1>1. /\ pc = "sample" /\ r \in todo /\ opt[r] \in Optimizer(PerturbationIds)
      /\ opt'[r] = SampleIvonParameters(opt[r], PerturbationId, NoSeed)
  BY DEF Sample, RankDone, TypeOK
<1>2. Bare(opt[r])
  BY <1>1 DEF ShapeInv, Trains, Evaluates
<1>3. PerturbationId \in PerturbationIds
  BY <1>1, Names
<1>4. PICK s, o, i, d : /\ s = SampleIvonParameters(o, i, d) /\ o = opt[r]
                        /\ i = PerturbationId /\ d = NoSeed
  OBVIOUS
<1>5. /\ s \in Optimizer(PerturbationIds) /\ Perturbed(s, i) /\ s.mean = o.mean
      /\ s.generator = Advance(o.generator) /\ s.genState = o.generator
  <2>1. /\ o \in Optimizer(PerturbationIds) /\ Bare(o) /\ i \in PerturbationIds
        /\ d \in Nat \union {NoSeed} /\ d = NoSeed
    BY <1>1, <1>2, <1>3, <1>4
  <2>2. /\ SampleIvonParameters(o, i, d) \in Optimizer(PerturbationIds)
        /\ Perturbed(SampleIvonParameters(o, i, d), i)
        /\ SampleIvonParameters(o, i, d).mean = o.mean
        /\ d = NoSeed => /\ SampleIvonParameters(o, i, d).generator = Advance(o.generator)
                         /\ SampleIvonParameters(o, i, d).genState = o.generator
    BY <2>1, SampleIs
  <2> QED
    BY <1>4, <2>1, <2>2
<1> QED
  BY <1>1, <1>4, <1>5

LEMMA EvalRestoreIs ==
  ASSUME TypeOK, ShapeInv, NEW r \in Ranks, EvalRestore(r)
  PROVE  /\ opt'[r] \in Optimizer(PerturbationIds) /\ Bare(opt'[r])
         /\ opt'[r].mean = opt[r].mean /\ opt'[r].generator = opt[r].generator
<1>1. /\ pc = "eval_restore" /\ r \in todo /\ opt[r] \in Optimizer(PerturbationIds)
      /\ opt'[r] = RestoreIvonParameterMean(opt[r], FALSE)
  BY DEF EvalRestore, RankDone, TypeOK
<1>2. Perturbed(opt[r], EvalId)
  BY <1>1 DEF ShapeInv, Evaluates
<1>3. PICK s : s = RestoreIvonParameterMean(opt[r], FALSE)
  OBVIOUS
<1>4. /\ s \in Optimizer(PerturbationIds) /\ Bare(s) /\ s.mean = opt[r].mean
      /\ s.generator = opt[r].generator
  BY <1>1, <1>2, <1>3, RestoreIs
<1> QED
  BY <1>1, <1>3, <1>4

LEMMA BackwardIs ==
  ASSUME TypeOK, ShapeInv, NEW r \in Ranks, Backward(r)
  PROVE  /\ opt'[r] \in Optimizer(PerturbationIds) /\ Bare(opt'[r])
         /\ opt'[r].mean = opt[r].mean /\ opt'[r].generator = opt[r].generator
         /\ opt'[r].count = 1 /\ grad'[r] = {opt[r].residue}
<1>1. /\ pc = "backward" /\ r \in todo /\ opt[r] \in Optimizer(PerturbationIds)
      /\ opt'[r] = RestoreIvonParameterMean(opt[r], TRUE) /\ grad'[r] = {opt[r].residue}
  BY DEF Backward, RankDone, TypeOK
<1>2. Perturbed(opt[r], PerturbationId)
  BY <1>1 DEF ShapeInv, Trains
<1>3. PICK s : s = RestoreIvonParameterMean(opt[r], TRUE)
  OBVIOUS
<1>4. /\ s \in Optimizer(PerturbationIds) /\ Bare(s) /\ s.mean = opt[r].mean
      /\ s.generator = opt[r].generator /\ s.count = 1
  BY <1>1, <1>2, <1>3, RestoreIs
<1> QED
  BY <1>1, <1>3, <1>4

LEMMA OptimizeIs ==
  ASSUME TypeOK, ShapeInv, BatchInv, NEW r \in Ranks, Optimize(r)
  PROVE  /\ opt'[r] \in Optimizer(PerturbationIds) /\ Bare(opt'[r])
         /\ opt'[r].mean = opt[r].mean + (IF finite THEN 1 ELSE 0)
         /\ opt'[r].generator = opt[r].generator
<1>1. /\ pc = "optimize" /\ r \in todo /\ opt[r] \in Optimizer(PerturbationIds)
      /\ opt'[r] = IF finite THEN Step(opt[r]) ELSE opt[r]
  BY DEF Optimize, RankDone, TypeOK
<1>2. Bare(opt[r]) /\ opt[r].count = 1 /\ opt[r].mean \in Nat
  BY <1>1 DEF ShapeInv, Trains, Evaluates, BatchInv, Optimizer
<1> QED
  BY <1>1, <1>2, StepIs

LEMMA LoadCheckpointIs ==
  ASSUME TypeOK, ShapeInv, CheckpointCoherent, LoadCheckpoint
  PROVE  LET saved == disk[tracker.step]
         IN  /\ opt' \in [Ranks -> Optimizer(PerturbationIds)]
             /\ \A r \in Ranks :
                  /\ Bare(opt'[r]) /\ opt'[r].mean = saved.actor[r].mean
                  /\ opt'[r].generator = saved.actor[r].meta.generator
             /\ fbi'.commits = saved.fb.commits /\ fbi'.counter = saved.fb.counter
             /\ fbi'.pending = fbi.pending /\ data' = saved.data
             /\ fbi' \in [commits : Nat, pending : BOOLEAN, counter : Nat] /\ data' \in Nat
<1>1. PICK saved : saved = disk[tracker.step]
  OBVIOUS
<1>2. /\ \A r \in Ranks : saved.actor[r] \in SavedActor /\ saved.actor[r].residue = {}
      /\ saved.data \in Nat /\ saved.fb.commits \in Nat /\ saved.fb.counter \in Nat
  BY <1>1, LoadedFiles DEF LoadCheckpoint
<1>3. /\ opt' = [r \in Ranks |-> LoadStateDict(opt[r], saved.actor[r])]
      /\ fbi' = [fbi EXCEPT !.commits = saved.fb.commits, !.counter = saved.fb.counter]
      /\ data' = saved.data /\ pc = "load"
  BY <1>1 DEF LoadCheckpoint
<1>4. ASSUME NEW r \in Ranks
      PROVE  /\ opt'[r] \in Optimizer(PerturbationIds) /\ Bare(opt'[r])
             /\ opt'[r].mean = saved.actor[r].mean
             /\ opt'[r].generator = saved.actor[r].meta.generator
  <2>1. opt[r] \in Optimizer(PerturbationIds) /\ Bare(opt[r])
    BY <1>3 DEF TypeOK, ShapeInv, Trains, Evaluates
  <2>2. opt'[r] = LoadStateDict(opt[r], saved.actor[r])
    BY <1>3
  <2> QED
    BY <1>2, <2>1, <2>2, LoadIs DEF Bare
<1>5. opt' \in [Ranks -> Optimizer(PerturbationIds)]
  BY <1>3, <1>4
<1>6. /\ fbi' \in [commits : Nat, pending : BOOLEAN, counter : Nat]
      /\ fbi'.commits = saved.fb.commits /\ fbi'.counter = saved.fb.counter
      /\ fbi'.pending = fbi.pending
  BY <1>2, <1>3 DEF TypeOK
<1> QED
  BY <1>1, <1>2, <1>3, <1>4, <1>5, <1>6

-----------------------------------------------------------------------------
(* The invariant, part by part.                                             *)
LEMMA ShapeStep ==
  ASSUME IInv, [Next]_vars
  PROVE  ShapeInv'
<1> USE DEF Call, RankDone, volatile
<1>1. TypeOK /\ ShapeInv /\ DriverInv /\ StepInv /\ BatchInv /\ CheckpointCoherent
  BY DEF IInv
<1>2. ASSUME NEW r \in Ranks, RankStep(r)
      PROVE  ShapeInv'
  <2>1. \A q \in Ranks : q # r => opt'[q] = opt[q]
    BY <1>1, <1>2, RankStepOpt
  <2>2. PerturbationId' = PerturbationId /\ EvalId' = EvalId
    BY <1>2 DEF RankStep, EvalSample, EvalRestore, Sample, Backward, Optimize, SaveActor,
       PerturbationId, EvalId
  <2>3. ASSUME NEW q \in Ranks, q # r
        PROVE  (Trains(q)' <=> Trains(q)) /\ (Evaluates(q)' <=> Evaluates(q))
    <3>1. CASE EvalSample(r)
      BY <2>3, <3>1 DEF EvalSample, Trains, Evaluates
    <3>2. CASE EvalRestore(r)
      BY <2>3, <3>2 DEF EvalRestore, Trains, Evaluates
    <3>3. CASE Sample(r)
      BY <2>3, <3>3 DEF Sample, Trains, Evaluates
    <3>4. CASE Backward(r)
      BY <2>3, <3>4 DEF Backward, Trains, Evaluates
    <3>5. CASE Optimize(r)
      BY <2>3, <3>5 DEF Optimize, Trains, Evaluates
    <3>6. CASE SaveActor(r)
      BY <2>3, <3>6 DEF SaveActor, Trains, Evaluates
    <3> QED
      BY <1>2, <3>1, <3>2, <3>3, <3>4, <3>5, <3>6 DEF RankStep
  <2>4. ASSUME NEW q \in Ranks, q # r
        PROVE  /\ Trains(q)' => Perturbed(opt'[q], PerturbationId)
               /\ Evaluates(q)' => Perturbed(opt'[q], EvalId)
               /\ ~Trains(q)' /\ ~Evaluates(q)' => Bare(opt'[q])
    BY <1>1, <2>1, <2>3, <2>4 DEF ShapeInv
  <2>5. /\ Trains(r)' => Perturbed(opt'[r], PerturbationId)
        /\ Evaluates(r)' => Perturbed(opt'[r], EvalId)
        /\ ~Trains(r)' /\ ~Evaluates(r)' => Bare(opt'[r])
    <3>1. CASE EvalSample(r)
      BY <1>1, <3>1, EvalSampleIs DEF EvalSample, Trains, Evaluates
    <3>2. CASE EvalRestore(r)
      BY <1>1, <3>2, EvalRestoreIs DEF EvalRestore, Trains, Evaluates
    <3>3. CASE Sample(r)
      BY <1>1, <3>3, SampleStepIs DEF Sample, Trains, Evaluates
    <3>4. CASE Backward(r)
      BY <1>1, <3>4, BackwardIs DEF Backward, Trains, Evaluates
    <3>5. CASE Optimize(r)
      BY <1>1, <3>5, OptimizeIs DEF Optimize, Trains, Evaluates
    <3>6. CASE SaveActor(r)
      <4>1. opt' = opt /\ ~Trains(r) /\ ~Evaluates(r) /\ ~Trains(r)' /\ ~Evaluates(r)'
        BY <3>6 DEF SaveActor, Trains, Evaluates
      <4> QED
        BY <1>1, <4>1 DEF ShapeInv
    <3> QED
      BY <1>2, <3>1, <3>2, <3>3, <3>4, <3>5, <3>6 DEF RankStep
  <2>6. \A q \in Ranks : /\ Trains(q)' => Perturbed(opt'[q], PerturbationId')
                         /\ Evaluates(q)' => Perturbed(opt'[q], EvalId')
                         /\ ~Trains(q)' /\ ~Evaluates(q)' => Bare(opt'[q])
    BY <2>2, <2>4, <2>5
  <2> QED
    BY <2>6 DEF ShapeInv, Perturbed, Bare, Regenerated
<1>3. CASE LoadCheckpoint
  <2>1. \A r \in Ranks : Bare(opt'[r])
    BY <1>1, <1>3, LoadCheckpointIs
  <2>2. \A r \in Ranks : ~Trains(r)' /\ ~Evaluates(r)'
    BY <1>3 DEF LoadCheckpoint, Trains, Evaluates
  <2> QED
    BY <2>1, <2>2 DEF ShapeInv, Bare
<1>4. CASE Crash
  <2>1. \A r \in Ranks : Bare(opt'[r])
    BY <1>4, AfterCrash, Fresh
  <2>2. \A r \in Ranks : ~Trains(r)' /\ ~Evaluates(r)'
    BY <1>4 DEF Crash, Trains, Evaluates
  <2> QED
    BY <2>1, <2>2 DEF ShapeInv, Bare
<1>5. ASSUME opt' = opt,
             \A r \in Ranks :
               /\ Trains(r)' => Trains(r) /\ PerturbationId' = PerturbationId
               /\ Evaluates(r)' => Evaluates(r) /\ EvalId' = EvalId
               /\ ~Trains(r)' /\ ~Evaluates(r)' => ~Trains(r) /\ ~Evaluates(r)
      PROVE  ShapeInv'
  <2>1. \A r \in Ranks : /\ Trains(r)' => Perturbed(opt'[r], PerturbationId')
                         /\ Evaluates(r)' => Perturbed(opt'[r], EvalId')
                         /\ ~Trains(r)' /\ ~Evaluates(r)' => Bare(opt'[r])
    BY <1>1, <1>5 DEF ShapeInv
  <2> QED
    BY <2>1 DEF ShapeInv, Perturbed, Bare, Regenerated
<1>6. CASE LoadFromScratch \/ LoadFails \/ FirstSync \/ EvalNext \/ EvalDone \/ Validate
  BY <1>5, <1>6 DEF LoadFromScratch, LoadFails, FirstSync, EvalNext, EvalDone, Validate,
     Trains, Evaluates
<1>7. CASE EvalSleep \/ EvalPush \/ EvalGenerate \/ SleepReplicas \/ Push \/ Generate
  BY <1>5, <1>7 DEF EvalSleep, EvalPush, EvalGenerate, SleepReplicas, Push, Generate,
     Trains, Evaluates, PerturbationId, EvalId
<1>8. CASE Begin \/ ComputeAdvantages \/ GradNorm \/ Commit
  <2>1. CASE Begin
    BY <1>5, <2>1 DEF Begin, Trains, Evaluates
  <2>2. CASE ComputeAdvantages
    <3>1. fbi'.counter = fbi.counter
      BY <1>1, <2>2 DEF ComputeAdvantages, TypeOK
    <3>2. PerturbationId' = PerturbationId
      BY <2>2, <3>1 DEF ComputeAdvantages, PerturbationId
    <3> QED
      BY <1>5, <2>2, <3>2 DEF ComputeAdvantages, Trains, Evaluates
  <2>3. CASE GradNorm
    BY <1>5, <2>3 DEF GradNorm, Trains, Evaluates
  <2>4. CASE Commit
    BY <1>5, <2>4 DEF Commit, NextPhase, Trains, Evaluates
  <2> QED
    BY <1>8, <2>1, <2>2, <2>3, <2>4
<1>9. CASE SaveFailureState \/ SaveData \/ OpenTracker \/ WriteTracker \/ Sync
  BY <1>5, <1>9 DEF SaveFailureState, SaveData, OpenTracker, WriteTracker, Sync,
     Trains, Evaluates, PerturbationId, EvalId
<1>10. CASE UNCHANGED vars
  BY <1>5, <1>10 DEF vars, Trains, Evaluates, PerturbationId, EvalId
<1> QED
  BY <1>2, <1>3, <1>4, <1>6, <1>7, <1>8, <1>9, <1>10 DEF Next, DriverStep


LEMMA DriverStepInv ==
  ASSUME IInv, [Next]_vars
  PROVE  DriverInv' /\ StepInv'
<1> USE DEF Call, RankDone, volatile, DriverInv, StepInv, Taken, Starting, EvalPhases,
            StepPhases
<1>1. TypeOK /\ ShapeInv /\ DriverInv /\ StepInv /\ CheckpointCoherent
  BY DEF IInv
<1>2. /\ step \in Nat /\ tracker.step \in Nat /\ crashes \in Nat /\ TotalSteps \in Nat
      /\ EvalDraws' = EvalDraws /\ EvalDraws \in Nat /\ draw \in Nat /\ TotalSteps > 0
  BY <1>1, Bounds, JobKept, TrainerConstants
<1>3. fbi \in [commits : Nat, pending : BOOLEAN, counter : Nat] /\ data \in Nat
  BY <1>1 DEF TypeOK
<1>4. ASSUME NEW r \in Ranks, RankStep(r)
      PROVE  DriverInv' /\ StepInv'
  <2>1. UNCHANGED <<step, fbi, data, draw, tracker, crashes>>
    BY <1>4 DEF RankStep, EvalSample, EvalRestore, Sample, Backward, Optimize, SaveActor
  <2>2. CASE EvalSample(r) \/ EvalRestore(r)
    BY <1>1, <1>2, <2>1, <2>2 DEF EvalSample, EvalRestore
  <2>3. CASE Sample(r)
    BY <1>1, <1>2, <2>1, <2>3 DEF Sample
  <2>4. CASE Backward(r)
    BY <1>1, <1>2, <2>1, <2>4 DEF Backward
  <2>5. CASE Optimize(r)
    BY <1>1, <1>2, <2>1, <2>5 DEF Optimize
  <2>6. CASE SaveActor(r)
    BY <1>1, <1>2, <2>1, <2>6 DEF SaveActor
  <2> QED
    BY <1>4, <2>2, <2>3, <2>4, <2>5, <2>6 DEF RankStep
<1>5. CASE LoadCheckpoint
  <2>1. /\ fbi'.counter = tracker.step /\ data' = tracker.step /\ ~fbi'.pending
        /\ step' = tracker.step /\ pc' = "first_sync" /\ pc = "load"
        /\ UNCHANGED <<tracker, draw, crashes>>
    BY <1>1, <1>5, LoadCheckpointIs DEF LoadCheckpoint, CheckpointCoherent
  <2> QED
    BY <1>1, <1>2, <2>1
<1>6. CASE Crash
  <2>1. tracker.step < TotalSteps + (crashes + 1)
    BY <1>1, <1>2, <1>6 DEF Crash, TypeOK
  <2> QED
    BY <1>1, <1>2, <1>6, <2>1, AfterCrash
<1>7. CASE LoadFromScratch
  BY <1>1, <1>2, <1>7 DEF LoadFromScratch
<1>8. CASE LoadFails
  BY <1>1, <1>2, <1>8 DEF LoadFails
<1>9. CASE FirstSync
  BY <1>1, <1>2, <1>9 DEF FirstSync
<1>10. CASE EvalSleep \/ EvalPush \/ EvalGenerate
  BY <1>1, <1>2, <1>10 DEF EvalSleep, EvalPush, EvalGenerate
<1>11. CASE EvalNext
  BY <1>1, <1>2, <1>11 DEF EvalNext
<1>12. CASE EvalDone
  BY <1>1, <1>2, <1>12 DEF EvalDone
<1>13. CASE Begin
  <2>1. /\ fbi'.counter = fbi.counter + 1 /\ fbi'.pending = fbi.pending /\ data' = data + 1
        /\ pc = "begin" /\ pc' = "sample"
        /\ UNCHANGED <<step, draw, tracker, crashes>>
    BY <1>3, <1>13 DEF Begin
  <2> QED
    BY <1>1, <1>2, <2>1
<1>14. CASE SleepReplicas \/ Push \/ Generate \/ GradNorm
  BY <1>1, <1>2, <1>14 DEF SleepReplicas, Push, Generate, GradNorm
<1>15. CASE ComputeAdvantages
  <2>1. /\ fbi'.counter = fbi.counter /\ fbi'.pending /\ data' = data
        /\ pc = "advantage" /\ pc' = "backward"
        /\ UNCHANGED <<step, draw, tracker, crashes>>
    BY <1>3, <1>15 DEF ComputeAdvantages
  <2> QED
    BY <1>1, <1>2, <2>1
<1>16. CASE Commit
  <2>1. /\ fbi'.counter = fbi.counter /\ ~fbi'.pending /\ data' = data
        /\ pc = "commit" /\ pc' \in {"save_actor", "sync"}
        /\ UNCHANGED <<step, draw, tracker, crashes>>
    BY <1>3, <1>16 DEF Commit, NextPhase
  <2> QED
    BY <1>1, <1>2, <2>1
<1>17. CASE SaveFailureState \/ SaveData
  BY <1>1, <1>2, <1>17 DEF SaveFailureState, SaveData
<1>18. CASE OpenTracker
  <2>1. /\ tracker'.step = tracker.step /\ pc = "open_tracker" /\ pc' = "write_tracker"
        /\ UNCHANGED <<step, draw, fbi, data, crashes>>
    BY <1>1, <1>18 DEF OpenTracker, TypeOK
  <2> QED
    BY <1>1, <1>2, <2>1
<1>19. CASE WriteTracker
  BY <1>1, <1>2, <1>19 DEF WriteTracker
<1>20. CASE Sync
  BY <1>1, <1>2, <1>20 DEF Sync
<1>21. CASE Validate
  BY <1>1, <1>2, <1>21 DEF Validate
<1>22. CASE UNCHANGED vars
  <2>1. UNCHANGED <<pc, step, fbi, data, draw, tracker, crashes>>
    BY <1>22 DEF vars
  <2> QED
    BY <1>1, <1>2, <2>1
<1> QED
  BY <1>4, <1>5, <1>6, <1>7, <1>8, <1>9, <1>10, <1>11, <1>12, <1>13, <1>14, <1>15, <1>16,
     <1>17, <1>18, <1>19, <1>20, <1>21, <1>22 DEF Next, DriverStep

(* A step of the stream of one rank.                                        *)
LEMMA StreamStep ==
  ASSUME IInv, [Next]_vars
  PROVE  StreamInv'
<1> USE DEF Call, RankDone, volatile
<1>1. TypeOK /\ ShapeInv /\ DriverInv /\ StepInv /\ BatchInv /\ StreamInv /\ CheckpointCoherent
  BY DEF IInv
<1>2. step \in Nat /\ EvalDraws \in Nat /\ draw \in Nat
  BY <1>1, Bounds
<1>3. SUFFICES ASSUME StreamUntouched PROVE
        \A r \in Ranks :
          /\ opt'[r].generator = [seed |-> TrainSeed + r, pos |-> Drawn(r)']
          /\ Trains(r)' => opt'[r].genState = [seed |-> TrainSeed + r, pos |-> step' - 1]
  BY JobKept DEF StreamInv
<1>4. \A r \in Ranks :
        /\ opt[r].generator = [seed |-> TrainSeed + r, pos |-> Drawn(r)]
        /\ Trains(r) => opt[r].genState = [seed |-> TrainSeed + r, pos |-> step - 1]
  BY <1>1, <1>3 DEF StreamInv
<1>5. ASSUME NEW r \in Ranks, RankStep(r), NEW q \in Ranks
      PROVE  /\ opt'[q].generator = [seed |-> TrainSeed + q, pos |-> Drawn(q)']
             /\ Trains(q)' => opt'[q].genState = [seed |-> TrainSeed + q, pos |-> step' - 1]
  <2>1. CASE q # r
    <3>1. opt'[q] = opt[q]
      BY <1>1, <1>5, <2>1, RankStepOpt
    <3>2. (Trains(q)' => Trains(q)) /\ Drawn(q)' = Drawn(q) /\ step' = step
      <4>1. CASE EvalSample(r)
        BY <2>1, <4>1 DEF EvalSample, Trains, Drawn
      <4>2. CASE EvalRestore(r)
        BY <2>1, <4>2 DEF EvalRestore, Trains, Drawn
      <4>3. CASE Sample(r)
        BY <2>1, <4>3 DEF Sample, Trains, Drawn
      <4>4. CASE Backward(r)
        BY <2>1, <4>4 DEF Backward, Trains, Drawn
      <4>5. CASE Optimize(r)
        BY <2>1, <4>5 DEF Optimize, Trains, Drawn
      <4>6. CASE SaveActor(r)
        BY <2>1, <4>6 DEF SaveActor, Trains, Drawn
      <4> QED
        BY <1>5, <4>1, <4>2, <4>3, <4>4, <4>5, <4>6 DEF RankStep
    <3> QED
      BY <1>4, <3>1, <3>2
  <2>2. CASE q = r
    <3>1. CASE EvalSample(r)
      <4>1. EvalSeed # NoSeed
        BY <1>1, <1>2, <1>3, <3>1 DEF StreamUntouched, DriverInv, EvalSample, EvalPhases
      <4>2. opt'[r].generator = opt[r].generator
        BY <1>1, <3>1, <4>1, EvalSampleIs
      <4>3. Drawn(r)' = Drawn(r) /\ ~Trains(r)'
        BY <3>1 DEF EvalSample, Drawn, Trains
      <4> QED
        BY <1>4, <2>2, <4>2, <4>3
    <3>2. CASE EvalRestore(r)
      <4>1. opt'[r].generator = opt[r].generator
        BY <1>1, <3>2, EvalRestoreIs
      <4>2. Drawn(r)' = Drawn(r) /\ ~Trains(r)'
        BY <3>2 DEF EvalRestore, Drawn, Trains
      <4> QED
        BY <1>4, <2>2, <4>1, <4>2
    <3>3. CASE Sample(r)
      <4>1. /\ opt'[r].generator = Advance(opt[r].generator)
            /\ opt'[r].genState = opt[r].generator
        BY <1>1, <3>3, SampleStepIs
      <4>2. Drawn(r) = step - 1 /\ Drawn(r)' = step /\ step' = step
        BY <3>3 DEF Sample, Drawn
      <4>3. opt[r].generator = [seed |-> TrainSeed + r, pos |-> step - 1]
        BY <1>4, <4>2
      <4>4. Advance(opt[r].generator) = [seed |-> TrainSeed + r, pos |-> step]
        BY <1>2, <4>3 DEF Advance
      <4> QED
        BY <2>2, <4>1, <4>2, <4>3, <4>4
    <3>4. CASE Backward(r)
      <4>1. opt'[r].generator = opt[r].generator
        BY <1>1, <3>4, BackwardIs
      <4>2. Drawn(r)' = Drawn(r) /\ ~Trains(r)'
        BY <3>4 DEF Backward, Drawn, Trains
      <4> QED
        BY <1>4, <2>2, <4>1, <4>2
    <3>5. CASE Optimize(r)
      <4>1. opt'[r].generator = opt[r].generator
        BY <1>1, <3>5, OptimizeIs
      <4>2. Drawn(r)' = Drawn(r) /\ ~Trains(r)'
        BY <3>5 DEF Optimize, Drawn, Trains
      <4> QED
        BY <1>4, <2>2, <4>1, <4>2
    <3>6. CASE SaveActor(r)
      <4>1. opt' = opt /\ Drawn(r)' = Drawn(r) /\ ~Trains(r)'
        BY <3>6 DEF SaveActor, Drawn, Trains
      <4> QED
        BY <1>4, <2>2, <4>1
    <3> QED
      BY <1>5, <3>1, <3>2, <3>3, <3>4, <3>5, <3>6 DEF RankStep
  <2> QED
    BY <2>1, <2>2
<1>6. CASE LoadCheckpoint
  <2>1. /\ \A r \in Ranks : opt'[r].generator = [seed |-> TrainSeed + r, pos |-> tracker.step]
        /\ step' = tracker.step /\ pc' = "first_sync"
    BY <1>1, <1>3, <1>6, LoadCheckpointIs DEF LoadCheckpoint, CheckpointCoherent
  <2>2. \A r \in Ranks : Drawn(r)' = tracker.step /\ ~Trains(r)'
    BY <2>1 DEF Drawn, Trains
  <2> QED
    BY <2>1, <2>2
<1>7. CASE Crash
  <2>1. \A r \in Ranks : opt'[r].generator = [seed |-> TrainSeed + r, pos |-> 0]
    BY <1>7, AfterCrash, Fresh
  <2>2. \A r \in Ranks : Drawn(r)' = 0 /\ ~Trains(r)'
    BY <1>7, AfterCrash DEF Drawn, Trains
  <2> QED
    BY <2>1, <2>2
<1>8. ASSUME opt' = opt, \A r \in Ranks : /\ Drawn(r)' = Drawn(r)
                                          /\ Trains(r)' => Trains(r) /\ step' = step
      PROVE  \A r \in Ranks :
               /\ opt'[r].generator = [seed |-> TrainSeed + r, pos |-> Drawn(r)']
               /\ Trains(r)' => opt'[r].genState = [seed |-> TrainSeed + r, pos |-> step' - 1]
  BY <1>4, <1>8
<1>9. CASE LoadFromScratch \/ LoadFails
  BY <1>8, <1>9 DEF LoadFromScratch, LoadFails, Trains, Drawn
<1>10. CASE FirstSync \/ EvalNext \/ EvalDone \/ Validate
  <2>1. CASE FirstSync
    BY <1>2, <1>8, <2>1 DEF FirstSync, Trains, Drawn
  <2>2. CASE EvalNext
    BY <1>8, <2>2 DEF EvalNext, Trains, Drawn
  <2>3. CASE EvalDone
    BY <1>2, <1>8, <2>3 DEF EvalDone, Trains, Drawn
  <2>4. CASE Validate
    BY <1>2, <1>8, <2>4 DEF Validate, Trains, Drawn
  <2> QED
    BY <1>10, <2>1, <2>2, <2>3, <2>4
<1>11. CASE EvalSleep \/ EvalPush \/ EvalGenerate \/ SleepReplicas \/ Push \/ Generate
  BY <1>8, <1>11 DEF EvalSleep, EvalPush, EvalGenerate, SleepReplicas, Push, Generate,
     Trains, Drawn
<1>12. CASE Begin
  BY <1>8, <1>12 DEF Begin, Trains, Drawn
<1>13. CASE ComputeAdvantages \/ GradNorm
  BY <1>8, <1>13 DEF ComputeAdvantages, GradNorm, Trains, Drawn
<1>14. CASE Commit
  BY <1>8, <1>14 DEF Commit, NextPhase, Trains, Drawn
<1>15. CASE SaveFailureState \/ SaveData \/ OpenTracker \/ WriteTracker \/ Sync
  BY <1>8, <1>15 DEF SaveFailureState, SaveData, OpenTracker, WriteTracker, Sync,
     Trains, Drawn
<1>16. CASE UNCHANGED vars
  BY <1>8, <1>16 DEF vars, Trains, Drawn
<1> QED
  BY <1>5, <1>6, <1>7, <1>9, <1>10, <1>11, <1>12, <1>13, <1>14, <1>15, <1>16
     DEF Next, DriverStep


LEMMA BatchStep ==
  ASSUME IInv, [Next]_vars
  PROVE  BatchInv'
<1> USE DEF Call, RankDone, volatile
<1>1. TypeOK /\ ShapeInv /\ BatchInv /\ GenerateSeesCurrent
  BY DEF IInv
<1>2. ASSUME NEW r \in Ranks, RankStep(r)
      PROVE  BatchInv'
  <2>1. UNCHANGED <<made, finite>>
    BY <1>2 DEF RankStep, EvalSample, EvalRestore, Sample, Backward, Optimize, SaveActor
  <2>2. \A q \in Ranks : q # r => opt'[q] = opt[q] /\ grad'[q] = grad[q]
    BY <1>1, <1>2, RankStepOpt
  <2>3. CASE EvalSample(r) \/ EvalRestore(r) \/ Sample(r) \/ SaveActor(r)
    BY <2>3 DEF EvalSample, EvalRestore, Sample, SaveActor, BatchInv
  <2>4. CASE Backward(r)
    <3>1. Contents(opt[r]) = made[r]
      BY <1>1, <2>4 DEF Backward, BatchInv
    <3>2. /\ grad'[r] = {made[r].residue} /\ opt'[r].mean = made[r].mean /\ opt'[r].count = 1
      BY <1>1, <2>4, <3>1, BackwardIs DEF Contents
    <3>3. /\ pc = "backward" /\ pc' \in {"backward", "norm"} /\ todo' = todo \ {r}
          /\ pc' = "norm" => todo' = {}
          /\ made' = made
      BY <2>1, <2>4 DEF Backward
    <3>4. ASSUME NEW q \in Ranks
          PROVE  /\ q \in todo' => Contents(opt[q])' = made'[q]
                 /\ q \notin todo' => /\ grad'[q] = {made'[q].residue}
                                     /\ opt'[q].mean = made'[q].mean /\ opt'[q].count = 1
      <4>1. CASE q = r
        BY <3>2, <3>3, <4>1
      <4>2. CASE q # r
        <5>1. /\ q \in todo => Contents(opt[q]) = made[q]
              /\ q \notin todo => /\ grad[q] = {made[q].residue}
                                  /\ opt[q].mean = made[q].mean /\ opt[q].count = 1
          BY <1>1, <3>3 DEF BatchInv
        <5>2. opt'[q] = opt[q] /\ grad'[q] = grad[q] /\ (q \in todo' <=> q \in todo)
          BY <2>2, <3>3, <4>2
        <5> QED
          BY <3>3, <5>1, <5>2 DEF Contents
      <4> QED
        BY <4>1, <4>2
    <3> QED
      BY <3>3, <3>4 DEF BatchInv
  <2>5. CASE Optimize(r)
    <3>1. opt'[r].mean = made[r].mean + (IF finite THEN 1 ELSE 0)
      BY <1>1, <2>5, OptimizeIs DEF Optimize, BatchInv
    <3> QED
      BY <1>1, <2>1, <2>2, <2>5, <3>1 DEF Optimize, BatchInv
  <2> QED
    BY <1>2, <2>3, <2>4, <2>5 DEF RankStep
<1>3. CASE Generate
  <2>1. \A r \in Ranks : Contents(opt'[r]) = made'[r]
    BY <1>1, <1>3 DEF Generate, GenerateSeesCurrent, Weights
  <2> QED
    BY <1>3, <2>1 DEF Generate, BatchInv
<1>4. CASE ComputeAdvantages
  BY <1>1, <1>4 DEF ComputeAdvantages, BatchInv
<1>5. CASE GradNorm
  BY <1>1, <1>5 DEF GradNorm, BatchInv
<1>6. CASE UNCHANGED vars
  BY <1>1, <1>6 DEF vars, BatchInv
<1>7. CASE LoadFromScratch \/ LoadCheckpoint \/ LoadFails \/ FirstSync \/ Crash \/ Begin
  BY <1>7 DEF LoadFromScratch, LoadCheckpoint, LoadFails, FirstSync, Crash, Begin, BatchInv
<1>8. CASE EvalSleep \/ EvalPush \/ EvalGenerate \/ EvalNext \/ EvalDone
  BY <1>8 DEF EvalSleep, EvalPush, EvalGenerate, EvalNext, EvalDone, BatchInv
<1>9. CASE SleepReplicas \/ Push \/ Commit
  BY <1>9 DEF SleepReplicas, Push, Commit, NextPhase, BatchInv
<1>10. CASE SaveFailureState \/ SaveData \/ OpenTracker \/ WriteTracker \/ Sync \/ Validate
  BY <1>10 DEF SaveFailureState, SaveData, OpenTracker, WriteTracker, Sync, Validate, BatchInv
<1> QED
  BY <1>2, <1>3, <1>4, <1>5, <1>6, <1>7, <1>8, <1>9, <1>10 DEF Next, DriverStep

(* No call but "optimize" moves a mean, and it moves it by what is due.     *)
LEMMA MeanOfRank ==
  ASSUME IInv, NEW r \in Ranks, RankStep(r), NEW q \in Ranks
  PROVE  opt'[q].mean + Due(q)' = opt[q].mean + Due(q)
<1> USE DEF RankDone
<1>1. TypeOK /\ ShapeInv /\ BatchInv /\ DriverInv /\ StepInv
  BY DEF IInv
<1>2. \A p \in Ranks : opt[p].mean \in Nat
  BY <1>1 DEF TypeOK, Optimizer
<1>3. q # r => opt'[q] = opt[q]
  BY <1>1, RankStepOpt
<1>4. CASE EvalSample(r)
  <2>1. opt'[r].mean = opt[r].mean
    BY <1>1, <1>4, EvalSampleIs
  <2> QED
    BY <1>3, <1>4, <2>1 DEF EvalSample, Due
<1>5. CASE EvalRestore(r)
  <2>1. opt'[r].mean = opt[r].mean
    BY <1>1, <1>5, EvalRestoreIs
  <2> QED
    BY <1>3, <1>5, <2>1 DEF EvalRestore, Due
<1>6. CASE Sample(r)
  <2>1. opt'[r].mean = opt[r].mean
    BY <1>1, <1>6, SampleStepIs
  <2> QED
    BY <1>3, <1>6, <2>1 DEF Sample, Due
<1>7. CASE Backward(r)
  <2>1. opt'[r].mean = opt[r].mean
    BY <1>1, <1>7, BackwardIs
  <2> QED
    BY <1>3, <1>7, <2>1 DEF Backward, Due
<1>8. CASE Optimize(r)
  <2>1. opt'[r].mean = opt[r].mean + (IF finite THEN 1 ELSE 0)
    BY <1>1, <1>8, OptimizeIs
  <2>2. CASE q = r
    <3>1. Due(r)' = 0 /\ Due(r) = (IF finite THEN 1 ELSE 0)
      BY <1>8 DEF Optimize, Due
    <3> QED
      BY <1>2, <2>1, <2>2, <3>1
  <2>3. CASE q # r
    <3>1. Due(q)' = Due(q)
      BY <1>8, <2>3 DEF Optimize, Due
    <3> QED
      BY <1>3, <2>3, <3>1
  <2> QED
    BY <2>2, <2>3
<1>9. CASE SaveActor(r)
  BY <1>9 DEF SaveActor, Due
<1> QED
  BY <1>4, <1>5, <1>6, <1>7, <1>8, <1>9 DEF RankStep

LEMMA MeanStep ==
  ASSUME IInv, [Next]_vars
  PROVE  MeanInv'
<1> USE DEF Call, RankDone, volatile
<1>1. TypeOK /\ MeanInv /\ ShapeInv /\ CheckpointCoherent
  BY DEF IInv
<1>2. /\ \A r \in Ranks : opt[r].mean \in Nat
      /\ fbi \in [commits : Nat, pending : BOOLEAN, counter : Nat]
      /\ Frozen' = Frozen
  BY <1>1, JobKept DEF TypeOK, Optimizer
<1>3. ASSUME \A q \in Ranks : opt'[q].mean + Due(q)' = opt[q].mean + Due(q),
             fbi'.commits + Uncommitted' = fbi.commits + Uncommitted
      PROVE  MeanInv'
  BY <1>1, <1>2, <1>3 DEF MeanInv
<1>4. ASSUME NEW r \in Ranks, RankStep(r)
      PROVE  MeanInv'
  <2>1. \A q \in Ranks : opt'[q].mean + Due(q)' = opt[q].mean + Due(q)
    BY <1>4, MeanOfRank
  <2>2. fbi' = fbi /\ Uncommitted' = Uncommitted
    <3>1. CASE EvalSample(r) \/ EvalRestore(r) \/ Sample(r)
      BY <3>1 DEF EvalSample, EvalRestore, Sample, Uncommitted
    <3>2. CASE Backward(r)
      BY <3>2 DEF Backward, Uncommitted
    <3>3. CASE Optimize(r)
      BY <3>3 DEF Optimize, Uncommitted
    <3>4. CASE SaveActor(r)
      BY <3>4 DEF SaveActor, Uncommitted
    <3> QED
      BY <1>4, <3>1, <3>2, <3>3, <3>4 DEF RankStep
  <2> QED
    BY <1>3, <2>1, <2>2
<1>5. CASE LoadCheckpoint
  <2>1. PICK saved : saved = disk[tracker.step]
    OBVIOUS
  <2>2. /\ \A r \in Ranks : opt'[r].mean = saved.actor[r].mean
        /\ fbi'.commits = saved.fb.commits /\ pc' = "first_sync"
        /\ \A r \in Ranks : saved.actor[r].mean = saved.actor[CHOOSE q \in Ranks : TRUE].mean
        /\ \A r \in Ranks : ~Frozen => saved.actor[r].mean = saved.fb.commits
    BY <1>1, <1>5, <2>1, LoadCheckpointIs DEF LoadCheckpoint, CheckpointCoherent
  <2>3. Uncommitted' = 0 /\ \A r \in Ranks : Due(r)' = 0
    BY <2>2 DEF Uncommitted, Due
  <2> QED
    BY <1>2, <2>2, <2>3 DEF MeanInv
<1>6. CASE Crash
  <2>1. \A r \in Ranks : opt'[r].mean = 0
    BY <1>6, AfterCrash, Fresh
  <2>2. Uncommitted' = 0 /\ \A r \in Ranks : Due(r)' = 0
    BY <1>6, AfterCrash DEF Uncommitted, Due
  <2> QED
    BY <1>6, <2>1, <2>2, AfterCrash DEF MeanInv
<1>7. CASE GradNorm
  <2>1. PICK k : k = (IF finite' THEN 1 ELSE 0)
    OBVIOUS
  <2>2. /\ \A q \in Ranks : opt'[q] = opt[q] /\ Due(q) = 0 /\ Due(q)' = k
        /\ fbi' = fbi /\ Uncommitted = 0 /\ Uncommitted' = k /\ k \in Nat
    BY <1>7, <2>1 DEF GradNorm, Due, Uncommitted
  <2> QED
    BY <1>1, <1>2, <2>2 DEF MeanInv
<1>8. CASE Commit
  <2>1. /\ \A q \in Ranks : opt'[q] = opt[q] /\ Due(q) = 0 /\ Due(q)' = 0
        /\ Uncommitted = (IF finite THEN 1 ELSE 0) /\ Uncommitted' = 0
    BY <1>8 DEF Commit, NextPhase, Due, Uncommitted
  <2>2. fbi'.commits = IF Learns THEN fbi.commits + 1 ELSE fbi.commits
    BY <1>2, <1>8 DEF Commit
  <2>3. ~Frozen => fbi'.commits = fbi.commits + Uncommitted
    BY <1>2, <2>1, <2>2 DEF Learns
  <2> QED
    BY <1>1, <1>2, <2>1, <2>3 DEF MeanInv
<1>9. CASE Begin \/ ComputeAdvantages
  <2>1. fbi'.commits = fbi.commits
    BY <1>2, <1>9 DEF Begin, ComputeAdvantages
  <2>2. opt' = opt /\ (\A q \in Ranks : Due(q)' = Due(q)) /\ Uncommitted' = Uncommitted
    BY <1>9 DEF Begin, ComputeAdvantages, Due, Uncommitted
  <2> QED
    BY <1>3, <2>1, <2>2
<1>10. ASSUME opt' = opt, fbi' = fbi, \A q \in Ranks : Due(q)' = Due(q),
              Uncommitted' = Uncommitted
       PROVE  MeanInv'
  BY <1>3, <1>10
<1>11. CASE UNCHANGED vars
  BY <1>10, <1>11 DEF vars, Due, Uncommitted
<1>12. CASE LoadFromScratch \/ LoadFails \/ FirstSync
  BY <1>10, <1>12 DEF LoadFromScratch, LoadFails, FirstSync, Due, Uncommitted
<1>13. CASE EvalSleep \/ EvalPush \/ EvalGenerate \/ EvalNext \/ EvalDone
  BY <1>10, <1>13 DEF EvalSleep, EvalPush, EvalGenerate, EvalNext, EvalDone, Due, Uncommitted
<1>14. CASE SleepReplicas \/ Push \/ Generate
  BY <1>10, <1>14 DEF SleepReplicas, Push, Generate, Due, Uncommitted
<1>15. CASE SaveFailureState \/ SaveData \/ OpenTracker \/ WriteTracker \/ Sync \/ Validate
  BY <1>10, <1>15 DEF SaveFailureState, SaveData, OpenTracker, WriteTracker, Sync, Validate,
     Due, Uncommitted
<1> QED
  BY <1>4, <1>5, <1>6, <1>7, <1>8, <1>9, <1>11, <1>12, <1>13, <1>14, <1>15
     DEF Next, DriverStep


(* What a save writes, file by file, and what it leaves of the checkpoint.  *)
LEMMA SaveActorIs ==
  ASSUME TypeOK, DriverInv, StepInv, NEW r \in Ranks, SaveActor(r)
  PROVE  /\ step \in 1 .. MaxStep /\ disk' \in [1 .. MaxStep -> Checkpoint]
         /\ disk'[step].actor[r] = StateDict(opt[r])
         /\ \A q \in Ranks : q # r => disk'[step].actor[q] = disk[step].actor[q]
         /\ \A s \in 1 .. MaxStep : s # step => disk'[s] = disk[s]
<1>1. pc = "save_actor" /\ disk' = [disk EXCEPT ![step].actor[r] = StateDict(opt[r])]
  BY DEF SaveActor, RankDone
<1>2. step \in 1 .. MaxStep
  BY <1>1, Bounds DEF StepPhases
<1>3. StateDict(opt[r]) \in SavedActor
  BY StateDictIs DEF TypeOK
<1>4. disk \in [1 .. MaxStep -> Checkpoint] /\ disk[step] \in Checkpoint
  BY <1>2 DEF TypeOK
<1>5. PICK c : c = [disk[step] EXCEPT !.actor[r] = StateDict(opt[r])]
  OBVIOUS
<1>6. disk[step].actor \in [Ranks -> SavedActor \union {NoFile}]
  BY <1>4 DEF Checkpoint
<1>7. PICK a : a = [disk[step].actor EXCEPT ![r] = StateDict(opt[r])]
  OBVIOUS
<1>8. a \in [Ranks -> SavedActor \union {NoFile}] /\ a[r] = StateDict(opt[r])
      /\ \A q \in Ranks : q # r => a[q] = disk[step].actor[q]
  BY <1>3, <1>6, <1>7
<1>9. c = [disk[step] EXCEPT !.actor = a]
  BY <1>4, <1>5, <1>7 DEF Checkpoint
<1>10. c \in Checkpoint /\ c.actor = a
  BY <1>4, <1>8, <1>9 DEF Checkpoint
<1>11. disk' = [disk EXCEPT ![step] = c]
  BY <1>1, <1>2, <1>4, <1>5
<1> QED
  BY <1>2, <1>4, <1>8, <1>10, <1>11

LEMMA SaveFailureStateIs ==
  ASSUME TypeOK, DriverInv, StepInv, SaveFailureState
  PROVE  /\ step \in 1 .. MaxStep /\ disk' \in [1 .. MaxStep -> Checkpoint]
         /\ disk'[step].actor = disk[step].actor
         /\ disk'[step].fb = [commits |-> fbi.commits, counter |-> fbi.counter]
         /\ \A s \in 1 .. MaxStep : s # step => disk'[s] = disk[s]
<1>1. /\ pc = "save_fb"
      /\ disk' = [disk EXCEPT ![step].fb = [commits |-> fbi.commits, counter |-> fbi.counter]]
  BY DEF SaveFailureState
<1>2. step \in 1 .. MaxStep
  BY <1>1, Bounds DEF StepPhases
<1>3. [commits |-> fbi.commits, counter |-> fbi.counter] \in SavedFailures
  BY DEF SavedFailures, TypeOK
<1>4. disk \in [1 .. MaxStep -> Checkpoint] /\ disk[step] \in Checkpoint
  BY <1>2 DEF TypeOK
<1>5. PICK f : f = [commits |-> fbi.commits, counter |-> fbi.counter]
  OBVIOUS
<1>6. PICK c : c = [disk[step] EXCEPT !.fb = f]
  OBVIOUS
<1>7. c \in Checkpoint /\ c.fb = f /\ c.actor = disk[step].actor
  BY <1>3, <1>4, <1>5, <1>6 DEF Checkpoint
<1>8. disk' = [disk EXCEPT ![step] = c]
  BY <1>1, <1>2, <1>4, <1>5, <1>6
<1> QED
  BY <1>2, <1>4, <1>5, <1>7, <1>8

LEMMA SaveDataIs ==
  ASSUME TypeOK, DriverInv, StepInv, SaveData
  PROVE  /\ step \in 1 .. MaxStep /\ disk' \in [1 .. MaxStep -> Checkpoint]
         /\ disk'[step].actor = disk[step].actor /\ disk'[step].fb = disk[step].fb
         /\ disk'[step].data = data
         /\ \A s \in 1 .. MaxStep : s # step => disk'[s] = disk[s]
<1>1. pc = "save_data" /\ disk' = [disk EXCEPT ![step].data = data]
  BY DEF SaveData
<1>2. step \in 1 .. MaxStep
  BY <1>1, Bounds DEF StepPhases
<1>3. data \in Nat
  BY DEF TypeOK
<1>4. disk \in [1 .. MaxStep -> Checkpoint] /\ disk[step] \in Checkpoint
  BY <1>2 DEF TypeOK
<1>5. PICK c : c = [disk[step] EXCEPT !.data = data]
  OBVIOUS
<1>6. c \in Checkpoint /\ c.fb = disk[step].fb /\ c.actor = disk[step].actor /\ c.data = data
  BY <1>3, <1>4, <1>5 DEF Checkpoint
<1>7. disk' = [disk EXCEPT ![step] = c]
  BY <1>1, <1>2, <1>4, <1>5
<1> QED
  BY <1>2, <1>4, <1>6, <1>7

LEMMA SaveStep ==
  ASSUME IInv, [Next]_vars
  PROVE  SaveInv'
<1> USE DEF Call, RankDone, volatile
<1>1. TypeOK /\ SaveInv /\ DriverInv /\ StepInv
  BY DEF IInv
<1>2. ASSUME NEW r \in Ranks, RankStep(r)
      PROVE  SaveInv'
  <2>1. CASE SaveActor(r)
    <3>1. opt' = opt /\ step' = step
      BY <2>1 DEF SaveActor
    <3> QED
      BY <1>1, <2>1, <3>1, SaveActorIs DEF SaveActor, SaveInv
  <2>2. CASE EvalSample(r) \/ EvalRestore(r) \/ Sample(r)
    BY <2>2 DEF EvalSample, EvalRestore, Sample, SaveInv
  <2>3. CASE Backward(r)
    BY <2>3 DEF Backward, SaveInv
  <2>4. CASE Optimize(r)
    BY <2>4 DEF Optimize, SaveInv
  <2> QED
    BY <1>2, <2>1, <2>2, <2>3, <2>4 DEF RankStep
<1>3. CASE SaveFailureState
  BY <1>1, <1>3, SaveFailureStateIs DEF SaveFailureState, SaveInv
<1>4. CASE SaveData
  BY <1>1, <1>4, SaveDataIs DEF SaveData, SaveInv
<1>5. CASE OpenTracker
  BY <1>1, <1>5 DEF OpenTracker, SaveInv
<1>6. CASE UNCHANGED vars
  BY <1>1, <1>6 DEF vars, SaveInv
<1>7. CASE LoadFromScratch \/ LoadCheckpoint \/ LoadFails \/ FirstSync \/ Crash \/ Begin
  BY <1>7 DEF LoadFromScratch, LoadCheckpoint, LoadFails, FirstSync, Crash, Begin, SaveInv
<1>8. CASE EvalSleep \/ EvalPush \/ EvalGenerate \/ EvalNext \/ EvalDone
  BY <1>8 DEF EvalSleep, EvalPush, EvalGenerate, EvalNext, EvalDone, SaveInv
<1>9. CASE SleepReplicas \/ Push \/ Generate \/ ComputeAdvantages \/ GradNorm
  BY <1>9 DEF SleepReplicas, Push, Generate, ComputeAdvantages, GradNorm, SaveInv
<1>10. CASE Commit
  BY <1>10 DEF Commit, NextPhase, SaveInv
<1>11. CASE WriteTracker \/ Sync \/ Validate
  BY <1>11 DEF WriteTracker, Sync, Validate, SaveInv
<1> QED
  BY <1>2, <1>3, <1>4, <1>5, <1>6, <1>7, <1>8, <1>9, <1>10, <1>11 DEF Next, DriverStep

LEMMA CoherentStep ==
  ASSUME IInv, [Next]_vars
  PROVE  CheckpointCoherent'
<1> USE DEF Call, RankDone, volatile
<1>1. /\ TypeOK /\ ShapeInv /\ DriverInv /\ StepInv /\ StreamInv /\ MeanInv /\ SaveInv
      /\ CheckpointCoherent
  BY DEF IInv
<1>2. /\ Frozen' = Frozen /\ (StreamUntouched' <=> StreamUntouched)
      /\ tracker.step \in Nat /\ tracker.step <= MaxStep /\ MaxStep \in Nat
  BY <1>1, JobKept, Bounds DEF TypeOK
<1>3. ASSUME tracker'.step = tracker.step,
             tracker.step # 0 => disk'[tracker.step] = disk[tracker.step]
      PROVE  CheckpointCoherent'
  BY <1>1, <1>2, <1>3 DEF CheckpointCoherent, CompleteCheckpoint
<1>4. ASSUME NEW r \in Ranks, RankStep(r)
      PROVE  CheckpointCoherent'
  <2>1. CASE SaveActor(r)
    <3>1. tracker' = tracker /\ tracker.step < step
      BY <1>1, <2>1 DEF SaveActor, StepInv, StepPhases
    <3> QED
      BY <1>1, <1>2, <1>3, <2>1, <3>1, SaveActorIs
  <2>2. CASE EvalSample(r) \/ EvalRestore(r) \/ Sample(r) \/ Backward(r) \/ Optimize(r)
    BY <1>3, <2>2 DEF EvalSample, EvalRestore, Sample, Backward, Optimize
  <2> QED
    BY <1>4, <2>1, <2>2 DEF RankStep
<1>5. CASE SaveFailureState
  <2>1. tracker' = tracker /\ tracker.step < step
    BY <1>1, <1>5 DEF SaveFailureState, StepInv, StepPhases
  <2> QED
    BY <1>1, <1>2, <1>3, <1>5, <2>1, SaveFailureStateIs
<1>6. CASE SaveData
  <2>1. tracker' = tracker /\ tracker.step < step
    BY <1>1, <1>6 DEF SaveData, StepInv, StepPhases
  <2> QED
    BY <1>1, <1>2, <1>3, <1>6, <2>1, SaveDataIs
<1>7. CASE OpenTracker
  <2>1. tracker'.step = tracker.step /\ disk' = disk
    BY <1>1, <1>7 DEF OpenTracker, TypeOK
  <2> QED
    BY <1>3, <2>1
<1>8. CASE WriteTracker
  <2>1. step \in 1 .. MaxStep
    BY <1>1, <1>8, Bounds DEF WriteTracker, StepPhases
  <2>2. PICK saved : saved = disk[step]
    OBVIOUS
  <2>3. /\ saved.data = step /\ saved.fb = [commits |-> fbi.commits, counter |-> step]
        /\ \A r \in Ranks : saved.actor[r] = StateDict(opt[r])
    BY <1>1, <1>8, <2>2 DEF WriteTracker, SaveInv, DriverInv, Taken
  <2>4. /\ saved.data # NoFile /\ saved.fb # NoFile /\ saved.fb.commits = fbi.commits
        /\ saved.fb.counter = step
    <3>1. step \in Nat /\ [commits |-> fbi.commits, counter |-> step] \in SavedFailures
      BY <1>1, <2>1 DEF SavedFailures, TypeOK
    <3> QED
      BY <2>3, <3>1, TrainerConstants
  <2>5. ASSUME NEW r \in Ranks
        PROVE  /\ saved.actor[r] # NoFile /\ saved.actor[r].residue = {}
               /\ saved.actor[r].mean = opt[r].mean
               /\ saved.actor[r].meta.generator = opt[r].generator
    <3>1. opt[r] \in Optimizer(PerturbationIds) /\ opt[r].residue = {}
      BY <1>1, <1>8 DEF TypeOK, WriteTracker, ShapeInv, Trains, Evaluates, Bare
    <3> QED
      BY <2>3, <3>1, StateDictIs, TrainerConstants
  <2>6. /\ \A q, r \in Ranks : opt[q].mean = opt[r].mean
        /\ ~Frozen => \A r \in Ranks : opt[r].mean = fbi.commits
    <3>1. Uncommitted = 0 /\ \A r \in Ranks : Due(r) = 0 /\ opt[r].mean \in Nat
      BY <1>1, <1>8 DEF WriteTracker, Uncommitted, Due, TypeOK, Optimizer
    <3>2. fbi.commits \in Nat
      BY <1>1 DEF TypeOK
    <3> QED
      BY <1>1, <3>1, <3>2 DEF MeanInv
  <2>7. StreamUntouched =>
          \A r \in Ranks : opt[r].generator = [seed |-> TrainSeed + r, pos |-> step]
    BY <1>1, <1>8 DEF WriteTracker, StreamInv, Drawn
  <2>8. (CHOOSE q \in Ranks : TRUE) \in Ranks
    BY TrainerConstants
  <2>9. tracker'.step = step /\ disk' = disk
    BY <1>8 DEF WriteTracker
  <2> QED
    BY <1>2, <2>2, <2>3, <2>4, <2>5, <2>6, <2>7, <2>8, <2>9
       DEF CheckpointCoherent, CompleteCheckpoint
<1>9. CASE UNCHANGED vars
  BY <1>3, <1>9 DEF vars
<1>10. CASE LoadFromScratch \/ LoadCheckpoint \/ LoadFails \/ FirstSync \/ Crash
  BY <1>3, <1>10 DEF LoadFromScratch, LoadCheckpoint, LoadFails, FirstSync, Crash
<1>11. CASE EvalSleep \/ EvalPush \/ EvalGenerate \/ EvalNext \/ EvalDone
  BY <1>3, <1>11 DEF EvalSleep, EvalPush, EvalGenerate, EvalNext, EvalDone
<1>12. CASE Begin \/ SleepReplicas \/ Push \/ Generate \/ ComputeAdvantages \/ GradNorm
  BY <1>3, <1>12 DEF Begin, SleepReplicas, Push, Generate, ComputeAdvantages, GradNorm
<1>13. CASE Commit \/ Sync \/ Validate
  BY <1>3, <1>13 DEF Commit, Sync, Validate
<1> QED
  BY <1>4, <1>5, <1>6, <1>7, <1>8, <1>9, <1>10, <1>11, <1>12, <1>13 DEF Next, DriverStep

LEMMA GenerateStep ==
  ASSUME IInv, [Next]_vars
  PROVE  GenerateSeesCurrent'
<1> USE DEF Call, RankDone, volatile
<1>1. GenerateSeesCurrent
  BY DEF IInv
<1>2. CASE EvalPush \/ Push \/ Sync
  BY <1>2 DEF EvalPush, Push, Sync, GenerateSeesCurrent, Awake, Weights
<1>3. CASE \E r \in Ranks : RankStep(r)
  BY <1>3 DEF RankStep, EvalSample, EvalRestore, Sample, Backward, Optimize, SaveActor,
     GenerateSeesCurrent
<1>4. CASE UNCHANGED vars
  BY <1>1, <1>4 DEF vars, GenerateSeesCurrent, Weights
<1>5. CASE LoadFromScratch \/ LoadCheckpoint \/ LoadFails \/ FirstSync \/ Crash
  BY <1>5 DEF LoadFromScratch, LoadCheckpoint, LoadFails, FirstSync, Crash,
     GenerateSeesCurrent
<1>6. CASE EvalSleep \/ EvalGenerate \/ EvalNext \/ EvalDone
  BY <1>6 DEF EvalSleep, EvalGenerate, EvalNext, EvalDone, GenerateSeesCurrent
<1>7. CASE Begin \/ SleepReplicas \/ Generate \/ ComputeAdvantages \/ GradNorm
  BY <1>7 DEF Begin, SleepReplicas, Generate, ComputeAdvantages, GradNorm,
     GenerateSeesCurrent
<1>8. CASE Commit \/ SaveFailureState \/ SaveData \/ OpenTracker \/ WriteTracker \/ Validate
  BY <1>8 DEF Commit, NextPhase, SaveFailureState, SaveData, OpenTracker, WriteTracker,
     Validate, GenerateSeesCurrent
<1> QED
  BY <1>2, <1>3, <1>4, <1>5, <1>6, <1>7, <1>8 DEF Next, DriverStep


(* What the replicas and a batch hold of the ranks has the type of weights. *)
LEMMA WeightsType ==
  ASSUME TypeOK
  PROVE  /\ Awake \in [awake : BOOLEAN, weights : RankWeights]
         /\ Asleep \in [awake : BOOLEAN, weights : RankWeights]
         /\ replicas.weights \in RankWeights
<1>1. \A r \in Ranks : Contents(opt[r]) \in [mean : Nat, residue : SUBSET SignedNoise]
  BY DEF TypeOK, Optimizer, Contents
<1>2. Weights \in RankWeights
  BY <1>1 DEF Weights, RankWeights
<1>3. replicas \in [awake : BOOLEAN, weights : RankWeights]
  BY DEF TypeOK
<1> QED
  BY <1>2, <1>3 DEF Awake, Asleep

LEMMA TypeStep ==
  ASSUME IInv, [Next]_vars
  PROVE  TypeOK'
<1> USE DEF Call, RankDone, volatile
<1>1. TypeOK /\ ShapeInv /\ BatchInv /\ DriverInv /\ StepInv /\ CheckpointCoherent
  BY DEF IInv
<1>2. /\ job' = job /\ PerturbationIds' = PerturbationIds /\ EvalDraws' = EvalDraws
      /\ step \in Nat /\ EvalDraws \in Nat /\ draw \in Nat /\ MaxStep \in Nat
      /\ crashes \in Nat /\ MaxCrashes \in Nat /\ tracker.step \in Nat
      /\ pc \in StepPhases => step \in 1 .. MaxStep
      /\ pc \in Starting => step + 1 \in 1 .. MaxStep
  BY <1>1, JobKept, Bounds
<1>3. /\ pc \in {"load", "first_sync", "done", "failed"} \union EvalPhases \union StepPhases
      /\ step \in 0 .. MaxStep + 1 /\ todo \subseteq Ranks
      /\ opt \in [Ranks -> Optimizer(PerturbationIds)]
      /\ grad \in [Ranks -> SUBSET SUBSET SignedNoise] /\ finite \in BOOLEAN
      /\ fbi \in [commits : Nat, pending : BOOLEAN, counter : Nat]
      /\ data \in Nat /\ draw \in 0 .. EvalDraws
      /\ replicas \in [awake : BOOLEAN, weights : RankWeights] /\ made \in RankWeights
      /\ tracker \in [step : 0 .. MaxStep, whole : BOOLEAN]
      /\ disk \in [1 .. MaxStep -> Checkpoint] /\ crashes \in 0 .. MaxCrashes
      /\ job \in Jobs
  BY <1>1 DEF TypeOK
<1>4. /\ Awake \in [awake : BOOLEAN, weights : RankWeights]
      /\ Asleep \in [awake : BOOLEAN, weights : RankWeights]
      /\ replicas.weights \in RankWeights
  BY <1>1, WeightsType
<1> USE DEF EvalPhases, StepPhases, Starting
<1>5. ASSUME NEW r \in Ranks, RankStep(r)
      PROVE  TypeOK'
  <2>1. ASSUME opt'[r] \in Optimizer(PerturbationIds),
               \E o : opt' = [opt EXCEPT ![r] = o]
        PROVE  opt' \in [Ranks -> Optimizer(PerturbationIds)]
    BY <1>3, <2>1
  <2>2. CASE EvalSample(r)
    <3>1. opt' \in [Ranks -> Optimizer(PerturbationIds)]
      BY <1>1, <2>1, <2>2, EvalSampleIs DEF EvalSample
    <3> QED
      BY <1>2, <1>3, <2>2, <3>1 DEF EvalSample, TypeOK
  <2>3. CASE EvalRestore(r)
    <3>1. opt' \in [Ranks -> Optimizer(PerturbationIds)]
      BY <1>1, <2>1, <2>3, EvalRestoreIs DEF EvalRestore
    <3> QED
      BY <1>2, <1>3, <2>3, <3>1 DEF EvalRestore, TypeOK
  <2>4. CASE Sample(r)
    <3>1. opt' \in [Ranks -> Optimizer(PerturbationIds)]
      BY <1>1, <2>1, <2>4, SampleStepIs DEF Sample
    <3> QED
      BY <1>2, <1>3, <2>4, <3>1 DEF Sample, TypeOK
  <2>5. CASE Backward(r)
    <3>1. opt' \in [Ranks -> Optimizer(PerturbationIds)]
      BY <1>1, <2>1, <2>5, BackwardIs DEF Backward
    <3>2. grad' \in [Ranks -> SUBSET SUBSET SignedNoise]
      <4>1. {opt[r].residue} \in SUBSET SUBSET SignedNoise
        BY <1>3 DEF Optimizer
      <4> QED
        BY <1>3, <2>5, <4>1 DEF Backward
    <3> QED
      BY <1>2, <1>3, <2>5, <3>1, <3>2 DEF Backward, TypeOK
  <2>6. CASE Optimize(r)
    <3>1. opt' \in [Ranks -> Optimizer(PerturbationIds)]
      BY <1>1, <1>3, <2>1, <2>6, OptimizeIs DEF Optimize
    <3>2. grad' \in [Ranks -> SUBSET SUBSET SignedNoise]
      BY <1>3, <2>6 DEF Optimize
    <3> QED
      BY <1>2, <1>3, <2>6, <3>1, <3>2 DEF Optimize, TypeOK
  <2>7. CASE SaveActor(r)
    <3>1. disk' \in [1 .. MaxStep -> Checkpoint]
      BY <1>1, <2>7, SaveActorIs
    <3> QED
      BY <1>2, <1>3, <2>7, <3>1 DEF SaveActor, TypeOK
  <2> QED
    BY <1>5, <2>2, <2>3, <2>4, <2>5, <2>6, <2>7 DEF RankStep
<1>6. CASE LoadFromScratch
  BY <1>2, <1>3, <1>6 DEF LoadFromScratch, TypeOK
<1>7. CASE LoadCheckpoint
  <2>1. /\ opt' \in [Ranks -> Optimizer(PerturbationIds)]
        /\ fbi' \in [commits : Nat, pending : BOOLEAN, counter : Nat] /\ data' \in Nat
    BY <1>1, <1>7, LoadCheckpointIs
  <2>2. step' \in 0 .. MaxStep + 1
    BY <1>2, <1>3, <1>7 DEF LoadCheckpoint
  <2> QED
    BY <1>2, <1>3, <1>7, <2>1, <2>2 DEF LoadCheckpoint, TypeOK
<1>8. CASE LoadFails
  BY <1>2, <1>3, <1>8 DEF LoadFails, TypeOK
<1>9. CASE FirstSync
  <2>1. step' \in 0 .. MaxStep + 1
    BY <1>2, <1>3, <1>9 DEF FirstSync
  <2> QED
    BY <1>2, <1>3, <1>4, <1>9, <2>1 DEF FirstSync, TypeOK
<1>10. CASE EvalSleep \/ EvalPush \/ EvalGenerate
  BY <1>2, <1>3, <1>4, <1>10 DEF EvalSleep, EvalPush, EvalGenerate, TypeOK
<1>11. CASE EvalNext
  <2>1. draw' \in 0 .. EvalDraws
    BY <1>2, <1>3, <1>11 DEF EvalNext
  <2> QED
    BY <1>2, <1>3, <1>11, <2>1 DEF EvalNext, TypeOK
<1>12. CASE EvalDone
  <2>1. step' \in 0 .. MaxStep + 1
    BY <1>2, <1>3, <1>12 DEF EvalDone
  <2> QED
    BY <1>2, <1>3, <1>4, <1>12, <2>1 DEF EvalDone, TypeOK
<1>13. CASE Begin
  <2>1. fbi' \in [commits : Nat, pending : BOOLEAN, counter : Nat] /\ data' \in Nat
    BY <1>3, <1>13 DEF Begin
  <2> QED
    BY <1>2, <1>3, <1>13, <2>1 DEF Begin, TypeOK
<1>14. CASE SleepReplicas \/ Push \/ Sync
  BY <1>2, <1>3, <1>4, <1>14 DEF SleepReplicas, Push, Sync, TypeOK
<1>15. CASE Generate
  BY <1>2, <1>3, <1>4, <1>15 DEF Generate, TypeOK
<1>16. CASE ComputeAdvantages
  <2>1. fbi' \in [commits : Nat, pending : BOOLEAN, counter : Nat]
    BY <1>3, <1>16 DEF ComputeAdvantages
  <2> QED
    BY <1>2, <1>3, <1>16, <2>1 DEF ComputeAdvantages, TypeOK
<1>17. CASE GradNorm
  BY <1>2, <1>3, <1>17 DEF GradNorm, TypeOK
<1>18. CASE Commit
  <2>1. fbi' \in [commits : Nat, pending : BOOLEAN, counter : Nat]
    <3>1. PICK c : c = IF Learns THEN fbi.commits + 1 ELSE fbi.commits
      OBVIOUS
    <3>2. c \in Nat /\ fbi' = [fbi EXCEPT !.pending = FALSE, !.commits = c]
      BY <1>3, <1>18, <3>1 DEF Commit
    <3> QED
      BY <1>3, <3>2
  <2>2. pc' \in StepPhases /\ todo' \subseteq Ranks
    BY <1>3, <1>18 DEF Commit, NextPhase
  <2> QED
    BY <1>2, <1>3, <1>18, <2>1, <2>2 DEF Commit, TypeOK
<1>19. CASE SaveFailureState
  BY <1>1, <1>2, <1>3, <1>19, SaveFailureStateIs DEF SaveFailureState, TypeOK
<1>20. CASE SaveData
  BY <1>1, <1>2, <1>3, <1>20, SaveDataIs DEF SaveData, TypeOK
<1>21. CASE OpenTracker
  BY <1>2, <1>3, <1>21 DEF OpenTracker, TypeOK
<1>22. CASE WriteTracker
  <2>1. tracker' \in [step : 0 .. MaxStep, whole : BOOLEAN]
    BY <1>2, <1>22 DEF WriteTracker
  <2> QED
    BY <1>2, <1>3, <1>22, <2>1 DEF WriteTracker, TypeOK
<1>23. CASE Validate
  <2>1. step' \in 0 .. MaxStep + 1
    BY <1>2, <1>3, <1>23 DEF Validate
  <2> QED
    BY <1>2, <1>3, <1>23, <2>1 DEF Validate, TypeOK
<1>24. CASE Crash
  <2>1. /\ NewOptimizers \in [Ranks -> Optimizer(PerturbationIds)] /\ NewWeights \in RankWeights
    BY Fresh
  <2>2. crashes' \in 0 .. MaxCrashes
    BY <1>2, <1>24 DEF Crash
  <2>3. [commits |-> 0, pending |-> FALSE, counter |-> 0]
          \in [commits : Nat, pending : BOOLEAN, counter : Nat]
    OBVIOUS
  <2>4. NewReplicas \in [awake : BOOLEAN, weights : RankWeights]
    BY <2>1 DEF NewReplicas
  <2>5. [r \in Ranks |-> {}] \in [Ranks -> SUBSET SUBSET SignedNoise]
    OBVIOUS
  <2>6. /\ opt' \in [Ranks -> Optimizer(PerturbationIds)]
        /\ grad' \in [Ranks -> SUBSET SUBSET SignedNoise]
        /\ fbi' \in [commits : Nat, pending : BOOLEAN, counter : Nat]
        /\ replicas' \in [awake : BOOLEAN, weights : RankWeights] /\ made' \in RankWeights
        /\ pc' = "load" /\ step' = 0 /\ data' = 0 /\ draw' = 0 /\ todo' = {} /\ finite' = TRUE
        /\ tracker' = tracker /\ disk' = disk
    BY <1>24, <2>1, <2>3, <2>4, <2>5, AfterCrash
  <2> QED
    BY <1>2, <1>3, <2>2, <2>6 DEF TypeOK
<1>25. CASE UNCHANGED vars
  BY <1>2, <1>3, <1>25 DEF vars, TypeOK
<1> QED
  BY <1>5, <1>6, <1>7, <1>8, <1>9, <1>10, <1>11, <1>12, <1>13, <1>14, <1>15, <1>16, <1>17,
     <1>18, <1>19, <1>20, <1>21, <1>22, <1>23, <1>24, <1>25 DEF Next, DriverStep

-----------------------------------------------------------------------------
LEMMA Invariant == Spec => []IInv
<1>1. IInv /\ [Next]_vars => IInv'
  BY ShapeStep, DriverStepInv, StreamStep, BatchStep, MeanStep, SaveStep, CoherentStep,
     GenerateStep, TypeStep DEF IInv
<1> QED
  BY <1>1, InitHolds, PTL DEF Spec

(* The training loop keeps its variables typed: the bounds on the step and  *)
(* on the names of draws follow from the number of crashes.                 *)
THEOREM TypeCorrect == Spec => []TypeOK
<1>1. IInv => TypeOK
  BY DEF IInv
<1> QED
  BY <1>1, Invariant, PTL

(* No refusal of the optimizer contract (ivon_contract.py), of FBI          *)
(* (fbi.py:273, 319, 325) or of the loader is reachable from the training   *)
(* loop, in every interleaving of the ranks and after every crash.          *)
THEOREM ContractAlwaysAccepts == Spec => []ContractNeverRefuses
<1>1. ASSUME IInv
      PROVE  ContractNeverRefuses
  <2>1. /\ TypeOK /\ ShapeInv /\ DriverInv /\ BatchInv /\ CheckpointCoherent
    BY <1>1 DEF IInv
  <2>2. pc = "load" /\ tracker.whole /\ tracker.step # 0 =>
          CompleteCheckpoint(disk[tracker.step])
    BY <2>1 DEF CheckpointCoherent
  <2>3. /\ pc = "advantage" => ~fbi.pending
        /\ pc = "commit" => fbi.pending
        /\ pc = "save_fb" => ~fbi.pending
    BY <2>1 DEF DriverInv
  <2>4. ASSUME NEW r \in todo
        PROVE  /\ pc = "eval_sample" => SampleAccepted(opt[r], EvalId, EvalSeedOf(r))
               /\ pc = "eval_restore" => ActivePerturbation(opt[r], EvalId)
               /\ pc = "sample" => SampleAccepted(opt[r], PerturbationId, NoSeed)
               /\ pc = "backward" => ActivePerturbation(opt[r], PerturbationId)
               /\ pc = "optimize" /\ finite => ~StepRefused(opt[r])
    <3>1. r \in Ranks
      BY <2>1 DEF TypeOK
    <3>2. pc \in {"eval_sample", "sample"} => ~opt[r].noised
      BY <2>1, <3>1 DEF ShapeInv, Trains, Evaluates, Bare
    <3>3. /\ pc = "eval_restore" => Perturbed(opt[r], EvalId)
          /\ pc = "backward" => Perturbed(opt[r], PerturbationId)
      BY <2>1, <3>1 DEF ShapeInv, Trains, Evaluates
    <3>4. pc = "optimize" => opt[r].count = 1
      BY <2>1, <3>1 DEF BatchInv
    <3> QED
      BY <3>2, <3>3, <3>4 DEF SampleAccepted, ActivePerturbation, StepRefused, Perturbed
  <2> QED
    BY <2>2, <2>3, <2>4 DEF ContractNeverRefuses
<1> QED
  BY <1>1, Invariant, PTL

(* Every rank takes its gradient at the parameters the batch was generated  *)
(* with (fit, _update_actor, train_batch).                                  *)
THEOREM GradientIsOnPolicy == Spec => []OnPolicyDraw
<1>1. ASSUME IInv
      PROVE  OnPolicyDraw
  BY <1>1 DEF IInv, BatchInv, OnPolicyDraw
<1> QED
  BY <1>1, Invariant, PTL

(* What a restart loads is one consistent cut of the job (_save_checkpoint),*)
(* wherever the earlier incarnations died.                                  *)
THEOREM TrackedCheckpointIsACut == Spec => []CheckpointCoherent
<1>1. IInv => CheckpointCoherent
  BY DEF IInv
<1> QED
  BY <1>1, Invariant, PTL

(* A resumed job trains a step on the batch, the name and the noise that an *)
(* uninterrupted one would have used.                                       *)
THEOREM DrawsFollowTheStep == Spec => []DrawIsFunctionOfStep
<1>1. ASSUME IInv
      PROVE  DrawIsFunctionOfStep
  BY <1>1 DEF IInv, DrawIsFunctionOfStep, DriverInv, Taken, StreamInv, Trains
<1> QED
  BY <1>1, Invariant, PTL

(* No replica generates with weights the ranks no longer hold.              *)
THEOREM ReplicasGenerateCurrent == Spec => []GenerateSeesCurrent
<1>1. IInv => GenerateSeesCurrent
  BY DEF IInv
<1> QED
  BY <1>1, Invariant, PTL


-----------------------------------------------------------------------------
(* The refinement.  A process that has not loaded yet has learned nothing.  *)
ColdStart == pc = "load" => fbi.commits = 0 /\ \A r \in Ranks : opt[r].mean = 0

LEMMA StartsCold == Spec => []ColdStart
<1> USE DEF Call, RankDone, volatile
<1>1. Init => ColdStart
  <2>1. Init => opt = NewOptimizers /\ fbi.commits = 0
    BY DEF Init, NewFBI
  <2> QED
    BY <2>1, Fresh DEF ColdStart
<1>2. ColdStart /\ [Next]_vars => ColdStart'
  <2> SUFFICES ASSUME ColdStart, [Next]_vars PROVE ColdStart'
    OBVIOUS
  <2>1. CASE Crash
    BY <2>1, AfterCrash, Fresh DEF ColdStart
  <2>2. CASE UNCHANGED vars
    BY <2>2 DEF vars, ColdStart
  <2>3. CASE \E r \in Ranks : RankStep(r)
    BY <2>3 DEF RankStep, EvalSample, EvalRestore, Sample, Backward, Optimize, SaveActor,
       ColdStart
  <2>4. CASE LoadFromScratch \/ LoadCheckpoint \/ LoadFails \/ FirstSync
    BY <2>4 DEF LoadFromScratch, LoadCheckpoint, LoadFails, FirstSync, ColdStart
  <2>5. CASE EvalSleep \/ EvalPush \/ EvalGenerate \/ EvalNext \/ EvalDone \/ Begin
    BY <2>5 DEF EvalSleep, EvalPush, EvalGenerate, EvalNext, EvalDone, Begin, ColdStart
  <2>6. CASE SleepReplicas \/ Push \/ Generate \/ ComputeAdvantages \/ GradNorm
    BY <2>6 DEF SleepReplicas, Push, Generate, ComputeAdvantages, GradNorm, ColdStart
  <2>7. CASE Commit \/ SaveFailureState \/ SaveData \/ OpenTracker
    BY <2>7 DEF Commit, NextPhase, SaveFailureState, SaveData, OpenTracker, ColdStart
  <2>8. CASE WriteTracker \/ Sync \/ Validate
    BY <2>8 DEF WriteTracker, Sync, Validate, ColdStart
  <2> QED
    BY <2>1, <2>2, <2>3, <2>4, <2>5, <2>6, <2>7, <2>8 DEF Next, DriverStep
<1> QED
  BY <1>1, <1>2, PTL DEF Spec

(* The durable state moves only when the tracker names another checkpoint.  *)
LEMMA DurableKept ==
  ASSUME IInv, [Next]_vars, tracker'.step = tracker.step
  PROVE  Durable' = Durable
<1> USE DEF RankDone
<1>1. TypeOK /\ DriverInv /\ StepInv
  BY DEF IInv
<1>2. tracker.step # 0 => tracker.step \in 1 .. MaxStep
  BY <1>1, TrainerConstants DEF TypeOK, MaxStep
<1>3. ASSUME disk'[tracker.step] = disk[tracker.step]
      PROVE  Durable' = Durable
  BY <1>3 DEF Durable, AnyRank
<1>4. ASSUME tracker.step = 0
      PROVE  Durable' = Durable
  BY <1>4 DEF Durable
<1>5. ASSUME NEW r \in Ranks, SaveActor(r)
      PROVE  Durable' = Durable
  <2>1. tracker.step < step
    BY <1>1, <1>5 DEF SaveActor, StepInv, StepPhases
  <2> QED
    BY <1>1, <1>2, <1>3, <1>4, <1>5, <2>1, SaveActorIs
<1>6. CASE SaveFailureState
  <2>1. tracker.step < step
    BY <1>1, <1>6 DEF SaveFailureState, StepInv, StepPhases
  <2> QED
    BY <1>1, <1>2, <1>3, <1>4, <1>6, <2>1, SaveFailureStateIs
<1>7. CASE SaveData
  <2>1. tracker.step < step
    BY <1>1, <1>7 DEF SaveData, StepInv, StepPhases
  <2> QED
    BY <1>1, <1>2, <1>3, <1>4, <1>7, <2>1, SaveDataIs
<1>8. ASSUME NEW r \in Ranks, RankStep(r), ~SaveActor(r)
      PROVE  disk' = disk
  BY <1>8 DEF RankStep, EvalSample, EvalRestore, Sample, Backward, Optimize
<1>9. CASE LoadFromScratch \/ LoadCheckpoint \/ LoadFails \/ FirstSync \/ Crash
  BY <1>3, <1>9 DEF LoadFromScratch, LoadCheckpoint, LoadFails, FirstSync, Crash
<1>10. CASE EvalSleep \/ EvalPush \/ EvalGenerate \/ EvalNext \/ EvalDone
  BY <1>3, <1>10 DEF EvalSleep, EvalPush, EvalGenerate, EvalNext, EvalDone
<1>11. CASE Begin \/ SleepReplicas \/ Push \/ Generate \/ ComputeAdvantages \/ GradNorm
  BY <1>3, <1>11 DEF Begin, SleepReplicas, Push, Generate, ComputeAdvantages, GradNorm
<1>12. CASE Commit \/ OpenTracker \/ WriteTracker \/ Sync \/ Validate \/ UNCHANGED vars
  BY <1>3, <1>12 DEF Commit, OpenTracker, WriteTracker, Sync, Validate, vars
<1> QED
  BY <1>3, <1>5, <1>6, <1>7, <1>8, <1>9, <1>10, <1>11, <1>12 DEF Next, DriverStep

(* A rank's step is a stutter of the transaction.                           *)
LEMMA RankStepStutters ==
  ASSUME IInv, NEW r \in Ranks, RankStep(r)
  PROVE  UNCHANGED <<Frozen, TransactionSteps, TransactionModel, TransactionFailures, Durable>>
<1> USE DEF RankDone
<1>1. TypeOK /\ ShapeInv /\ DriverInv /\ StepInv
  BY DEF IInv
<1>2. UNCHANGED <<step, fbi, made, tracker, job>>
  BY DEF RankStep, EvalSample, EvalRestore, Sample, Backward, Optimize, SaveActor
<1>3. Durable' = Durable
  <2>1. [Next]_vars
    BY DEF Next
  <2> QED
    BY <1>2, <2>1, DurableKept
<1>4. AnyRank \in Ranks
  BY TrainerConstants DEF AnyRank
<1>5. PICK a : a = AnyRank
  OBVIOUS
<1>6. a # r => opt'[a] = opt[a]
  BY <1>1, <1>4, <1>5, RankStepOpt
<1>7. CASE EvalSample(r)
  <2>1. opt'[a].mean = opt[a].mean
    BY <1>1, <1>6, <1>7, EvalSampleIs
  <2> QED
    BY <1>2, <1>3, <1>5, <1>7, <2>1 DEF EvalSample, TransactionSteps, TransactionModel,
       TransactionFailures, NotLoaded, StepsCompleted, Frozen, AnyRank
<1>8. CASE EvalRestore(r)
  <2>1. opt'[a].mean = opt[a].mean
    BY <1>1, <1>6, <1>8, EvalRestoreIs
  <2> QED
    BY <1>2, <1>3, <1>5, <1>8, <2>1 DEF EvalRestore, TransactionSteps, TransactionModel,
       TransactionFailures, NotLoaded, StepsCompleted, Frozen, AnyRank
<1>9. CASE Sample(r)
  <2>1. opt'[a].mean = opt[a].mean
    BY <1>1, <1>6, <1>9, SampleStepIs
  <2> QED
    BY <1>2, <1>3, <1>5, <1>9, <2>1 DEF Sample, TransactionSteps, TransactionModel,
       TransactionFailures, NotLoaded, StepsCompleted, Frozen, AnyRank
<1>10. CASE Backward(r)
  <2>1. opt'[a].mean = opt[a].mean
    BY <1>1, <1>6, <1>10, BackwardIs
  <2> QED
    BY <1>2, <1>3, <1>5, <1>10, <2>1 DEF Backward, TransactionSteps, TransactionModel,
       TransactionFailures, NotLoaded, StepsCompleted, Frozen, AnyRank
<1>11. CASE Optimize(r)
  BY <1>2, <1>3, <1>11 DEF Optimize, TransactionSteps, TransactionModel,
     TransactionFailures, NotLoaded, StepsCompleted, Frozen, AnyRank
<1>12. CASE SaveActor(r)
  BY <1>2, <1>3, <1>12 DEF SaveActor, TransactionSteps, TransactionModel,
     TransactionFailures, NotLoaded, StepsCompleted, Frozen, AnyRank
<1> QED
  BY <1>7, <1>8, <1>9, <1>10, <1>11, <1>12 DEF RankStep


(* Every step of the driver is one of the transaction, or a stutter.        *)
LEMMA StepRefines ==
  ASSUME IInv, ColdStart, [Next]_vars
  PROVE  [Transaction!TNext]_(Transaction!tvars)
<1> USE DEF Call, volatile
<1>1. /\ TypeOK /\ ShapeInv /\ DriverInv /\ StepInv /\ BatchInv /\ MeanInv /\ SaveInv
      /\ CheckpointCoherent
  BY DEF IInv
<1>2. AnyRank \in Ranks
  BY TrainerConstants DEF AnyRank
<1>3. PICK a : a = AnyRank
  OBVIOUS
<1>4. /\ step \in Nat /\ tracker.step \in Nat /\ Frozen' = Frozen
      /\ opt[a].mean \in Nat /\ fbi \in [commits : Nat, pending : BOOLEAN, counter : Nat]
  BY <1>1, <1>2, <1>3, Bounds, JobKept DEF TypeOK, Optimizer
<1>5. ASSUME UNCHANGED <<Frozen, TransactionSteps, TransactionModel, TransactionFailures,
                         Durable>>
      PROVE  [Transaction!TNext]_(Transaction!tvars)
  BY <1>5 DEF Transaction!tvars
<1>6. CASE \E r \in Ranks : RankStep(r)
  BY <1>5, <1>6, RankStepStutters
<1>7. ASSUME tracker'.step = tracker.step
      PROVE  Durable' = Durable
  BY <1>7, DurableKept
<1> USE DEF TransactionSteps, TransactionModel, TransactionFailures, NotLoaded, StepsCompleted
<1>8. CASE UNCHANGED vars
  <2>1. UNCHANGED <<pc, step, opt, fbi, made, tracker>>
    BY <1>8 DEF vars
  <2> QED
    BY <1>4, <1>5, <1>7, <2>1 DEF AnyRank
<1>9. CASE LoadFromScratch
  <2>1. Durable = [steps |-> 0, model |-> 0, failures |-> 0]
    BY <1>9 DEF LoadFromScratch, Durable
  <2>2. opt[a].mean = 0 /\ fbi.commits = 0 /\ step = 0
    BY <1>1, <1>2, <1>3, <1>9 DEF LoadFromScratch, ColdStart, DriverInv
  <2> QED
    BY <1>3, <1>4, <1>5, <1>7, <1>9, <2>1, <2>2 DEF LoadFromScratch, AnyRank
<1>10. CASE LoadCheckpoint
  <2>1. PICK saved : saved = disk[tracker.step]
    OBVIOUS
  <2>2. /\ opt'[a].mean = saved.actor[a].mean /\ fbi'.commits = saved.fb.commits
        /\ step' = tracker.step /\ tracker.step # 0 /\ pc = "load" /\ pc' = "first_sync"
        /\ tracker' = tracker
    BY <1>1, <1>2, <1>3, <1>10, <2>1, LoadCheckpointIs DEF LoadCheckpoint
  <2>3. Durable = [steps |-> tracker.step, model |-> saved.actor[a].mean,
                   failures |-> saved.fb.commits]
    BY <1>3, <2>1, <2>2 DEF Durable
  <2> QED
    BY <1>3, <1>4, <1>5, <1>7, <2>2, <2>3 DEF AnyRank
<1>11. CASE LoadFails
  BY <1>4, <1>5, <1>7, <1>11 DEF LoadFails
<1>12. CASE FirstSync
  BY <1>4, <1>5, <1>7, <1>12 DEF FirstSync, AnyRank
<1>13. CASE EvalSleep \/ EvalPush \/ EvalGenerate
  BY <1>4, <1>5, <1>7, <1>13 DEF EvalSleep, EvalPush, EvalGenerate, AnyRank
<1>14. CASE EvalNext \/ EvalDone
  BY <1>4, <1>5, <1>7, <1>14 DEF EvalNext, EvalDone, AnyRank
<1>15. CASE Begin
  <2>1. fbi'.commits = fbi.commits
    BY <1>4, <1>15 DEF Begin
  <2> QED
    BY <1>4, <1>5, <1>7, <1>15, <2>1 DEF Begin, AnyRank
<1>16. CASE SleepReplicas \/ Push \/ Generate
  BY <1>4, <1>5, <1>7, <1>16 DEF SleepReplicas, Push, Generate, AnyRank
<1>17. CASE ComputeAdvantages
  <2>1. fbi'.commits = fbi.commits
    BY <1>4, <1>17 DEF ComputeAdvantages
  <2> QED
    BY <1>4, <1>5, <1>7, <1>17, <2>1 DEF ComputeAdvantages, AnyRank
<1>18. CASE GradNorm
  <2>1. opt[a].mean = made[a].mean
    BY <1>1, <1>2, <1>3, <1>18 DEF GradNorm, BatchInv
  <2> QED
    BY <1>3, <1>4, <1>5, <1>7, <1>18, <2>1 DEF GradNorm, AnyRank
<1>19. CASE Commit
  <2>1. /\ opt[a].mean = made[a].mean + (IF finite THEN 1 ELSE 0) /\ pc = "commit"
        /\ pc' \in {"save_actor", "sync"} /\ UNCHANGED <<step, opt, tracker>>
    BY <1>1, <1>2, <1>3, <1>19 DEF Commit, NextPhase, BatchInv
  <2>2. fbi'.commits = IF Learns THEN fbi.commits + 1 ELSE fbi.commits
    BY <1>4, <1>19 DEF Commit
  <2>3. /\ TransactionSteps = step - 1 /\ TransactionModel = made[a].mean
        /\ TransactionFailures = fbi.commits
    BY <1>3, <2>1
  <2>4. /\ TransactionSteps' = step /\ TransactionModel' = opt[a].mean
        /\ TransactionFailures' = fbi'.commits
    BY <1>3, <2>1 DEF AnyRank
  <2>5. Durable' = Durable
    BY <1>7, <2>1
  <2>6. made[a].mean \in Nat
    BY <1>1, <1>2, <1>3 DEF TypeOK, RankWeights
  <2>7. CASE finite
    <3>1. opt[a].mean = made[a].mean + 1
      BY <2>1, <2>7
    <3>2. fbi'.commits = fbi.commits + Transaction!Learned
      BY <1>4, <2>2, <2>7 DEF Learns, Transaction!Learned
    <3>3. Transaction!CommitStep
      BY <1>4, <2>3, <2>4, <2>5, <3>1, <3>2 DEF Transaction!CommitStep
    <3> QED
      BY <3>3 DEF Transaction!TNext
  <2>8. CASE ~finite
    <3>1. opt[a].mean = made[a].mean /\ fbi'.commits = fbi.commits
      BY <2>1, <2>2, <2>6, <2>8 DEF Learns
    <3>2. Transaction!AbandonStep
      BY <1>4, <2>3, <2>4, <2>5, <3>1 DEF Transaction!AbandonStep
    <3> QED
      BY <3>2 DEF Transaction!TNext
  <2> QED
    BY <2>7, <2>8
<1>20. CASE SaveFailureState \/ SaveData
  BY <1>4, <1>5, <1>7, <1>20 DEF SaveFailureState, SaveData, AnyRank
<1>21. CASE OpenTracker
  <2>1. tracker'.step = tracker.step
    BY <1>1, <1>21 DEF OpenTracker, TypeOK
  <2> QED
    BY <1>4, <1>5, <1>7, <1>21, <2>1 DEF OpenTracker, AnyRank
<1>22. CASE WriteTracker
  <2>1. /\ tracker' = [step |-> step, whole |-> TRUE] /\ pc = "write_tracker" /\ pc' = "sync"
        /\ UNCHANGED <<step, opt, fbi, made, disk>>
    BY <1>22 DEF WriteTracker
  <2>2. step # 0 /\ disk[step].actor[a].mean = opt[a].mean
        /\ disk[step].fb.commits = fbi.commits
    <3>1. step # 0 /\ disk[step].actor[a] = StateDict(opt[a])
          /\ disk[step].fb = [commits |-> fbi.commits, counter |-> fbi.counter]
      BY <1>1, <1>2, <1>3, <1>4, <2>1 DEF StepInv, StepPhases, SaveInv
    <3>2. opt[a] \in Optimizer(PerturbationIds)
      BY <1>1, <1>2, <1>3 DEF TypeOK
    <3> QED
      BY <3>1, <3>2, StateDictIs
  <2>3. Durable' = [steps |-> step, model |-> opt[a].mean, failures |-> fbi.commits]
    BY <1>3, <2>1, <2>2 DEF Durable, AnyRank
  <2>4. /\ TransactionSteps = step /\ TransactionSteps' = step
        /\ TransactionModel = opt[a].mean /\ TransactionModel' = opt[a].mean
        /\ TransactionFailures = fbi.commits /\ TransactionFailures' = fbi.commits
    BY <1>3, <2>1 DEF AnyRank
  <2>5. Transaction!MakeDurable
    BY <1>4, <2>3, <2>4 DEF Transaction!MakeDurable
  <2> QED
    BY <2>5 DEF Transaction!TNext
<1>23. CASE Sync
  BY <1>4, <1>5, <1>7, <1>23 DEF Sync, AnyRank
<1>24. CASE Validate
  <2>1. (step + 1) - 1 = step
    BY <1>4
  <2> QED
    BY <1>4, <1>5, <1>7, <1>24, <2>1 DEF Validate, AnyRank
<1>25. CASE Crash
  <2>1. pc' = "load" /\ Durable' = Durable
    BY <1>7, <1>25 DEF Crash
  <2>2. Transaction!Recover
    BY <1>4, <2>1 DEF Transaction!Recover
  <2> QED
    BY <2>2 DEF Transaction!TNext
<1> QED
  BY <1>6, <1>8, <1>9, <1>10, <1>11, <1>12, <1>13, <1>14, <1>15, <1>16, <1>17, <1>18, <1>19,
     <1>20, <1>21, <1>22, <1>23, <1>24, <1>25 DEF Next, DriverStep

(* The training loop implements the transaction: in every interleaving of   *)
(* the ranks, and wherever the job dies in the middle of a step or a save,  *)
(* model and failure state are updated together, become durable together    *)
(* and roll back together (fit, _commit_fb_update, _save_checkpoint).       *)
THEOREM TrainingIsTransactional == Spec => ImplementsTransaction
<1>1. Init => Transaction!TInit
  BY TrainerConstants DEF Init, Transaction!TInit, TransactionSteps, TransactionModel,
     TransactionFailures, NotLoaded, Durable, Frozen
<1>2. IInv /\ ColdStart /\ [Next]_vars => [Transaction!TNext]_(Transaction!tvars)
  BY StepRefines
<1> QED
  BY <1>1, <1>2, Invariant, StartsCold, PTL DEF Spec, ImplementsTransaction, Transaction!TSpec
=============================================================================
