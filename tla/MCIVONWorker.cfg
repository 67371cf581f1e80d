SPECIFICATION Spec
CONSTANTS
  t1 = t1
  t2 = t2
  e1 = e1
  NoId = NoId
  NoSeed = NoSeed
  NoGen = NoGen
  TrainSeed = 3
  Microbatches = 2
  MaxDraws = 4
  TrainIds <- MCTrainIds
  EvalIds <- MCEvalIds
  EvalSeeds <- MCEvalSeeds
INVARIANTS
  TypeOK
  ParamsCoherent
  TrainBatchNeverAborts
PROPERTIES
  UpdateUsesItsOwnDraw
  NoDrawReuse
