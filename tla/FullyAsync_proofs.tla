--------------------------- MODULE FullyAsync_proofs ---------------------------
(* Theorems of FullyAsync for every size of a version, of the queues and of *)
(* the job, and every number of failures and restarts.                      *)
(*                                                                          *)
(* The idea of the proofs: samples leave the data stream in order, and each *)
(* is in one place, so none that has been submitted is met again; and the   *)
(* counter of stale samples is never more than one behind what is           *)
(* outstanding, because reset_staleness misses only the sample that the     *)
(* processor holds.  With no sample allowed ahead, what has been taken      *)
(* since the last reset is at most one version, so nothing is under way     *)
(* when the weights change.                                                 *)
EXTENDS FullyAsync, SequenceTheorems, FiniteSetTheorems, TLAPS

EntryType == Sample \union {End}

(* The types of the rollouter and of the rest, with the checkpoint.         *)
RolloutTyped ==
  /\ feed \in {"feeding", "ending", "over"}
  /\ globalSteps \in Nat \ {0}
  /\ pending \in Seq(EntryType)
  /\ pc \in {"check", "compare", "pause", "drain", "get", "limit", "limited", "submit",
             "finish", "finishing", "done", "failed", "ended"}
  /\ held \in EntryType
  /\ active \in SUBSET Sample
  /\ task \in [Sample -> {"none", "generating", "put", "done", "failed"}]
  /\ staleness \in Nat /\ counted \in Nat
  /\ paused \in BOOLEAN /\ resumed \in BOOLEAN /\ running \in BOOLEAN
  /\ lock \in {"free", "processor", "reset"}
  /\ monitor \in {"asleep", "resuming"}

RestTyped ==
  /\ queue \in Seq(EntryType) /\ dropped \in SUBSET EntryType
  /\ trainer \in {"collect", "train", "push", "reset", "resetting", "save", "stop",
                  "done"}
  /\ batch \in SUBSET Sample
  /\ localStep \in 1 .. Trigger
  /\ version \in Nat /\ savedVersion \in 0 .. version
  /\ stopping \in BOOLEAN
  /\ fresh \in SUBSET Sample /\ trained \in SUBSET Sample /\ staleUsed \in Nat
  /\ checkpoint \in [version : Nat, fetched : Nat, trained : SUBSET Sample]
  /\ maxRequired \in MaxRequireds
  /\ failures \in Nat /\ crashes \in Nat

(* Every incarnation fetches at most a job's worth of samples.              *)
FetchedInv ==
  /\ fetched \in Nat /\ fetched > 0
  /\ failures + crashes <= MaxFaults
  /\ fetched <= crashes * TotalRollout + globalSteps
  /\ fetched <= crashes * TotalRollout + TotalRollout
  /\ checkpoint.fetched <= fetched
  /\ \A x \in checkpoint.trained : x <= checkpoint.fetched

(* What has been submitted, and what waits to be.                           *)
Used ==
  {x \in Sample : task[x] # "none" \/ x \in Entries \/ x \in batch \/ x \in trained}

Waiting(x) == x # End /\ (x = held \/ \E i \in 1 .. Len(pending) : pending[i] = x)

InOrder ==
  /\ \A x \in Used : \A w \in Sample : Waiting(w) => x < w
  /\ \A x \in Sample : x \in Used \/ Waiting(x) =>
       x <= fetched /\ (feed = "feeding" => x < fetched)
  /\ \A i \in 1 .. Len(pending) : pending[i] # End =>
       /\ held < pending[i]
       /\ \A j \in 1 .. Len(pending) : i < j /\ pending[j] # End => pending[i] < pending[j]

(* A sample is in one place.                                                *)
OnePlace ==
  /\ \A i, j \in 1 .. Len(queue) : i < j /\ queue[i] # End => queue[i] # queue[j]
  /\ \A x \in Sample : task[x] = "generating" => x \notin Entries \union batch \union trained
  /\ \A x \in Sample : x \in Entries => x \notin batch \union trained
  /\ batch \intersect trained = {}

(* Who holds the lock, and what reset_staleness has counted.                *)
LockInv ==
  /\ pc \in {"limited", "finishing"} <=> lock = "processor"
  /\ trainer = "resetting" <=> lock = "reset"
  /\ trainer = "resetting" => counted = Cardinality(active)
  /\ trainer # "resetting" => counted = 0

ActiveInv ==
  /\ Cardinality(active) <= Concurrent
  /\ pc = "submit" => Cardinality(active) < Concurrent
  /\ pc \in {"limit", "limited", "submit"} => held # End
  /\ \A x \in Sample : task[x] # "none" => x \in active

StaleInv ==
  /\ Len(queue) <= maxRequired
  /\ staleness <= 2 * maxRequired + 1
  /\ pc = "get" => staleness <= 2 * maxRequired

Ahead == Cardinality(Outstanding)

AheadInv ==
  /\ Ahead <= maxRequired + 1
  /\ Ahead <= staleness + 1
  /\ pc = "get" => Ahead <= maxRequired

IInv ==
  /\ RolloutTyped /\ RestTyped /\ FetchedInv /\ InOrder /\ OnePlace
  /\ LockInv /\ ActiveInv /\ StaleInv /\ AheadInv

-----------------------------------------------------------------------------
LEMMA Numbers ==
  /\ Required \in Nat /\ Required > 0 /\ Trigger \in Nat /\ Trigger > 0
  /\ TotalRollout \in Nat /\ TotalRollout > 0 /\ MaxFaults \in Nat /\ MaxSample \in Nat
  /\ MaxConcurrent \in Nat /\ MaxConcurrent > 0
  /\ VersionSamples \in Nat /\ VersionSamples > 0
<1>1. /\ Required \in Nat /\ Required > 0 /\ Trigger \in Nat /\ Trigger > 0
      /\ TotalRollout \in Nat /\ TotalRollout > 0 /\ MaxFaults \in Nat /\ MaxSample \in Nat
      /\ MaxConcurrent \in Nat /\ MaxConcurrent > 0
  BY AsyncConstants
<1>2. VersionSamples \in Nat /\ VersionSamples > 0
  BY <1>1 DEF VersionSamples
<1> QED
  BY <1>1, <1>2

LEMMA LimitType ==
  ASSUME maxRequired \in MaxRequireds
  PROVE  /\ maxRequired \in Nat /\ maxRequired > 0
         /\ Concurrent \in Nat /\ Concurrent > 0 /\ Concurrent <= maxRequired
<1>1. maxRequired \in Nat /\ maxRequired >= VersionSamples
  BY AsyncConstants
<1> QED
  BY <1>1, Numbers DEF Concurrent

LEMMA SampleFinite == IsFiniteSet(Sample) /\ \A S : S \subseteq Sample => IsFiniteSet(S)
<1>1. IsFiniteSet(Sample)
  <2>1. 1 \in Int /\ MaxSample \in Int
    BY Numbers
  <2>2. IsFiniteSet(1 .. MaxSample)
    BY <2>1, FS_Interval, Zenon
  <2> QED
    BY <2>2 DEF Sample
<1> QED
  BY <1>1, FS_Subset

LEMMA AddOne ==
  ASSUME NEW S, IsFiniteSet(S), NEW x
  PROVE  /\ IsFiniteSet(S \union {x}) /\ Cardinality(S) \in Nat
         /\ Cardinality(S \union {x}) \in Nat
         /\ Cardinality(S \union {x}) <= Cardinality(S) + 1
<1>1. /\ IsFiniteSet(S \union {x})
      /\ Cardinality(S \union {x}) = IF x \in S THEN Cardinality(S) ELSE Cardinality(S) + 1
  BY FS_AddElement, Zenon
<1>2. Cardinality(S) \in Nat
  BY FS_CardinalityType
<1> QED
  BY <1>1, <1>2

(* The queue after put_sample: at most its first entry is lost, and x is    *)
(* its last.                                                                *)
Shifted(d, x) ==
  /\ Len(queue') = Len(queue) - d + 1
  /\ \A i \in 1 .. Len(queue) - d : queue'[i] = queue[i + d]
  /\ queue'[Len(queue) - d + 1] = x

LEMMA PutEffect ==
  ASSUME RestTyped, Len(queue) <= maxRequired, NEW x \in EntryType, PutSample(x)
  PROVE  /\ queue' \in Seq(EntryType) /\ dropped' \in SUBSET EntryType
         /\ Len(queue') <= maxRequired
         /\ \E d \in {0, 1} : d <= Len(queue) /\ Shifted(d, x)
<1>1. /\ queue \in Seq(EntryType) /\ dropped \in SUBSET EntryType
      /\ maxRequired \in Nat /\ maxRequired > 0 /\ Len(queue) \in Nat
  BY LimitType, LenProperties DEF RestTyped
<1>2. CASE Len(queue) >= maxRequired
  <2>1. queue' = Append(Tail(queue), x) /\ dropped' = dropped \union {Head(queue)}
    BY <1>2 DEF PutSample
  <2>2. queue # <<>>
    BY <1>1, <1>2, EmptySeq
  <2>3. /\ Head(queue) \in EntryType /\ Tail(queue) \in Seq(EntryType)
        /\ Len(Tail(queue)) = Len(queue) - 1
        /\ \A i \in 1 .. Len(Tail(queue)) : Tail(queue)[i] = queue[i + 1]
    BY <1>1, <2>2, HeadTailProperties
  <2>4. /\ queue' \in Seq(EntryType) /\ Len(queue') = Len(Tail(queue)) + 1
        /\ \A i \in 1 .. Len(Tail(queue)) : queue'[i] = Tail(queue)[i]
        /\ queue'[Len(Tail(queue)) + 1] = x
    BY <2>1, <2>3, AppendProperties
  <2>5. Shifted(1, x)
    BY <1>1, <2>3, <2>4 DEF Shifted
  <2>6. dropped' \in SUBSET EntryType
    BY <1>1, <2>1, <2>3
  <2>7. Len(queue') <= maxRequired /\ 1 <= Len(queue)
    BY <1>1, <1>2, <2>3, <2>4
  <2> QED
    BY <2>4, <2>5, <2>6, <2>7
<1>3. CASE Len(queue) < maxRequired
  <2>1. queue' = Append(queue, x) /\ dropped' = dropped
    BY <1>1, <1>3 DEF PutSample
  <2>2. /\ queue' \in Seq(EntryType) /\ Len(queue') = Len(queue) + 1
        /\ \A i \in 1 .. Len(queue) : queue'[i] = queue[i]
        /\ queue'[Len(queue) + 1] = x
    BY <1>1, <2>1, AppendProperties
  <2>3. Shifted(0, x)
    BY <1>1, <2>2 DEF Shifted
  <2> QED
    BY <1>1, <1>3, <2>1, <2>2, <2>3
<1> QED
  BY <1>1, <1>2, <1>3

LEMMA EntriesAre ==
  ASSUME queue \in Seq(EntryType)
  PROVE  /\ Entries = {queue[i] : i \in 1 .. Len(queue)}
         /\ Entries \subseteq EntryType
         /\ Len(queue) \in Nat
BY LenProperties, ElementOfSeq DEF Entries

LEMMA PutEntries ==
  ASSUME queue \in Seq(EntryType), queue' \in Seq(EntryType), NEW x \in EntryType,
         NEW d \in {0, 1}, d <= Len(queue), Shifted(d, x)
  PROVE  Entries' \subseteq Entries \union {x}
<1>1. Len(queue) \in Nat
  BY LenProperties
<1>2. ASSUME NEW i \in 1 .. Len(queue')
      PROVE  queue'[i] \in Entries \union {x}
  <2>1. i \in 1 .. Len(queue) - d \/ i = Len(queue) - d + 1
    BY <1>1, <1>2 DEF Shifted
  <2>2. CASE i \in 1 .. Len(queue) - d
    <3>1. i + d \in 1 .. Len(queue)
      BY <1>1, <2>2
    <3> QED
      BY <2>2, <3>1, EntriesAre DEF Shifted
  <2> QED
    BY <2>1, <2>2 DEF Shifted
<1> QED
  BY <1>2, LenProperties DEF Entries

LEMMA TakeEffect ==
  ASSUME queue \in Seq(EntryType), queue # <<>>, queue' = Tail(queue)
  PROVE  /\ queue' \in Seq(EntryType) /\ Len(queue) \in Nat /\ Len(queue) > 0
         /\ Len(queue') = Len(queue) - 1
         /\ \A i \in 1 .. Len(queue) - 1 : queue'[i] = queue[i + 1]
         /\ Head(queue) = queue[1] /\ Head(queue) \in EntryType
         /\ Entries' \subseteq Entries /\ Head(queue) \in Entries
<1>1. /\ queue' \in Seq(EntryType) /\ Len(queue) \in Nat /\ Len(queue) > 0
      /\ Len(queue') = Len(queue) - 1
      /\ \A i \in 1 .. Len(queue) - 1 : queue'[i] = queue[i + 1]
      /\ Head(queue) = queue[1] /\ Head(queue) \in EntryType
  BY HeadTailProperties, EmptySeq, LenProperties
<1>2. ASSUME NEW i \in 1 .. Len(queue')
      PROVE  queue'[i] \in Entries
  <2>1. i + 1 \in 1 .. Len(queue) /\ i \in 1 .. Len(queue) - 1
    BY <1>1, <1>2
  <2> QED
    BY <1>1, <2>1, EntriesAre
<1>3. Entries' \subseteq Entries
  BY <1>1, <1>2, LenProperties DEF Entries
<1>4. 1 \in 1 .. Len(queue)
  BY <1>1
<1> QED
  BY <1>1, <1>3, <1>4, EntriesAre

LEMMA FetchedInSample ==
  ASSUME RestTyped, FetchedInv
  PROVE  fetched \in Sample
<1>1. /\ crashes \in Nat /\ failures \in Nat /\ crashes <= MaxFaults
      /\ TotalRollout \in Nat /\ MaxFaults \in Nat /\ MaxSample \in Nat
      /\ fetched \in Nat /\ fetched > 0 /\ fetched <= crashes * TotalRollout + TotalRollout
  BY Numbers DEF RestTyped, FetchedInv
<1>2. MaxSample >= (MaxFaults + 1) * TotalRollout
  BY AsyncConstants
<1>3. PICK k \in Nat : MaxFaults = crashes + k
  <2>1. MaxFaults - crashes \in Nat /\ MaxFaults = crashes + (MaxFaults - crashes)
    BY <1>1
  <2> QED
    BY <2>1
<1>4. (MaxFaults + 1) * TotalRollout = crashes * TotalRollout + k * TotalRollout + TotalRollout
  BY <1>1, <1>3
<1>5. k * TotalRollout \in Nat /\ crashes * TotalRollout \in Nat
  BY <1>1
<1>6. fetched <= MaxSample
  BY <1>1, <1>2, <1>4, <1>5
<1> QED
  BY <1>1, <1>6 DEF Sample

(* Finished tasks leave the set of tasks.                                   *)
LEMMA ReapEffect ==
  ASSUME RolloutTyped, NEW next, Reap(next)
  PROVE  /\ active' \in SUBSET active
         /\ task' \in [Sample -> {"none", "generating", "put", "done", "failed"}]
         /\ \A x \in Sample : \/ task'[x] = task[x] /\ (x \in active => x \in active')
                              \/ task'[x] = "none"
         /\ pc' \in {"failed", next}
<1>1. Finished \subseteq active /\ active \subseteq Sample
  BY DEF Finished, RolloutTyped
<1>2. task' = [s \in Sample |-> IF s \in Finished THEN "none" ELSE task[s]]
  BY DEF Reap
<1>3. active' = active \ Finished /\ pc' \in {"failed", next}
  BY DEF Reap
<1>4. \A x \in Sample : task[x] \in {"none", "generating", "put", "done", "failed"}
  BY DEF RolloutTyped
<1>5. task' \in [Sample -> {"none", "generating", "put", "done", "failed"}]
  BY <1>2, <1>4
<1>6. \A x \in Sample : task'[x] = IF x \in Finished THEN "none" ELSE task[x]
  BY <1>2
<1> QED
  BY <1>1, <1>3, <1>5, <1>6

-----------------------------------------------------------------------------
LEMMA RolloutTypedStep ==
  ASSUME RolloutTyped, RestTyped, FetchedInv, ActiveInv, Next
  PROVE  RolloutTyped'
<1> USE DEF feeding, tasks, gate, service, rollout
<1>1. CASE FeedSample
  <2>1. pending' \in Seq(EntryType)
    BY <1>1, FetchedInSample, AppendProperties DEF FeedSample, RolloutTyped, EntryType
  <2>2. globalSteps' \in Nat \ {0} /\ feed' \in {"feeding", "ending", "over"}
    BY <1>1 DEF FeedSample, RolloutTyped
  <2> QED
    BY <1>1, <2>1, <2>2 DEF FeedSample, RolloutTyped
<1>2. CASE FeedEnd
  <2>1. pending' \in Seq(EntryType)
    BY <1>2, AppendProperties DEF FeedEnd, RolloutTyped, EntryType
  <2> QED
    BY <1>2, <2>1 DEF FeedEnd, RolloutTyped
<1>3. CASE CheckQueue
  BY <1>3 DEF CheckQueue, RolloutTyped
<1>4. CASE CheckStaleness
  BY <1>4 DEF CheckStaleness, RolloutTyped
<1>5. CASE Pause
  BY <1>5 DEF Pause, RolloutTyped
<1>6. CASE Drain
  <2>1. PICK next \in {"check", "drain"} : Reap(next)
    BY <1>6 DEF Drain
  <2> QED
    BY <1>6, <2>1, ReapEffect DEF Drain, RolloutTyped
<1>7. CASE Resume
  BY <1>7 DEF Resume, RolloutTyped
<1>8. CASE GetPending
  <2>1. pending' \in Seq(EntryType) /\ held' \in EntryType
    BY <1>8, HeadTailProperties DEF GetPending, RolloutTyped
  <2> QED
    BY <1>8, <2>1 DEF GetPending, RolloutTyped
<1>9. CASE AtLimit
  BY <1>9 DEF AtLimit, RolloutTyped
<1>10. CASE TaskFreed
  BY <1>10, ReapEffect DEF TaskFreed, RolloutTyped
<1>11. CASE Submit
  <2>1. held \in Sample
    BY <1>11 DEF Submit, ActiveInv, RolloutTyped, EntryType
  <2>2. active' \in SUBSET Sample /\ held' \in EntryType
    BY <1>11, <2>1 DEF Submit, RolloutTyped, EntryType
  <2>3. task' \in [Sample -> {"none", "generating", "put", "done", "failed"}]
    BY <1>11, <2>1 DEF Submit, RolloutTyped
  <2> QED
    BY <1>11, <2>2, <2>3 DEF Submit, RolloutTyped
<1>12. CASE AwaitTasks
  BY <1>12 DEF AwaitTasks, RolloutTyped
<1>13. CASE TaskFinished
  BY <1>13, ReapEffect DEF TaskFinished, RolloutTyped
<1>14. ASSUME NEW s \in Sample, SamplePut(s) \/ TaskReturns(s) \/ GenerationRaises(s)
       PROVE  RolloutTyped'
  <2>1. task' \in [Sample -> {"none", "generating", "put", "done", "failed"}]
    BY <1>14 DEF SamplePut, TaskReturns, GenerationRaises, RolloutTyped
  <2> QED
    BY <1>14, <2>1 DEF SamplePut, TaskReturns, GenerationRaises, RolloutTyped
<1>15. CASE EndQueue
  BY <1>15 DEF EndQueue, RolloutTyped
<1>16. CASE StopRunning \/ MonitorLooks \/ MonitorResumes
  <2>1. CASE StopRunning
    BY <2>1 DEF StopRunning, RolloutTyped
  <2>2. CASE MonitorLooks
    BY <2>2 DEF MonitorLooks, RolloutTyped
  <2>3. CASE MonitorResumes
    BY <2>3 DEF MonitorResumes, RolloutTyped
  <2> QED
    BY <1>16, <2>1, <2>2, <2>3
<1>17. CASE TakeSample \/ LocalStep \/ PushWeights \/ Save \/ StopTraining
  BY <1>17 DEF TakeSample, LocalStep, PushWeights, Save, StopTraining, RolloutTyped
<1>18. CASE ResetBegins
  <2>1. Cardinality(active) \in Nat
    BY SampleFinite, FS_CardinalityType DEF RolloutTyped
  <2> QED
    BY <1>18, <2>1 DEF ResetBegins, RolloutTyped
<1>19. CASE ResetEnds
  <2>1. staleness' \in Nat /\ counted' \in Nat
    BY <1>19, LenProperties DEF ResetEnds, RolloutTyped, RestTyped
  <2> QED
    BY <1>19, <2>1 DEF ResetEnds, RolloutTyped
<1>20. CASE Restart
  <2>1. globalSteps' \in Nat \ {0}
    BY <1>20, Numbers DEF Restart, RestTyped
  <2>2. task' \in [Sample -> {"none", "generating", "put", "done", "failed"}]
    BY <1>20 DEF Restart
  <2>3. pending' \in Seq(EntryType) /\ active' \in SUBSET Sample /\ held' \in EntryType
    BY <1>20, EmptySeq DEF Restart, EntryType
  <2> QED
    BY <1>20, <2>1, <2>2, <2>3 DEF Restart, RolloutTyped
<1> QED
  BY <1>1, <1>2, <1>3, <1>4, <1>5, <1>6, <1>7, <1>8, <1>9, <1>10, <1>11, <1>12, <1>13,
     <1>14, <1>15, <1>16, <1>17, <1>18, <1>19, <1>20 DEF Next

LEMMA RestTypedStep ==
  ASSUME RolloutTyped, RestTyped, FetchedInv, ActiveInv, StaleInv, Next
  PROVE  RestTyped'
<1> USE DEF train, mq, outside
<1>1. ASSUME NEW x \in EntryType, PutSample(x)
      PROVE  queue' \in Seq(EntryType) /\ dropped' \in SUBSET EntryType
  BY <1>1, PutEffect DEF StaleInv
<1>2. CASE \/ FeedSample \/ FeedEnd \/ CheckQueue \/ CheckStaleness \/ Pause \/ Drain
           \/ Resume \/ GetPending \/ AtLimit \/ TaskFreed \/ AwaitTasks \/ TaskFinished
           \/ StopRunning \/ MonitorLooks \/ MonitorResumes
  <2>1. UNCHANGED <<mq, train, outside>>
    BY <1>2 DEF FeedSample, FeedEnd, CheckQueue, CheckStaleness, Pause, Drain, Resume,
                GetPending, AtLimit, TaskFreed, AwaitTasks, TaskFinished, StopRunning,
                MonitorLooks, MonitorResumes
  <2> QED
    BY <2>1 DEF RestTyped
<1>3. CASE Submit
  <2>1. held \in Sample
    BY <1>3 DEF Submit, ActiveInv, RolloutTyped, EntryType
  <2> QED
    BY <1>3, <2>1 DEF Submit, RestTyped
<1>4. ASSUME NEW s \in Sample, SamplePut(s)
      PROVE  RestTyped'
  <2>1. queue' \in Seq(EntryType) /\ dropped' \in SUBSET EntryType
    BY <1>1, <1>4 DEF SamplePut, EntryType
  <2> QED
    BY <1>4, <2>1 DEF SamplePut, RestTyped
<1>5. ASSUME NEW s \in Sample, TaskReturns(s) \/ GenerationRaises(s)
      PROVE  RestTyped'
  <2>1. CASE TaskReturns(s)
    BY <2>1 DEF TaskReturns, RestTyped
  <2>2. CASE GenerationRaises(s)
    BY <2>2 DEF GenerationRaises, RestTyped
  <2> QED
    BY <1>5, <2>1, <2>2
<1>6. CASE EndQueue
  <2>1. queue' \in Seq(EntryType) /\ dropped' \in SUBSET EntryType
    BY <1>1, <1>6 DEF EndQueue, EntryType
  <2> QED
    BY <1>6, <2>1 DEF EndQueue, RestTyped
<1>7. CASE TakeSample
  <2>1. queue' \in Seq(EntryType) /\ Head(queue) \in EntryType
    BY <1>7, TakeEffect DEF TakeSample, RestTyped
  <2>2. batch' \in SUBSET Sample
    BY <1>7, <2>1 DEF TakeSample, RestTyped, EntryType
  <2> QED
    BY <1>7, <2>1, <2>2 DEF TakeSample, RestTyped
<1>8. CASE LocalStep
  <2>1. trained' \in SUBSET Sample /\ fresh' \in SUBSET Sample /\ batch' \in SUBSET Sample
    BY <1>8 DEF LocalStep, RestTyped
  <2>2. Cardinality(batch \ fresh) \in Nat
    BY SampleFinite, FS_CardinalityType DEF RestTyped
  <2>3. staleUsed' \in Nat
    BY <1>8, <2>2 DEF LocalStep, RestTyped
  <2>4. localStep' \in 1 .. Trigger /\ version' \in Nat /\ savedVersion' \in 0 .. version'
    BY <1>8, Numbers DEF LocalStep, RestTyped
  <2> QED
    BY <1>8, <2>1, <2>3, <2>4 DEF LocalStep, RestTyped
<1>9. CASE PushWeights \/ ResetBegins \/ ResetEnds
  BY <1>9 DEF PushWeights, ResetBegins, ResetEnds, RestTyped
<1>10. CASE Save
  <2>1. checkpoint' \in [version : Nat, fetched : Nat, trained : SUBSET Sample]
    BY <1>10 DEF Save, RestTyped, FetchedInv
  <2>2. savedVersion' \in 0 .. version
    BY <1>10 DEF Save, RestTyped
  <2> QED
    BY <1>10, <2>1, <2>2 DEF Save, RestTyped
<1>11. CASE StopTraining
  BY <1>11 DEF StopTraining, RestTyped
<1>12. CASE Restart
  <2>1. queue' \in Seq(EntryType)
    BY <1>12, EmptySeq DEF Restart
  <2>2. /\ checkpoint.version \in Nat /\ checkpoint.trained \in SUBSET Sample
        /\ crashes + 1 \in Nat
    BY DEF RestTyped
  <2>3. /\ version' \in Nat /\ savedVersion' \in 0 .. version' /\ trained' \in SUBSET Sample
        /\ localStep' \in 1 .. Trigger /\ crashes' \in Nat
    BY <1>12, <2>2, Numbers DEF Restart
  <2> QED
    BY <1>12, <2>1, <2>3 DEF Restart, RestTyped
<1> QED
  BY <1>2, <1>3, <1>4, <1>5, <1>6, <1>7, <1>8, <1>9, <1>10, <1>11, <1>12 DEF Next

LEMMA FetchedStep ==
  ASSUME RolloutTyped, RestTyped, FetchedInv, InOrder, Next
  PROVE  FetchedInv'
<1>1. ASSUME UNCHANGED <<fetched, globalSteps, checkpoint, failures, crashes>>
      PROVE  FetchedInv'
  BY <1>1 DEF FetchedInv
<1>2. crashes * TotalRollout \in Nat /\ TotalRollout \in Nat /\ TotalRollout > 0
  BY Numbers DEF RestTyped
<1>3. PICK k \in Nat : k = crashes * TotalRollout
  BY <1>2
<1>4. /\ fetched \in Nat /\ fetched > 0 /\ globalSteps \in Nat /\ globalSteps > 0
      /\ fetched <= k + globalSteps /\ fetched <= k + TotalRollout
      /\ checkpoint.fetched <= fetched /\ checkpoint.fetched \in Nat
      /\ \A x \in checkpoint.trained : x <= checkpoint.fetched
      /\ failures \in Nat /\ crashes \in Nat /\ failures + crashes <= MaxFaults
      /\ MaxFaults \in Nat
  BY <1>3, Numbers DEF FetchedInv, RestTyped, RolloutTyped
<1>5. CASE FeedSample
  <2>1. UNCHANGED <<checkpoint, failures, crashes>>
    BY <1>5 DEF FeedSample, outside
  <2>2. \/ UNCHANGED <<fetched, globalSteps>>
        \/ /\ fetched' = fetched + 1 /\ globalSteps' = globalSteps + 1
           /\ globalSteps < TotalRollout
    BY <1>2, <1>4, <1>5 DEF FeedSample
  <2>3. /\ fetched' \in Nat /\ fetched' > 0 /\ fetched <= fetched'
        /\ fetched' <= k + globalSteps' /\ fetched' <= k + TotalRollout
    BY <1>2, <1>4, <2>2
  <2> QED
    BY <1>3, <1>4, <2>1, <2>3 DEF FetchedInv
<1>6. CASE \/ FeedEnd \/ CheckQueue \/ CheckStaleness \/ Pause \/ Drain
           \/ Resume \/ GetPending \/ AtLimit \/ TaskFreed \/ AwaitTasks \/ TaskFinished
           \/ StopRunning \/ MonitorLooks \/ MonitorResumes
  <2>1. UNCHANGED <<fetched, globalSteps, checkpoint, failures, crashes>>
    BY <1>6 DEF FeedEnd, CheckQueue, CheckStaleness, Pause, Drain, Resume, feeding,
                GetPending, AtLimit, TaskFreed, AwaitTasks, TaskFinished, StopRunning,
                MonitorLooks, MonitorResumes, outside
  <2> QED
    BY <1>1, <2>1
<1>7. ASSUME NEW s \in Sample, GenerationRaises(s)
      PROVE  FetchedInv'
  <2>1. /\ UNCHANGED <<fetched, globalSteps, checkpoint, crashes>> /\ failures' = failures + 1
        /\ failures + crashes < MaxFaults
    BY <1>7 DEF GenerationRaises, feeding
  <2>2. failures' + crashes' <= MaxFaults
    BY <1>4, <2>1
  <2> QED
    BY <2>1, <2>2 DEF FetchedInv
<1>8. CASE \/ Submit \/ EndQueue \/ TakeSample \/ LocalStep \/ PushWeights \/ ResetBegins
           \/ ResetEnds \/ StopTraining \/ \E s \in Sample : SamplePut(s) \/ TaskReturns(s)
  <2>1. UNCHANGED <<fetched, globalSteps, checkpoint, failures, crashes>>
    BY <1>8 DEF Submit, EndQueue, TakeSample, LocalStep, PushWeights, ResetBegins, ResetEnds,
                StopTraining, SamplePut, TaskReturns, feeding, rollout, outside
  <2> QED
    BY <1>1, <2>1
<1>9. CASE Save
  <2>1. UNCHANGED <<fetched, globalSteps, failures, crashes>>
    BY <1>9 DEF Save, feeding, rollout
  <2>2. checkpoint' = checkpoint \/ (checkpoint'.fetched = fetched /\ checkpoint'.trained = trained)
    BY <1>9 DEF Save
  <2>3. \A x \in trained : x <= fetched
    BY DEF InOrder, Used, RestTyped
  <2>4. /\ checkpoint'.fetched <= fetched
        /\ \A x \in checkpoint'.trained : x <= checkpoint'.fetched
    BY <1>4, <2>2, <2>3
  <2> QED
    BY <2>1, <2>4 DEF FetchedInv
<1>10. CASE Restart
  <2>1. /\ fetched' = checkpoint.fetched + 1 /\ crashes' = crashes + 1
        /\ globalSteps' = checkpoint.version * VersionSamples + 1
        /\ failures + crashes < MaxFaults /\ UNCHANGED <<checkpoint, failures>>
    BY <1>10 DEF Restart
  <2>2. checkpoint.version * VersionSamples \in Nat
    BY Numbers DEF RestTyped
  <2>3. crashes' * TotalRollout = k + TotalRollout
    BY <1>2, <1>3, <1>4, <2>1
  <2>4. /\ fetched' \in Nat /\ fetched' > 0 /\ globalSteps' >= 1
        /\ fetched' <= k + TotalRollout + 1
        /\ failures' + crashes' <= MaxFaults /\ checkpoint'.fetched <= fetched'
    BY <1>2, <1>4, <2>1, <2>2
  <2>5. /\ fetched' <= k + TotalRollout + globalSteps'
        /\ fetched' <= k + TotalRollout + TotalRollout
    BY <1>2, <2>1, <2>2, <2>4
  <2>6. \A x \in checkpoint'.trained : x <= checkpoint'.fetched
    BY <1>4, <2>1
  <2> QED
    BY <2>3, <2>4, <2>5, <2>6 DEF FetchedInv
<1> QED
  BY <1>5, <1>6, <1>7, <1>8, <1>9, <1>10 DEF Next

-----------------------------------------------------------------------------
(* Nothing new is used and nothing waits that did not.                      *)
LEMMA OrderKept ==
  ASSUME RolloutTyped, InOrder, Used' \subseteq Used, UNCHANGED <<held, pending, fetched>>,
         feed' = feed \/ feed' # "feeding"
  PROVE  InOrder'
<1>1. \A x \in Sample : Waiting(x)' <=> Waiting(x)
  BY DEF Waiting
<1>2. \A x \in Used' : \A w \in Sample : Waiting(w)' => x < w
  BY <1>1 DEF InOrder
<1>3. \A x \in Sample : x \in Used' \/ Waiting(x)' =>
        x <= fetched' /\ (feed' = "feeding" => x < fetched')
  BY <1>1 DEF InOrder
<1>4. \A i \in 1 .. Len(pending') : pending'[i] # End =>
        /\ held' < pending'[i]
        /\ \A j \in 1 .. Len(pending') : i < j /\ pending'[j] # End => pending'[i] < pending'[j]
  BY DEF InOrder
<1> QED
  BY <1>2, <1>3, <1>4 DEF InOrder

LEMMA UsedKept ==
  ASSUME RolloutTyped, RestTyped, UNCHANGED <<queue, batch, trained>>,
         \A x \in Sample : task'[x] # "none" => task[x] # "none"
  PROVE  Used' \subseteq Used
<1>1. Entries' = Entries
  BY DEF Entries
<1> QED
  BY <1>1 DEF Used

(* A task exists, or the end signal is put: nothing new is used.            *)
LEMMA UsedAfterPut ==
  ASSUME RolloutTyped, RestTyped, StaleInv, NEW x \in EntryType, PutSample(x),
         UNCHANGED <<batch, trained>>, x # End => task[x] # "none",
         \A y \in Sample : task'[y] # "none" => task[y] # "none"
  PROVE  Used' \subseteq Used
<1>1. queue' \in Seq(EntryType) /\ \E d \in {0, 1} : d <= Len(queue) /\ Shifted(d, x)
  BY PutEffect DEF StaleInv
<1>2. Entries' \subseteq Entries \union {x}
  BY <1>1, PutEntries DEF RestTyped
<1>3. End \notin Sample
  BY DEF End, Sample
<1> QED
  BY <1>2, <1>3 DEF Used

LEMMA OrderStep ==
  ASSUME RolloutTyped, RestTyped, FetchedInv, InOrder, ActiveInv, StaleInv, Next
  PROVE  InOrder'
<1> USE DEF feeding, tasks, gate, service, rollout, mq, train, outside
<1>0. /\ End \notin Sample /\ Sample \subseteq Nat /\ End \in Nat
      /\ pending \in Seq(EntryType) /\ held \in EntryType /\ Len(pending) \in Nat
      /\ \A i \in 1 .. Len(pending) : pending[i] \in EntryType
      /\ fetched \in Sample
  BY LenProperties, ElementOfSeq, FetchedInSample DEF End, Sample, RolloutTyped
<1>1. CASE FeedSample
  <2>1. pending' = Append(pending, fetched) /\ UNCHANGED <<held, task, queue, batch, trained>>
    BY <1>1 DEF FeedSample
  <2>2. /\ Len(pending') = Len(pending) + 1
        /\ \A i \in 1 .. Len(pending) : pending'[i] = pending[i]
        /\ pending'[Len(pending) + 1] = fetched
    BY <1>0, <2>1, AppendProperties DEF EntryType
  <2>3. Used' \subseteq Used
    BY <2>1, UsedKept
  <2>4. \A x \in Sample : x \in Used \/ Waiting(x) => x < fetched
    BY <1>1 DEF FeedSample, InOrder
  <2>5. \A x \in Sample : Waiting(x)' => Waiting(x) \/ x = fetched
    BY <1>0, <2>1, <2>2 DEF Waiting
  <2>6. \A x \in Used' : \A w \in Sample : Waiting(w)' => x < w
    BY <2>3, <2>4, <2>5 DEF InOrder, Used
  <2>7. (fetched' = fetched /\ feed' # "feeding") \/ fetched' = fetched + 1
    BY <1>1 DEF FeedSample
  <2>8. \A x \in Sample : x \in Used' \/ Waiting(x)' =>
          x <= fetched' /\ (feed' = "feeding" => x < fetched')
    BY <1>0, <2>3, <2>4, <2>5, <2>7
  <2>9. \A i \in 1 .. Len(pending') : i \in 1 .. Len(pending) \/ i = Len(pending) + 1
    BY <1>0, <2>2
  <2>10. \A i \in 1 .. Len(pending) : pending[i] # End => pending[i] < fetched
    BY <1>0, <2>4 DEF Waiting, EntryType
  <2>11. held < fetched
    BY <1>0, <2>4 DEF Waiting, EntryType, End, Sample
  <2>12. ASSUME NEW i \in 1 .. Len(pending'), pending'[i] # End
         PROVE  /\ held' < pending'[i]
                /\ \A j \in 1 .. Len(pending') : i < j /\ pending'[j] # End =>
                     pending'[i] < pending'[j]
    <3>1. CASE i = Len(pending) + 1
      <4>1. \A j \in 1 .. Len(pending') : ~(i < j)
        BY <1>0, <2>2, <3>1
      <4> QED
        BY <2>1, <2>2, <2>11, <3>1, <4>1
    <3>2. CASE i \in 1 .. Len(pending)
      <4>1. held' < pending'[i]
        BY <2>1, <2>2, <2>12, <3>2 DEF InOrder
      <4>2. \A j \in 1 .. Len(pending) : i < j /\ pending'[j] # End => pending'[i] < pending'[j]
        BY <2>2, <2>12, <3>2 DEF InOrder
      <4>3. pending'[i] < fetched
        BY <2>2, <2>10, <2>12, <3>2
      <4> QED
        BY <2>2, <2>9, <4>1, <4>2, <4>3
    <3> QED
      BY <2>9, <2>12, <3>1, <3>2
  <2> QED
    BY <2>6, <2>8, <2>12 DEF InOrder
<1>2. CASE FeedEnd
  <2>1. /\ pending' = Append(pending, End) /\ UNCHANGED <<held, task, queue, batch, trained>>
        /\ feed' = "over" /\ fetched' = fetched
    BY <1>2 DEF FeedEnd
  <2>2. /\ Len(pending') = Len(pending) + 1
        /\ \A i \in 1 .. Len(pending) : pending'[i] = pending[i]
        /\ pending'[Len(pending) + 1] = End
    BY <1>0, <2>1, AppendProperties DEF EntryType
  <2>3. Used' \subseteq Used
    BY <2>1, UsedKept
  <2>4. \A i \in 1 .. Len(pending') : pending'[i] # End => i \in 1 .. Len(pending)
    BY <1>0, <2>2
  <2>5. \A x \in Sample : Waiting(x)' => Waiting(x)
    BY <2>1, <2>2, <2>4 DEF Waiting
  <2>6. \A x \in Used' : \A w \in Sample : Waiting(w)' => x < w
    BY <2>3, <2>5 DEF InOrder
  <2>7. \A x \in Sample : x \in Used' \/ Waiting(x)' =>
          x <= fetched' /\ (feed' = "feeding" => x < fetched')
    BY <2>1, <2>3, <2>5 DEF InOrder
  <2>8. ASSUME NEW i \in 1 .. Len(pending'), pending'[i] # End
        PROVE  /\ held' < pending'[i]
               /\ \A j \in 1 .. Len(pending') : i < j /\ pending'[j] # End =>
                    pending'[i] < pending'[j]
    <3>1. i \in 1 .. Len(pending) /\ pending[i] # End /\ pending'[i] = pending[i]
      BY <2>2, <2>4, <2>8
    <3> QED
      BY <2>1, <2>2, <2>4, <3>1 DEF InOrder
  <2> QED
    BY <2>6, <2>7, <2>8 DEF InOrder
<1>3. CASE GetPending
  <2>1. /\ held' = Head(pending) /\ pending' = Tail(pending) /\ pending # <<>>
        /\ UNCHANGED <<feed, fetched, task, queue, batch, trained>>
    BY <1>3 DEF GetPending
  <2>2. /\ Len(pending') = Len(pending) - 1 /\ held' = pending[1] /\ Len(pending) > 0
        /\ \A i \in 1 .. Len(pending') : pending'[i] = pending[i + 1]
    BY <1>0, <2>1, HeadTailProperties, EmptySeq
  <2>3. Used' \subseteq Used
    BY <2>1, UsedKept
  <2>4. 1 \in 1 .. Len(pending) /\ \A i \in 1 .. Len(pending') : i + 1 \in 1 .. Len(pending)
    BY <1>0, <2>2
  <2>5. \A x \in Sample : Waiting(x)' => Waiting(x)
    BY <2>2, <2>4 DEF Waiting
  <2>6. \A x \in Used' : \A w \in Sample : Waiting(w)' => x < w
    BY <2>3, <2>5 DEF InOrder
  <2>7. \A x \in Sample : x \in Used' \/ Waiting(x)' =>
          x <= fetched' /\ (feed' = "feeding" => x < fetched')
    BY <2>1, <2>3, <2>5 DEF InOrder
  <2>8. ASSUME NEW i \in 1 .. Len(pending'), pending'[i] # End
        PROVE  /\ held' < pending'[i]
               /\ \A j \in 1 .. Len(pending') : i < j /\ pending'[j] # End =>
                    pending'[i] < pending'[j]
    <3>1. /\ i \in Nat /\ 1 < i + 1 /\ i + 1 \in 1 .. Len(pending)
          /\ pending[i + 1] \in Sample /\ pending'[i] = pending[i + 1]
      BY <1>0, <2>2, <2>4, <2>8 DEF EntryType
    <3>2. held' < pending'[i]
      <4>1. CASE held' = End
        BY <3>1, <4>1 DEF End, Sample
      <4>2. CASE held' # End
        BY <1>0, <2>2, <2>4, <2>8, <3>1, <4>2 DEF InOrder
      <4> QED
        BY <4>1, <4>2
    <3>3. ASSUME NEW j \in 1 .. Len(pending'), i < j, pending'[j] # End
          PROVE  pending'[i] < pending'[j]
      <4>1. i + 1 < j + 1 /\ j + 1 \in 1 .. Len(pending) /\ pending'[j] = pending[j + 1]
        BY <2>2, <2>4, <3>1, <3>3
      <4> QED
        BY <2>8, <3>1, <3>3, <4>1 DEF InOrder
    <3> QED
      BY <3>2, <3>3
  <2> QED
    BY <2>6, <2>7, <2>8 DEF InOrder
<1>4. CASE Submit
  <2>1. /\ held \in Sample /\ held' = End /\ task' = [task EXCEPT ![held] = "generating"]
        /\ UNCHANGED <<pending, feed, fetched, queue, batch, trained>>
    BY <1>0, <1>4 DEF Submit, ActiveInv, EntryType
  <2>2. Used' \subseteq Used \union {held}
    <3>1. Entries' = Entries /\ \A x \in Sample : x # held => task'[x] = task[x]
      BY <2>1 DEF Entries, RolloutTyped
    <3> QED
      BY <2>1, <3>1 DEF Used
  <2>3. \A x \in Sample : Waiting(x)' => \E i \in 1 .. Len(pending) : pending[i] = x
    BY <2>1 DEF Waiting
  <2>4. \A x \in Sample : Waiting(x)' => Waiting(x) /\ held < x
    BY <1>0, <2>3 DEF Waiting, InOrder
  <2>5. \A x \in Used' : \A w \in Sample : Waiting(w)' => x < w
    BY <2>2, <2>4 DEF InOrder
  <2>6. Waiting(held)
    BY <1>0, <2>1 DEF Waiting
  <2>7. \A x \in Sample : x \in Used' \/ Waiting(x)' =>
          x <= fetched' /\ (feed' = "feeding" => x < fetched')
    BY <2>1, <2>2, <2>4, <2>6 DEF InOrder
  <2>8. \A i \in 1 .. Len(pending) : pending[i] # End => End < pending[i]
    BY <1>0 DEF EntryType, End, Sample
  <2> QED
    BY <2>1, <2>5, <2>7, <2>8 DEF InOrder
<1>5. ASSUME NEW s \in Sample, SamplePut(s)
      PROVE  InOrder'
  <2>1. /\ PutSample(s) /\ task[s] = "generating" /\ task' = [task EXCEPT ![s] = "put"]
        /\ UNCHANGED <<held, pending, feed, fetched, batch, trained>>
    BY <1>5 DEF SamplePut
  <2>2. \A y \in Sample : task'[y] # "none" => task[y] # "none"
    BY <2>1 DEF RolloutTyped
  <2>3. Used' \subseteq Used
    BY <2>1, <2>2, UsedAfterPut DEF EntryType
  <2> QED
    BY <2>1, <2>3, OrderKept
<1>6. ASSUME NEW s \in Sample, TaskReturns(s) \/ GenerationRaises(s)
      PROVE  InOrder'
  <2>1. /\ task[s] # "none"
        /\ task' = [task EXCEPT ![s] = "done"] \/ task' = [task EXCEPT ![s] = "failed"]
        /\ UNCHANGED <<held, pending, feed, fetched, queue, batch, trained>>
    BY <1>6 DEF TaskReturns, GenerationRaises
  <2>2. \A y \in Sample : task'[y] # "none" => task[y] # "none"
    BY <2>1 DEF RolloutTyped
  <2> QED
    BY <2>1, <2>2, UsedKept, OrderKept
<1>7. CASE EndQueue
  <2>1. /\ PutSample(End) /\ feed' = "over"
        /\ UNCHANGED <<held, pending, fetched, task, batch, trained>>
    BY <1>7 DEF EndQueue
  <2>2. Used' \subseteq Used
    BY <2>1, UsedAfterPut DEF EntryType
  <2> QED
    BY <2>1, <2>2, OrderKept
<1>8. CASE Drain \/ TaskFreed \/ TaskFinished
  <2>1. /\ \E next \in {"check", "drain", "limit", "finish"} : Reap(next)
        /\ UNCHANGED <<held, pending, feed, fetched, queue, batch, trained>>
    BY <1>8 DEF Drain, TaskFreed, TaskFinished
  <2>2. \A x \in Sample : task'[x] # "none" => task[x] # "none"
    BY <2>1, ReapEffect
  <2> QED
    BY <2>1, <2>2, UsedKept, OrderKept
<1>9. CASE TakeSample
  <2>1. /\ queue \in Seq(EntryType) /\ queue # <<>> /\ queue' = Tail(queue)
        /\ batch' \subseteq batch \union ({Head(queue)} \ {End})
        /\ UNCHANGED <<held, pending, feed, fetched, task, trained>>
    BY <1>9 DEF TakeSample, RestTyped
  <2>2. Entries' \subseteq Entries /\ Head(queue) \in Entries
    BY <2>1, TakeEffect
  <2>3. Used' \subseteq Used
    BY <2>1, <2>2 DEF Used
  <2> QED
    BY <2>1, <2>3, OrderKept
<1>10. CASE LocalStep
  <2>1. /\ trained' = trained \union batch /\ batch' = {}
        /\ UNCHANGED <<held, pending, feed, fetched, task, queue>>
    BY <1>10 DEF LocalStep
  <2>2. Used' \subseteq Used
    BY <2>1 DEF Used, Entries
  <2> QED
    BY <2>1, <2>2, OrderKept
<1>11. CASE \/ CheckQueue \/ CheckStaleness \/ Pause \/ Resume \/ AtLimit \/ AwaitTasks
            \/ StopRunning \/ MonitorLooks \/ MonitorResumes \/ PushWeights \/ ResetBegins
            \/ ResetEnds \/ Save \/ StopTraining
  <2>1. UNCHANGED <<held, pending, feed, fetched, task, queue, batch, trained>>
    BY <1>11 DEF CheckQueue, CheckStaleness, Pause, Resume, AtLimit, AwaitTasks, StopRunning,
         MonitorLooks, MonitorResumes, PushWeights, ResetBegins, ResetEnds, Save, StopTraining
  <2> QED
    BY <2>1, UsedKept, OrderKept
<1>12. CASE Restart
  <2>1. /\ pending' = <<>> /\ held' = End /\ queue' = <<>> /\ batch' = {}
        /\ task' = [s \in Sample |-> "none"] /\ trained' = checkpoint.trained
        /\ fetched' = checkpoint.fetched + 1
    BY <1>12 DEF Restart
  <2>2. Len(pending') = 0 /\ \A x \in Sample : ~Waiting(x)'
    BY <2>1 DEF Waiting
  <2>3. Entries' = {}
    BY <2>1 DEF Entries
  <2>4. \A x \in Used' : x \in checkpoint.trained
    BY <2>1, <2>3 DEF Used
  <2>5. \A x \in Used' : x \in Nat /\ x <= checkpoint.fetched /\ checkpoint.fetched \in Nat
    BY <1>0, <2>4 DEF FetchedInv, RestTyped
  <2>6. \A x \in Sample : x \in Used' \/ Waiting(x)' =>
          x <= fetched' /\ (feed' = "feeding" => x < fetched')
    BY <2>1, <2>2, <2>5
  <2>7. \A x \in Used' : \A w \in Sample : Waiting(w)' => x < w
    BY <2>2
  <2> QED
    BY <2>2, <2>6, <2>7 DEF InOrder
<1> QED
  BY <1>1, <1>2, <1>3, <1>4, <1>5, <1>6, <1>7, <1>8, <1>9, <1>10, <1>11, <1>12 DEF Next

-----------------------------------------------------------------------------
(* Nothing begins to be generated, and the rest stays where it is.          *)
LEMMA OnePlaceKept ==
  ASSUME OnePlace, UNCHANGED <<queue, batch, trained>>,
         \A x \in Sample : task'[x] = "generating" => task[x] = "generating"
  PROVE  OnePlace'
<1>1. Entries' = Entries
  BY DEF Entries
<1> QED
  BY <1>1 DEF OnePlace

(* x is put where it has not been.                                          *)
LEMMA OnePlaceAfterPut ==
  ASSUME RestTyped, StaleInv, OnePlace, NEW x \in EntryType, PutSample(x),
         UNCHANGED <<batch, trained>>,
         x # End => x \notin Entries \union batch \union trained /\ task'[x] # "generating",
         \A y \in Sample : task'[y] = "generating" => task[y] = "generating"
  PROVE  OnePlace'
<1>1. queue' \in Seq(EntryType) /\ \E d \in {0, 1} : d <= Len(queue) /\ Shifted(d, x)
  BY PutEffect DEF StaleInv
<1>2. Entries' \subseteq Entries \union {x}
  BY <1>1, PutEntries DEF RestTyped
<1>3. PICK d \in {0, 1} : d <= Len(queue) /\ Shifted(d, x)
  BY <1>1
<1>4. /\ Len(queue) \in Nat /\ \A i \in 1 .. Len(queue) : queue[i] \in Entries
      /\ \A i \in 1 .. Len(queue') :
           \/ i \in 1 .. Len(queue) - d /\ queue'[i] = queue[i + d] /\ i + d \in 1 .. Len(queue)
           \/ i = Len(queue) - d + 1 /\ queue'[i] = x
  <2>1. Len(queue) \in Nat /\ \A i \in 1 .. Len(queue) : queue[i] \in Entries
    BY EntriesAre DEF RestTyped
  <2>2. ASSUME NEW i \in 1 .. Len(queue')
        PROVE  \/ i \in 1 .. Len(queue) - d /\ queue'[i] = queue[i + d] /\ i + d \in 1 .. Len(queue)
               \/ i = Len(queue) - d + 1 /\ queue'[i] = x
    <3>1. i \in 1 .. Len(queue) - d \/ i = Len(queue) - d + 1
      BY <1>3, <2>1, <2>2 DEF Shifted
    <3>2. i \in 1 .. Len(queue) - d => i + d \in 1 .. Len(queue)
      BY <1>3, <2>1
    <3> QED
      BY <1>3, <3>1, <3>2 DEF Shifted
  <2> QED
    BY <2>1, <2>2
<1>5. ASSUME NEW i \in 1 .. Len(queue'), NEW j \in 1 .. Len(queue'), i < j, queue'[i] # End
      PROVE  queue'[i] # queue'[j]
  <2>1. i \in 1 .. Len(queue) - d /\ queue'[i] = queue[i + d] /\ i + d \in 1 .. Len(queue)
    <3>1. i # Len(queue) - d + 1
      BY <1>3, <1>4, <1>5 DEF Shifted
    <3> QED
      BY <1>4, <3>1
  <2>2. CASE j \in 1 .. Len(queue) - d /\ queue'[j] = queue[j + d] /\ j + d \in 1 .. Len(queue)
    <3>1. i + d < j + d
      BY <1>3, <1>4, <1>5
    <3> QED
      BY <1>5, <2>1, <2>2, <3>1 DEF OnePlace
  <2>3. CASE queue'[j] = x
    BY <1>4, <1>5, <2>1, <2>3
  <2> QED
    BY <1>4, <2>2, <2>3
<1>6. End \notin Sample
  BY DEF End, Sample
<1>7. /\ \A y \in Sample : task'[y] = "generating" => y \notin Entries' \union batch' \union trained'
      /\ \A y \in Sample : y \in Entries' => y \notin batch' \union trained'
      /\ batch' \intersect trained' = {}
  BY <1>2, <1>6 DEF OnePlace
<1> QED
  BY <1>5, <1>7 DEF OnePlace

LEMMA OnePlaceStep ==
  ASSUME RolloutTyped, RestTyped, FetchedInv, InOrder, OnePlace, ActiveInv, StaleInv, Next
  PROVE  OnePlace'
<1> USE DEF feeding, tasks, gate, service, rollout, mq, train, outside
<1>1. CASE Submit
  <2>1. /\ held \in Sample /\ task' = [task EXCEPT ![held] = "generating"]
        /\ UNCHANGED <<queue, batch, trained>>
    BY <1>1 DEF Submit, ActiveInv, RolloutTyped, EntryType
  <2>2. held \notin Used
    BY <2>1 DEF InOrder, Waiting, ActiveInv, End, Sample
  <2>3. Entries' = Entries /\ \A x \in Sample : x # held => task'[x] = task[x]
    BY <2>1 DEF Entries, RolloutTyped
  <2> QED
    BY <2>1, <2>2, <2>3 DEF OnePlace, Used
<1>2. ASSUME NEW s \in Sample, SamplePut(s)
      PROVE  OnePlace'
  <2>1. /\ PutSample(s) /\ task[s] = "generating" /\ task' = [task EXCEPT ![s] = "put"]
        /\ UNCHANGED <<batch, trained>>
    BY <1>2 DEF SamplePut
  <2>2. /\ task'[s] # "generating"
        /\ \A y \in Sample : task'[y] = "generating" => task[y] = "generating"
    BY <2>1 DEF RolloutTyped
  <2>3. s \notin Entries \union batch \union trained /\ s \in EntryType
    BY <2>1 DEF OnePlace, EntryType
  <2> QED
    BY <2>1, <2>2, <2>3, OnePlaceAfterPut
<1>3. ASSUME NEW s \in Sample, TaskReturns(s) \/ GenerationRaises(s)
      PROVE  OnePlace'
  <2>1. /\ task' = [task EXCEPT ![s] = "done"] \/ task' = [task EXCEPT ![s] = "failed"]
        /\ UNCHANGED <<queue, batch, trained>>
    BY <1>3 DEF TaskReturns, GenerationRaises
  <2>2. \A y \in Sample : task'[y] = "generating" => task[y] = "generating"
    BY <2>1 DEF RolloutTyped
  <2> QED
    BY <2>1, <2>2, OnePlaceKept
<1>4. CASE EndQueue
  <2>1. PutSample(End) /\ UNCHANGED <<task, batch, trained>>
    BY <1>4 DEF EndQueue
  <2> QED
    BY <2>1, OnePlaceAfterPut DEF EntryType
<1>5. CASE Drain \/ TaskFreed \/ TaskFinished
  <2>1. /\ \E next \in {"check", "drain", "limit", "finish"} : Reap(next)
        /\ UNCHANGED <<queue, batch, trained>>
    BY <1>5 DEF Drain, TaskFreed, TaskFinished
  <2>2. \A x \in Sample : task'[x] = "generating" => task[x] = "generating"
    BY <2>1, ReapEffect
  <2> QED
    BY <2>1, <2>2, OnePlaceKept
<1>6. CASE TakeSample
  <2>1. /\ queue \in Seq(EntryType) /\ queue # <<>> /\ queue' = Tail(queue)
        /\ batch' \subseteq batch \union ({Head(queue)} \ {End})
        /\ UNCHANGED <<task, trained>>
    BY <1>6 DEF TakeSample, RestTyped
  <2>2. /\ Len(queue) \in Nat /\ Len(queue) > 0 /\ Len(queue') = Len(queue) - 1
        /\ \A i \in 1 .. Len(queue) - 1 : queue'[i] = queue[i + 1]
        /\ Head(queue) = queue[1] /\ Head(queue) \in EntryType
        /\ Entries' \subseteq Entries /\ Head(queue) \in Entries /\ queue' \in Seq(EntryType)
    BY <2>1, TakeEffect
  <2>3. ASSUME NEW i \in 1 .. Len(queue')
        PROVE  /\ i \in Nat /\ i + 1 \in 1 .. Len(queue) /\ 1 \in 1 .. Len(queue) /\ 1 < i + 1
               /\ queue'[i] = queue[i + 1]
    BY <2>2, <2>3
  <2>4. Head(queue) # End => Head(queue) \notin Entries'
    <3>1. SUFFICES ASSUME Head(queue) # End, NEW i \in 1 .. Len(queue'), queue'[i] = Head(queue)
                   PROVE  FALSE
      BY <2>2, LenProperties DEF Entries
    <3> QED
      BY <2>2, <2>3, <3>1 DEF OnePlace
  <2>5. \A i, j \in 1 .. Len(queue') : i < j /\ queue'[i] # End => queue'[i] # queue'[j]
    <3>1. SUFFICES ASSUME NEW i \in 1 .. Len(queue'), NEW j \in 1 .. Len(queue'), i < j,
                          queue'[i] # End
                   PROVE  queue'[i] # queue'[j]
      OBVIOUS
    <3>2. i + 1 < j + 1
      BY <2>3, <3>1
    <3> QED
      BY <2>3, <3>1, <3>2 DEF OnePlace
  <2>6. End \notin Sample
    BY DEF End, Sample
  <2>7. /\ \A x \in Sample : task'[x] = "generating" => x \notin Entries' \union batch' \union trained'
        /\ \A x \in Sample : x \in Entries' => x \notin batch' \union trained'
        /\ batch' \intersect trained' = {}
    BY <2>1, <2>2, <2>4, <2>6 DEF OnePlace, EntryType, RestTyped
  <2> QED
    BY <2>5, <2>7 DEF OnePlace
<1>7. CASE LocalStep
  <2>1. trained' = trained \union batch /\ batch' = {} /\ UNCHANGED <<task, queue>>
    BY <1>7 DEF LocalStep
  <2>2. Entries' = Entries
    BY <2>1 DEF Entries
  <2> QED
    BY <2>1, <2>2 DEF OnePlace
<1>8. CASE \/ FeedSample \/ FeedEnd \/ GetPending
           \/ CheckQueue \/ CheckStaleness \/ Pause \/ Resume \/ AtLimit \/ AwaitTasks
           \/ StopRunning \/ MonitorLooks \/ MonitorResumes \/ PushWeights \/ ResetBegins
           \/ ResetEnds \/ Save \/ StopTraining
  <2>1. UNCHANGED <<task, queue, batch, trained>>
    BY <1>8 DEF FeedSample, FeedEnd, GetPending, CheckQueue, CheckStaleness, Pause, Resume,
         AtLimit, AwaitTasks, StopRunning, MonitorLooks, MonitorResumes, PushWeights,
         ResetBegins, ResetEnds, Save, StopTraining
  <2> QED
    BY <2>1, OnePlaceKept
<1>9. CASE Restart
  <2>1. queue' = <<>> /\ batch' = {} /\ task' = [s \in Sample |-> "none"]
    BY <1>9 DEF Restart
  <2>2. Entries' = {} /\ Len(queue') = 0
    BY <2>1 DEF Entries
  <2> QED
    BY <2>1, <2>2 DEF OnePlace
<1> QED
  BY <1>1, <1>2, <1>3, <1>4, <1>5, <1>6, <1>7, <1>8, <1>9 DEF Next

-----------------------------------------------------------------------------
LEMMA LockStep ==
  ASSUME RolloutTyped, RestTyped, LockInv, Next
  PROVE  LockInv'
<1> USE DEF feeding, tasks, gate, service, rollout, mq, train, outside
<1>1. ASSUME UNCHANGED <<lock, counted, active>>,
             pc' \in {"limited", "finishing"} <=> pc \in {"limited", "finishing"},
             trainer' = "resetting" <=> trainer = "resetting"
      PROVE  LockInv'
  BY <1>1 DEF LockInv
<1>2. CASE \/ FeedSample \/ FeedEnd \/ MonitorLooks \/ MonitorResumes \/ StopRunning
           \/ \E s \in Sample : SamplePut(s) \/ TaskReturns(s) \/ GenerationRaises(s)
  <2>1. UNCHANGED <<lock, counted, active, pc, trainer>>
    BY <1>2 DEF FeedSample, FeedEnd, MonitorLooks, MonitorResumes, StopRunning, SamplePut,
                TaskReturns, GenerationRaises
  <2> QED
    BY <1>1, <2>1
<1>3. CASE CheckQueue \/ CheckStaleness \/ Pause \/ Resume \/ GetPending \/ EndQueue
  <2>1. /\ UNCHANGED <<lock, counted, active, trainer>>
        /\ pc \in {"check", "compare", "pause", "drain", "get", "done", "failed"}
        /\ pc' \in {"pause", "compare", "get", "drain", "check", "finish", "limit", "ended"}
    BY <1>3 DEF CheckQueue, CheckStaleness, Pause, Resume, GetPending, EndQueue
  <2> QED
    BY <1>1, <2>1
<1>4. CASE Drain
  <2>1. /\ pc = "drain" /\ lock = "free" /\ pc' \in {"failed", "check", "drain"}
        /\ UNCHANGED <<lock, counted, trainer>>
    BY <1>4, ReapEffect DEF Drain
  <2> QED
    BY <2>1 DEF LockInv
<1>5. CASE AtLimit \/ AwaitTasks
  <2>1. /\ pc \in {"limit", "finish"} /\ UNCHANGED <<counted, active, trainer>>
        /\ \/ lock = "free" /\ lock' = "processor" /\ pc' \in {"limited", "finishing"}
           \/ pc' \in {"submit", "done"} /\ lock' = lock
    BY <1>5 DEF AtLimit, AwaitTasks
  <2> QED
    BY <2>1 DEF LockInv
<1>6. CASE TaskFreed \/ TaskFinished
  <2>1. /\ pc \in {"limited", "finishing"} /\ lock' = "free"
        /\ pc' \in {"failed", "limit", "finish"} /\ UNCHANGED <<counted, trainer>>
    BY <1>6, ReapEffect DEF TaskFreed, TaskFinished
  <2> QED
    BY <2>1 DEF LockInv
<1>7. CASE Submit
  <2>1. pc = "submit" /\ lock = "free" /\ pc' = "check" /\ UNCHANGED <<lock, counted, trainer>>
    BY <1>7 DEF Submit
  <2> QED
    BY <2>1 DEF LockInv
<1>8. CASE TakeSample \/ LocalStep \/ PushWeights \/ Save \/ StopTraining
  <2>1. /\ UNCHANGED <<lock, counted, active, pc>>
        /\ trainer # "resetting" /\ trainer' # "resetting"
    BY <1>8 DEF TakeSample, LocalStep, PushWeights, Save, StopTraining
  <2> QED
    BY <1>1, <2>1
<1>9. CASE ResetBegins
  <2>1. /\ trainer = "reset" /\ lock = "free" /\ lock' = "reset" /\ trainer' = "resetting"
        /\ counted' = Cardinality(active) /\ UNCHANGED <<active, pc>>
    BY <1>9 DEF ResetBegins
  <2> QED
    BY <2>1 DEF LockInv
<1>10. CASE ResetEnds
  <2>1. trainer = "resetting" /\ lock' = "free" /\ trainer' = "save" /\ counted' = 0 /\ pc' = pc
    BY <1>10 DEF ResetEnds
  <2> QED
    BY <2>1 DEF LockInv
<1>11. CASE Restart
  BY <1>11 DEF Restart, LockInv
<1> QED
  BY <1>2, <1>3, <1>4, <1>5, <1>6, <1>7, <1>8, <1>9, <1>10, <1>11 DEF Next

LEMMA ActiveStep ==
  ASSUME RolloutTyped, RestTyped, ActiveInv, Next
  PROVE  ActiveInv'
<1> USE DEF feeding, tasks, gate, service, rollout, mq, train, outside
<1>1. /\ IsFiniteSet(active) /\ Cardinality(active) \in Nat
      /\ Concurrent \in Nat /\ Concurrent > 0
  BY SampleFinite, FS_CardinalityType, LimitType DEF RolloutTyped, RestTyped
<1>2. maxRequired' = maxRequired => Concurrent' = Concurrent
  BY DEF Concurrent
<1>3. ASSUME UNCHANGED <<active, maxRequired, held>>,
             \A x \in Sample : task'[x] # "none" => task[x] # "none",
             pc' = "submit" => pc = "submit",
             pc' \in {"limit", "limited"} => pc \in {"limit", "limited"}
      PROVE  ActiveInv'
  BY <1>2, <1>3 DEF ActiveInv
<1>4. CASE \/ FeedSample \/ FeedEnd \/ MonitorLooks \/ MonitorResumes \/ StopRunning
           \/ TakeSample \/ LocalStep \/ PushWeights \/ ResetBegins \/ ResetEnds \/ Save
           \/ StopTraining
  <2>1. UNCHANGED <<active, maxRequired, held, task, pc>>
    BY <1>4 DEF FeedSample, FeedEnd, MonitorLooks, MonitorResumes, StopRunning, TakeSample,
                LocalStep, PushWeights, ResetBegins, ResetEnds, Save, StopTraining
  <2> QED
    BY <1>3, <2>1
<1>5. CASE CheckQueue \/ CheckStaleness \/ Pause \/ Resume \/ AwaitTasks \/ EndQueue
  <2>1. /\ UNCHANGED <<active, maxRequired, held, task>>
        /\ pc' \in {"pause", "compare", "get", "drain", "check", "finishing", "done", "ended"}
    BY <1>5 DEF CheckQueue, CheckStaleness, Pause, Resume, AwaitTasks, EndQueue
  <2> QED
    BY <1>3, <2>1
<1>6. ASSUME NEW s \in Sample, SamplePut(s) \/ TaskReturns(s) \/ GenerationRaises(s)
      PROVE  ActiveInv'
  <2>1. /\ UNCHANGED <<active, maxRequired, held, pc>> /\ task[s] # "none"
        /\ \E t \in {"put", "done", "failed"} : task' = [task EXCEPT ![s] = t]
    BY <1>6 DEF SamplePut, TaskReturns, GenerationRaises
  <2>2. \A x \in Sample : task'[x] # "none" => task[x] # "none"
    BY <2>1 DEF RolloutTyped
  <2> QED
    BY <1>3, <2>1, <2>2
<1>7. CASE GetPending
  <2>1. /\ UNCHANGED <<active, maxRequired, task>>
        /\ pc' = "finish" \/ (pc' = "limit" /\ held' # End)
    BY <1>7 DEF GetPending
  <2> QED
    BY <1>2, <2>1 DEF ActiveInv
<1>8. CASE AtLimit
  <2>1. /\ UNCHANGED <<active, maxRequired, task, held>> /\ pc = "limit"
        /\ \/ pc' = "limited"
           \/ pc' = "submit" /\ ~(Cardinality(active) >= Concurrent)
    BY <1>8 DEF AtLimit
  <2> QED
    BY <1>1, <1>2, <2>1 DEF ActiveInv
<1>9. CASE Drain \/ TaskFreed \/ TaskFinished
  <2>1. /\ \/ Reap("check") \/ Reap("drain") \/ Reap("finish")
           \/ Reap("limit") /\ pc = "limited"
        /\ UNCHANGED <<maxRequired, held>>
    BY <1>9 DEF Drain, TaskFreed, TaskFinished
  <2>2. /\ active' \in SUBSET active
        /\ \A x \in Sample : \/ task'[x] = task[x] /\ (x \in active => x \in active')
                             \/ task'[x] = "none"
        /\ \/ pc' \in {"failed", "check", "drain", "finish"}
           \/ pc' = "limit" /\ pc = "limited"
    BY <2>1, ReapEffect
  <2>3. Cardinality(active') \in Nat /\ Cardinality(active') <= Cardinality(active)
    BY <1>1, <2>2, FS_Subset, FS_CardinalityType
  <2>4. Cardinality(active') <= Concurrent'
    BY <1>1, <1>2, <2>1, <2>3 DEF ActiveInv
  <2> QED
    BY <2>1, <2>2, <2>4 DEF ActiveInv
<1>10. CASE Submit
  <2>1. /\ active' = active \union {held} /\ held \in Sample /\ pc = "submit" /\ pc' = "check"
        /\ task' = [task EXCEPT ![held] = "generating"] /\ maxRequired' = maxRequired
    BY <1>10 DEF Submit, ActiveInv, RolloutTyped, EntryType
  <2>2. Cardinality(active') <= Cardinality(active) + 1 /\ Cardinality(active') \in Nat
    BY <1>1, <2>1, AddOne
  <2>3. Cardinality(active') <= Concurrent'
    BY <1>1, <1>2, <2>1, <2>2 DEF ActiveInv
  <2>4. \A x \in Sample : task'[x] # "none" => x \in active'
    BY <2>1 DEF ActiveInv, RolloutTyped
  <2> QED
    BY <2>1, <2>3, <2>4 DEF ActiveInv
<1>11. CASE Restart
  <2>1. active' = {} /\ task' = [s \in Sample |-> "none"] /\ pc' = "check"
        /\ maxRequired' = maxRequired
    BY <1>11 DEF Restart
  <2>2. Cardinality({}) = 0
    BY FS_EmptySet
  <2> QED
    BY <1>1, <1>2, <2>1, <2>2 DEF ActiveInv
<1> QED
  BY <1>4, <1>5, <1>6, <1>7, <1>8, <1>9, <1>10, <1>11 DEF Next

LEMMA StaleStep ==
  ASSUME RolloutTyped, RestTyped, LockInv, ActiveInv, StaleInv, Next
  PROVE  StaleInv'
<1> USE DEF feeding, tasks, gate, service, rollout, mq, train, outside
<1>1. /\ maxRequired \in Nat /\ staleness \in Nat /\ counted \in Nat /\ Len(queue) \in Nat
      /\ Concurrent \in Nat /\ Concurrent <= maxRequired
      /\ Cardinality(active) \in Nat
  BY LimitType, LenProperties, SampleFinite, FS_CardinalityType DEF RolloutTyped, RestTyped
<1>2. ASSUME UNCHANGED <<queue, maxRequired, staleness>>, pc' = "get" => pc = "get"
      PROVE  StaleInv'
  BY <1>2 DEF StaleInv
<1>3. CASE \/ FeedSample \/ FeedEnd \/ MonitorLooks \/ MonitorResumes \/ StopRunning
           \/ LocalStep \/ PushWeights \/ ResetBegins \/ Save \/ StopTraining
  <2>1. UNCHANGED <<queue, maxRequired, staleness, pc>>
    BY <1>3 DEF FeedSample, FeedEnd, MonitorLooks, MonitorResumes, StopRunning,
                LocalStep, PushWeights, ResetBegins, Save, StopTraining
  <2> QED
    BY <1>2, <2>1
<1>4. CASE CheckQueue \/ Pause \/ Resume \/ AtLimit \/ AwaitTasks \/ Submit
  <2>1. UNCHANGED <<queue, maxRequired, staleness>> /\ pc' # "get"
    BY <1>4 DEF CheckQueue, Pause, Resume, AtLimit, AwaitTasks, Submit
  <2> QED
    BY <1>2, <2>1
<1>5. CASE CheckStaleness
  <2>1. UNCHANGED <<queue, maxRequired, staleness>> /\ (pc' = "get" => ~(staleness >= maxRequired))
    BY <1>5 DEF CheckStaleness, TooStale
  <2> QED
    BY <1>1, <2>1 DEF StaleInv
<1>6. CASE GetPending
  <2>1. /\ UNCHANGED <<queue, maxRequired>> /\ staleness' = staleness + 1
        /\ pc = "get" /\ pc' # "get"
    BY <1>6 DEF GetPending
  <2> QED
    BY <1>1, <2>1 DEF StaleInv
<1>7. CASE Drain \/ TaskFreed \/ TaskFinished
  <2>1. UNCHANGED <<queue, maxRequired, staleness>>
    BY <1>7 DEF Drain, TaskFreed, TaskFinished
  <2>2. pc' \in {"failed", "check", "drain", "limit", "finish"}
    BY <1>7, ReapEffect DEF Drain, TaskFreed, TaskFinished
  <2> QED
    BY <1>2, <2>1, <2>2
<1>8. ASSUME NEW s \in Sample, SamplePut(s)
      PROVE  StaleInv'
  <2>1. PutSample(s) /\ UNCHANGED <<staleness, pc, maxRequired>>
    BY <1>8 DEF SamplePut
  <2>2. Len(queue') <= maxRequired
    BY <2>1, PutEffect DEF StaleInv, EntryType
  <2> QED
    BY <2>1, <2>2 DEF StaleInv
<1>9. ASSUME NEW s \in Sample, TaskReturns(s) \/ GenerationRaises(s)
      PROVE  StaleInv'
  <2>1. UNCHANGED <<queue, maxRequired, staleness, pc>>
    BY <1>9 DEF TaskReturns, GenerationRaises
  <2> QED
    BY <1>2, <2>1
<1>10. CASE EndQueue
  <2>1. PutSample(End) /\ UNCHANGED <<staleness, maxRequired>> /\ pc' = "ended"
    BY <1>10 DEF EndQueue
  <2>2. Len(queue') <= maxRequired
    BY <2>1, PutEffect DEF StaleInv, EntryType
  <2> QED
    BY <2>1, <2>2 DEF StaleInv
<1>11. CASE TakeSample
  <2>1. /\ queue' = Tail(queue) /\ queue # <<>> /\ queue \in Seq(EntryType)
        /\ UNCHANGED <<staleness, maxRequired, pc>>
    BY <1>11 DEF TakeSample, RestTyped
  <2>2. Len(queue') = Len(queue) - 1
    BY <2>1, TakeEffect
  <2>3. Len(queue') <= maxRequired'
    BY <1>1, <2>1, <2>2 DEF StaleInv
  <2> QED
    BY <2>1, <2>3 DEF StaleInv
<1>12. CASE ResetEnds
  <2>1. /\ staleness' = counted + Len(queue) /\ UNCHANGED <<queue, maxRequired, pc>>
        /\ trainer = "resetting"
    BY <1>12 DEF ResetEnds
  <2>2. counted <= maxRequired
    BY <1>1, <2>1 DEF LockInv, ActiveInv
  <2>3. staleness' <= 2 * maxRequired
    BY <1>1, <2>1, <2>2 DEF StaleInv
  <2> QED
    BY <1>1, <2>1, <2>3 DEF StaleInv
<1>13. CASE Restart
  <2>1. queue' = <<>> /\ staleness' = 0 /\ pc' = "check" /\ maxRequired' = maxRequired
    BY <1>13 DEF Restart
  <2>2. Len(queue') = 0
    BY <2>1
  <2> QED
    BY <1>1, <2>1, <2>2 DEF StaleInv
<1> QED
  BY <1>3, <1>4, <1>5, <1>6, <1>7, <1>8, <1>9, <1>10, <1>11, <1>12, <1>13 DEF Next

-----------------------------------------------------------------------------
LEMMA OutstandingFinite ==
  ASSUME RolloutTyped, RestTyped
  PROVE  Outstanding \in SUBSET Sample /\ IsFiniteSet(Outstanding) /\ Ahead \in Nat
<1>1. Outstanding \in SUBSET Sample
  BY EntriesAre DEF RestTyped, RolloutTyped, Outstanding, Generating, EntryType
<1> QED
  BY <1>1, SampleFinite, FS_CardinalityType DEF Ahead

LEMMA EntriesCount ==
  ASSUME queue \in Seq(EntryType)
  PROVE  IsFiniteSet(Entries) /\ Cardinality(Entries) <= Len(queue) /\ Cardinality(Entries) \in Nat
<1> DEFINE e == [i \in 1 .. Len(queue) |-> queue[i]]
<1>1. e \in Surjection(1 .. Len(queue), Entries)
  BY EntriesAre DEF Surjection
<1>2. 1 \in Int /\ Len(queue) \in Int /\ Len(queue) \in Nat
  BY EntriesAre
<1>3. /\ IsFiniteSet(1 .. Len(queue))
      /\ Cardinality(1 .. Len(queue)) = IF 1 > Len(queue) THEN 0 ELSE Len(queue) - 1 + 1
  BY <1>2, FS_Interval, Zenon
<1>4. Cardinality(1 .. Len(queue)) = Len(queue)
  BY <1>2, <1>3
<1>5. IsFiniteSet(Entries) /\ Cardinality(Entries) <= Cardinality(1 .. Len(queue))
  BY <1>1, <1>3, FS_Surjection
<1> QED
  BY <1>4, <1>5, FS_CardinalityType

(* reset_staleness counts everything that is outstanding but the sample in  *)
(* the processor's hands.                                                   *)
LEMMA ResetMissesOne ==
  ASSUME RolloutTyped, RestTyped
  PROVE  Ahead <= Cardinality(active) + Len(queue) + 1
<1>1. Generating \in SUBSET active /\ active \in SUBSET Sample
  BY DEF Generating, RolloutTyped
<1>2. /\ IsFiniteSet(active) /\ IsFiniteSet(Generating)
      /\ Cardinality(Generating) <= Cardinality(active)
      /\ Cardinality(active) \in Nat /\ Cardinality(Generating) \in Nat
  BY <1>1, SampleFinite, FS_Subset, FS_CardinalityType
<1>3. /\ IsFiniteSet(Entries) /\ Cardinality(Entries) <= Len(queue) /\ Cardinality(Entries) \in Nat
      /\ Len(queue) \in Nat
  BY EntriesCount, LenProperties DEF RestTyped
<1>4. PICK G : G = Generating \union Entries
  OBVIOUS
<1>5. /\ IsFiniteSet(G)
      /\ Cardinality(G) =
           Cardinality(Generating) + Cardinality(Entries) - Cardinality(Generating \intersect Entries)
  BY <1>2, <1>3, <1>4, FS_Union, Zenon
<1>6. Cardinality(Generating \intersect Entries) \in Nat
  <2>1. IsFiniteSet(Generating \intersect Entries)
    BY <1>2, FS_Subset
  <2> QED
    BY <2>1, FS_CardinalityType
<1>7. Cardinality(G) <= Cardinality(active) + Len(queue) /\ Cardinality(G) \in Nat
  BY <1>2, <1>3, <1>5, <1>6, FS_CardinalityType
<1>8. /\ IsFiniteSet(G \union {held}) /\ Cardinality(G \union {held}) \in Nat
      /\ Cardinality(G \union {held}) <= Cardinality(G) + 1
  BY <1>5, AddOne
<1>9. Outstanding \in SUBSET (G \union {held})
  BY <1>4 DEF Outstanding
<1>10. Ahead <= Cardinality(G \union {held}) /\ Ahead \in Nat
  BY <1>8, <1>9, FS_Subset, OutstandingFinite DEF Ahead
<1> QED
  BY <1>2, <1>3, <1>7, <1>8, <1>10

(* Nothing more is outstanding, and the counter stays.                      *)
LEMMA AheadKept ==
  ASSUME RolloutTyped, RestTyped, AheadInv, Outstanding' \in SUBSET Outstanding,
         UNCHANGED <<staleness, maxRequired>>, pc' = "get" => pc = "get"
  PROVE  AheadInv'
<1>1. Ahead' \in Nat /\ Ahead' <= Ahead /\ Ahead \in Nat
  BY OutstandingFinite, FS_Subset, FS_CardinalityType DEF Ahead
<1>2. maxRequired \in Nat /\ staleness \in Nat
  BY LimitType DEF RolloutTyped, RestTyped
<1> QED
  BY <1>1, <1>2 DEF AheadInv

LEMMA AheadStep ==
  ASSUME RolloutTyped, RestTyped, LockInv, ActiveInv, StaleInv, AheadInv, Next
  PROVE  AheadInv'
<1> USE DEF feeding, tasks, gate, service, rollout, mq, train, outside
<1>1. /\ maxRequired \in Nat /\ staleness \in Nat /\ Ahead \in Nat /\ IsFiniteSet(Outstanding)
  BY LimitType, OutstandingFinite DEF RolloutTyped, RestTyped
<1>2. CASE \/ FeedSample \/ FeedEnd \/ MonitorLooks \/ MonitorResumes \/ StopRunning
           \/ LocalStep \/ PushWeights \/ ResetBegins \/ Save \/ StopTraining
           \/ CheckQueue \/ Pause \/ Resume \/ AtLimit \/ AwaitTasks
  <2>1. /\ UNCHANGED <<active, task, queue, held, maxRequired, staleness>>
        /\ pc' = "get" => pc = "get"
    BY <1>2 DEF FeedSample, FeedEnd, MonitorLooks, MonitorResumes, StopRunning, LocalStep,
         PushWeights, ResetBegins, Save, StopTraining, CheckQueue, Pause, Resume, AtLimit,
         AwaitTasks
  <2>2. Outstanding' = Outstanding
    BY <2>1 DEF Outstanding, Generating, Entries
  <2> QED
    BY <2>1, <2>2, AheadKept
<1>3. CASE CheckStaleness
  <2>1. /\ UNCHANGED <<active, task, queue, held, maxRequired, staleness>>
        /\ pc' = "get" => ~(staleness >= maxRequired)
    BY <1>3 DEF CheckStaleness, TooStale
  <2>2. Ahead' = Ahead
    BY <2>1 DEF Ahead, Outstanding, Generating, Entries
  <2>3. pc' = "get" => Ahead <= maxRequired
    BY <1>1, <2>1 DEF AheadInv
  <2> QED
    BY <2>1, <2>2, <2>3 DEF AheadInv
<1>4. CASE GetPending
  <2>1. /\ UNCHANGED <<active, task, queue, maxRequired>> /\ staleness' = staleness + 1
        /\ pc = "get" /\ pc' # "get"
    BY <1>4 DEF GetPending
  <2>2. Outstanding' \in SUBSET (Outstanding \union {held'})
    BY <2>1 DEF Outstanding, Generating, Entries
  <2>3. PICK h : h = held'
    OBVIOUS
  <2>4. /\ IsFiniteSet(Outstanding \union {h}) /\ Cardinality(Outstanding \union {h}) \in Nat
        /\ Cardinality(Outstanding \union {h}) <= Ahead + 1
    BY <1>1, AddOne DEF Ahead
  <2>5. Ahead' \in Nat /\ Ahead' <= Ahead + 1
    BY <1>1, <2>2, <2>3, <2>4, FS_Subset, FS_CardinalityType DEF Ahead
  <2> QED
    BY <1>1, <2>1, <2>5 DEF AheadInv
<1>5. CASE Drain \/ TaskFreed \/ TaskFinished
  <2>1. /\ \E next \in {"check", "drain", "limit", "finish"} : Reap(next)
        /\ UNCHANGED <<queue, held, maxRequired, staleness>>
    BY <1>5 DEF Drain, TaskFreed, TaskFinished
  <2>2. /\ active' \in SUBSET active /\ pc' # "get"
        /\ \A x \in Sample : task'[x] = task[x] \/ task'[x] = "none"
    BY <2>1, ReapEffect
  <2>3. Generating' \subseteq Generating
    BY <2>2 DEF Generating, RolloutTyped
  <2>4. Outstanding' \in SUBSET Outstanding
    BY <2>1, <2>3 DEF Outstanding, Entries
  <2> QED
    BY <2>1, <2>2, <2>4, AheadKept
<1>6. CASE Submit
  <2>1. /\ active' = active \union {held} /\ held \in Sample /\ held' = End
        /\ task' = [task EXCEPT ![held] = "generating"] /\ pc' # "get"
        /\ UNCHANGED <<queue, maxRequired, staleness>>
    BY <1>6 DEF Submit, ActiveInv, RolloutTyped, EntryType
  <2>2. Generating' \subseteq Generating \union {held}
    BY <2>1 DEF Generating, RolloutTyped
  <2>3. Outstanding' \in SUBSET Outstanding
    BY <2>1, <2>2 DEF Outstanding, Entries
  <2> QED
    BY <2>1, <2>3, AheadKept
<1>7. ASSUME NEW s \in Sample, SamplePut(s)
      PROVE  AheadInv'
  <2>1. /\ PutSample(s) /\ task[s] = "generating" /\ task' = [task EXCEPT ![s] = "put"]
        /\ UNCHANGED <<active, held, maxRequired, staleness, pc>>
    BY <1>7 DEF SamplePut
  <2>2. queue' \in Seq(EntryType) /\ \E d \in {0, 1} : d <= Len(queue) /\ Shifted(d, s)
    BY <2>1, PutEffect DEF StaleInv, EntryType
  <2>3. Entries' \subseteq Entries \union {s}
    BY <2>2, PutEntries DEF RestTyped, EntryType
  <2>4. Generating' \subseteq Generating /\ s \in Generating
    BY <2>1 DEF Generating, RolloutTyped, ActiveInv
  <2>5. Outstanding' \in SUBSET Outstanding
    BY <2>1, <2>3, <2>4 DEF Outstanding
  <2> QED
    BY <2>1, <2>5, AheadKept
<1>8. ASSUME NEW s \in Sample, TaskReturns(s) \/ GenerationRaises(s)
      PROVE  AheadInv'
  <2>1. /\ \E t \in {"done", "failed"} : task' = [task EXCEPT ![s] = t]
        /\ UNCHANGED <<active, queue, held, maxRequired, staleness, pc>>
    BY <1>8 DEF TaskReturns, GenerationRaises
  <2>2. Generating' \subseteq Generating
    BY <2>1 DEF Generating, RolloutTyped
  <2>3. Outstanding' \in SUBSET Outstanding
    BY <2>1, <2>2 DEF Outstanding, Entries
  <2> QED
    BY <2>1, <2>3, AheadKept
<1>9. CASE EndQueue
  <2>1. /\ PutSample(End) /\ pc' # "get"
        /\ UNCHANGED <<active, task, held, maxRequired, staleness>>
    BY <1>9 DEF EndQueue
  <2>2. queue' \in Seq(EntryType) /\ \E d \in {0, 1} : d <= Len(queue) /\ Shifted(d, End)
    BY <2>1, PutEffect DEF StaleInv, EntryType
  <2>3. Entries' \subseteq Entries \union {End}
    BY <2>2, PutEntries DEF RestTyped, EntryType
  <2>4. Outstanding' \in SUBSET Outstanding
    BY <2>1, <2>3 DEF Outstanding, Generating
  <2> QED
    BY <2>1, <2>4, AheadKept
<1>10. CASE TakeSample
  <2>1. /\ queue' = Tail(queue) /\ queue # <<>> /\ queue \in Seq(EntryType)
        /\ UNCHANGED <<active, task, held, staleness, maxRequired, pc>>
    BY <1>10 DEF TakeSample, RestTyped
  <2>2. Entries' \subseteq Entries
    BY <2>1, TakeEffect
  <2>3. Outstanding' \in SUBSET Outstanding
    BY <2>1, <2>2 DEF Outstanding, Generating
  <2> QED
    BY <2>1, <2>3, AheadKept
<1>11. CASE ResetEnds
  <2>1. /\ staleness' = counted + Len(queue) /\ trainer = "resetting"
        /\ UNCHANGED <<active, task, queue, held, maxRequired, pc>>
    BY <1>11 DEF ResetEnds
  <2>2. Ahead' = Ahead
    BY <2>1 DEF Ahead, Outstanding, Generating, Entries
  <2>3. Ahead <= staleness' + 1
    BY <2>1, ResetMissesOne DEF LockInv
  <2> QED
    BY <2>1, <2>2, <2>3 DEF AheadInv
<1>12. CASE Restart
  <2>1. /\ queue' = <<>> /\ active' = {} /\ held' = End /\ staleness' = 0 /\ pc' = "check"
        /\ maxRequired' = maxRequired
    BY <1>12 DEF Restart
  <2>2. Outstanding' = {}
    BY <2>1 DEF Outstanding, Generating, Entries
  <2>3. Ahead' = 0
    BY <2>2, FS_EmptySet DEF Ahead
  <2> QED
    BY <1>1, <2>1, <2>3 DEF AheadInv
<1> QED
  BY <1>2, <1>3, <1>4, <1>5, <1>6, <1>7, <1>8, <1>9, <1>10, <1>11, <1>12 DEF Next

-----------------------------------------------------------------------------
LEMMA InitIInv ==
  ASSUME Init
  PROVE  IInv
<1>1. /\ maxRequired \in Nat /\ maxRequired > 0 /\ Concurrent \in Nat
      /\ MaxFaults \in Nat /\ TotalRollout \in Nat /\ TotalRollout > 0 /\ Trigger \in Nat
      /\ Trigger > 0
  BY LimitType, Numbers DEF Init
<1>2. Entries = {} /\ Generating = {} /\ Outstanding = {} /\ Len(queue) = 0 /\ Len(pending) = 0
  BY DEF Init, Entries, Generating, Outstanding
<1>3. Cardinality({}) = 0
  BY FS_EmptySet
<1>4. RolloutTyped
  <2>1. pending \in Seq(EntryType)
    BY EmptySeq DEF Init
  <2>2. task \in [Sample -> {"none", "generating", "put", "done", "failed"}]
    BY DEF Init
  <2>3. /\ active \in SUBSET Sample /\ held \in EntryType /\ globalSteps \in Nat \ {0}
        /\ staleness \in Nat /\ counted \in Nat
    BY DEF Init, EntryType
  <2>4. /\ feed = "feeding" /\ pc = "check" /\ lock = "free" /\ monitor = "asleep"
        /\ paused = FALSE /\ resumed = TRUE /\ running = TRUE
    BY DEF Init
  <2> QED
    BY <2>1, <2>2, <2>3, <2>4 DEF RolloutTyped
<1>5. RestTyped
  <2>1. queue \in Seq(EntryType)
    BY EmptySeq DEF Init
  <2>2. checkpoint \in [version : Nat, fetched : Nat, trained : SUBSET Sample]
    BY DEF Init, NoCheckpoint
  <2>3. localStep \in 1 .. Trigger /\ savedVersion \in 0 .. version
    BY <1>1 DEF Init
  <2> QED
    BY <2>1, <2>2, <2>3 DEF Init, RestTyped
<1>6. FetchedInv
  BY <1>1 DEF Init, FetchedInv, NoCheckpoint
<1>7. InOrder
  <2>1. Used = {} /\ \A x \in Sample : ~Waiting(x)
    BY <1>2 DEF Init, Used, Waiting
  <2> QED
    BY <1>2, <2>1 DEF InOrder
<1>8. OnePlace
  BY <1>2 DEF Init, OnePlace
<1>9. LockInv
  BY <1>3 DEF Init, LockInv
<1>10. ActiveInv
  BY <1>1, <1>3 DEF Init, ActiveInv
<1>11. StaleInv /\ AheadInv
  BY <1>1, <1>2, <1>3 DEF Init, StaleInv, AheadInv, Ahead
<1> QED
  BY <1>4, <1>5, <1>6, <1>7, <1>8, <1>9, <1>10, <1>11 DEF IInv

LEMMA StutterIInv ==
  ASSUME IInv, UNCHANGED vars
  PROVE  IInv'
<1> USE DEF vars, feeding, tasks, gate, service, rollout, mq, train, outside
<1>1. /\ Entries' = Entries /\ Generating' = Generating /\ Outstanding' = Outstanding
      /\ Concurrent' = Concurrent /\ Ahead' = Ahead
  BY DEF Entries, Generating, Outstanding, Concurrent, Ahead
<1>2. Used' = Used /\ \A x \in Sample : Waiting(x)' <=> Waiting(x)
  BY <1>1 DEF Used, Waiting
<1>3. RolloutTyped' /\ RestTyped' /\ FetchedInv'
  BY DEF IInv, RolloutTyped, RestTyped, FetchedInv
<1>4. InOrder' /\ OnePlace'
  BY <1>1, <1>2 DEF IInv, InOrder, OnePlace
<1>5. LockInv' /\ ActiveInv' /\ StaleInv' /\ AheadInv'
  BY <1>1 DEF IInv, LockInv, ActiveInv, StaleInv, AheadInv
<1> QED
  BY <1>3, <1>4, <1>5 DEF IInv

LEMMA Inductive == Spec => []IInv
<1>1. Init => IInv
  BY InitIInv
<1>2. IInv /\ [Next]_vars => IInv'
  <2>1. ASSUME IInv, Next
        PROVE  IInv'
    BY <2>1, RolloutTypedStep, RestTypedStep, FetchedStep, OrderStep, OnePlaceStep, LockStep,
       ActiveStep, StaleStep, AheadStep DEF IInv
  <2> QED
    BY <2>1, StutterIInv
<1> QED
  BY <1>1, <1>2, PTL DEF Spec

(* The types of the rollouter, the queue and the trainer.  The counter of   *)
(* stale samples stays within twice its limit and one, what reset_staleness *)
(* counts within the limit.                                                 *)
THEOREM TypeCorrect == Spec => []TypeOK
<1>1. ASSUME IInv
      PROVE  TypeOK
  <2>1. fetched \in Sample
    BY <1>1, FetchedInSample DEF IInv
  <2>2. /\ maxRequired \in Nat /\ Cardinality(active) \in Nat
        /\ Concurrent \in Nat /\ Concurrent <= maxRequired
    BY <1>1, LimitType, SampleFinite, FS_CardinalityType DEF IInv, RolloutTyped, RestTyped
  <2>3. staleness \in 0 .. 2 * maxRequired + 1
    BY <1>1, <2>2 DEF IInv, RolloutTyped, StaleInv
  <2>4. counted \in 0 .. maxRequired
    BY <1>1, <2>2 DEF IInv, RolloutTyped, LockInv, ActiveInv
  <2> QED
    BY <1>1, <2>1, <2>3, <2>4 DEF IInv, RolloutTyped, RestTyped, TypeOK, EntryType
<1> QED
  BY <1>1, Inductive, PTL

(* The rollouter never runs further ahead of the trainer than one sample    *)
(* over its limit, whatever reset_staleness overwrites while tasks finish,  *)
(* queues fill and the processor waits with a sample in its hands.          *)
THEOREM RunsAheadBounded == Spec => []OutstandingBounded
<1>1. IInv => OutstandingBounded
  BY DEF IInv, AheadInv, Ahead, OutstandingBounded
<1> QED
  BY <1>1, Inductive, PTL

(* No sample is trained on twice on the way to the present weights, also    *)
(* when processes are killed and training resumes from a checkpoint.        *)
THEOREM SamplesTrainedOnce == Spec => []TrainedOnce
<1>1. IInv => TrainedOnce
  BY DEF IInv, OnePlace, TrainedOnce
<1> QED
  BY <1>1, Inductive, PTL

-----------------------------------------------------------------------------
(* Synchronous training.  Where the trainer stands says what it holds, and  *)
(* that it stops only behind the end of the queue.                          *)
TrainerInv ==
  /\ trainer = "collect" => Cardinality(batch) < Required
  /\ trainer = "train" => Cardinality(batch) = Required
  /\ trainer \notin {"collect", "train"} => batch = {}
  /\ trainer \in {"push", "reset", "resetting", "save"} /\ ~stopping => localStep = 1
  /\ trainer \in {"collect", "train", "stop"} => ~stopping
  /\ trainer = "done" => stopping
  /\ trainer = "stop" \/ stopping => pc = "ended"

(* The queue is ended once, by a rollouter that is over; what a task that   *)
(* raised has worked on is in no queue.                                     *)
EndInv ==
  /\ End \in Entries => pc = "ended"
  /\ \A i, j \in 1 .. Len(queue) : i < j /\ queue[i] = End => queue[j] # End
  /\ \A x \in Sample : task[x] = "failed" => x \notin Entries

(* What has been taken from pending_queue since the last reset: the samples *)
(* under way, those that raised, the end signal, and what the trainer had.  *)
Taken ==
  {x \in Sample : task[x] \in {"generating", "failed"} \/ x \in Entries \/ x = held}

Ending == IF pc \in {"finish", "finishing", "done", "failed", "ended"} THEN 1 ELSE 0

Consumed ==
  IF trainer \in {"push", "reset", "resetting"} /\ ~stopping
    THEN VersionSamples
    ELSE (localStep - 1) * Required + Cardinality(batch)

Progress == Cardinality(Taken) + Ending + Consumed

(* A version is made of what was taken for it.                              *)
ProgressInv ==
  /\ Progress <= maxRequired
  /\ pc # "ended" => Progress <= staleness
  /\ pc = "get" => Progress < maxRequired

FreshInv ==
  /\ staleUsed = 0 /\ dropped = {}
  /\ ~stopping => \A x \in Sample :
       task[x] = "generating" \/ x \in Entries \/ x \in batch => x \in fresh

(* Without failures: the end signal comes last, in both queues, and the     *)
(* processor loses no sample it holds.                                      *)
LastInv ==
  /\ pc # "failed" /\ \A x \in Sample : task[x] # "failed"
  /\ \A i \in 1 .. Len(pending) : pending[i] = End => i = Len(pending) /\ feed = "over"
  /\ pc \in {"finish", "finishing", "done", "ended"} => feed = "over" /\ pending = <<>>
  /\ pc \notin {"limit", "limited", "submit"} => held = End
  /\ pc \in {"done", "ended"} => active = {}
  /\ \A i \in 1 .. Len(queue) : queue[i] = End => i = Len(queue)

(* Every sample that was fed is trained on or under way, until the trainer  *)
(* stops with less than a version left over.                                *)
UnderWay ==
  {x \in Sample : task[x] \in {"generating", "failed"} \/ x \in Entries \/ x \in batch
                  \/ Waiting(x)}

Reached == version * VersionSamples + (localStep - 1) * Required

Fed == IF feed = "feeding" THEN globalSteps - 1 ELSE globalSteps

Divides == \E k \in Nat : TotalRollout = k * VersionSamples

TotalInv ==
  /\ trainer # "stop" /\ ~stopping => Reached + Cardinality(UnderWay) = Fed
  /\ trainer = "stop" \/ stopping =>
       /\ feed = "over"
       /\ version * VersionSamples <= globalSteps
       /\ globalSteps < version * VersionSamples + VersionSamples
  /\ feed # "feeding" => globalSteps >= TotalRollout
  /\ globalSteps <= TotalRollout \/ (globalSteps = TotalRollout + 1 /\ Divides /\ crashes > 0)
  /\ checkpoint.version * VersionSamples <= TotalRollout

Uninterrupted == failures = 0 /\ (VersionSamples > 1 \/ crashes = 0)

SyncInv ==
  /\ TrainerInv /\ EndInv
  /\ maxRequired = VersionSamples => ProgressInv /\ FreshInv
  /\ failures = 0 => LastInv
  /\ maxRequired = VersionSamples /\ Uninterrupted => TotalInv

-----------------------------------------------------------------------------
(* A rollouter that is over stays over, whoever moves.                      *)
LEMMA RolloutMoves ==
  ASSUME \/ FeedSample \/ FeedEnd \/ CheckQueue \/ CheckStaleness \/ Pause \/ Drain \/ Resume
         \/ GetPending \/ AtLimit \/ TaskFreed \/ Submit \/ AwaitTasks \/ TaskFinished
         \/ (\E s \in Sample : SamplePut(s) \/ TaskReturns(s) \/ GenerationRaises(s))
         \/ EndQueue \/ StopRunning \/ MonitorLooks \/ MonitorResumes
  PROVE  UNCHANGED train /\ (pc = "ended" => pc' = "ended")
<1>1. CASE \/ FeedSample \/ FeedEnd \/ CheckQueue \/ CheckStaleness \/ Pause \/ Resume
           \/ GetPending \/ AtLimit \/ Submit \/ AwaitTasks \/ EndQueue \/ StopRunning
           \/ MonitorLooks \/ MonitorResumes
  BY <1>1 DEF FeedSample, FeedEnd, CheckQueue, CheckStaleness, Pause, Resume, GetPending,
     AtLimit, Submit, AwaitTasks, EndQueue, StopRunning, MonitorLooks, MonitorResumes
<1>2. CASE Drain \/ TaskFreed \/ TaskFinished
  BY <1>2 DEF Drain, TaskFreed, TaskFinished
<1>3. CASE \E s \in Sample : SamplePut(s) \/ TaskReturns(s) \/ GenerationRaises(s)
  BY <1>3 DEF SamplePut, TaskReturns, GenerationRaises
<1> QED
  BY <1>1, <1>2, <1>3

(* What the trainer takes is an end signal or a sample it does not have.    *)
LEMMA TakeIs ==
  ASSUME RestTyped, OnePlace, TakeSample
  PROVE  /\ queue \in Seq(EntryType) /\ queue # <<>> /\ queue' = Tail(queue)
         /\ Head(queue) \in Entries /\ Head(queue) \in EntryType
         /\ IsFiniteSet(batch) /\ Cardinality(batch) \in Nat
         /\ Head(queue) # End =>
              /\ Head(queue) \in Sample /\ Head(queue) \notin batch
              /\ Cardinality(batch \union {Head(queue)}) = Cardinality(batch) + 1
<1>1. /\ queue \in Seq(EntryType) /\ queue # <<>> /\ queue' = Tail(queue)
      /\ batch \in SUBSET Sample
  BY DEF TakeSample, RestTyped
<1>2. Head(queue) \in Entries /\ Head(queue) \in EntryType
  BY <1>1, TakeEffect
<1>3. IsFiniteSet(batch) /\ Cardinality(batch) \in Nat
  BY <1>1, SampleFinite, FS_CardinalityType
<1>4. ASSUME Head(queue) # End
      PROVE  /\ Head(queue) \in Sample /\ Head(queue) \notin batch
             /\ Cardinality(batch \union {Head(queue)}) = Cardinality(batch) + 1
  <2>1. Head(queue) \in Sample
    BY <1>2, <1>4 DEF EntryType
  <2>2. Head(queue) \notin batch
    BY <1>2, <2>1 DEF OnePlace
  <2>3. PICK x : x = Head(queue)
    OBVIOUS
  <2>4. Cardinality(batch \union {x}) = Cardinality(batch) + 1
    BY <1>3, <2>2, <2>3, FS_AddElement
  <2> QED
    BY <2>1, <2>2, <2>3, <2>4
<1> QED
  BY <1>1, <1>2, <1>3, <1>4

LEMMA TrainerStep ==
  ASSUME RestTyped, OnePlace, TrainerInv, EndInv, Next
  PROVE  TrainerInv'
<1>1. Cardinality({}) = 0 /\ Required \in Nat /\ Required > 0
  BY FS_EmptySet, Numbers
<1>2. CASE UNCHANGED train /\ (pc = "ended" => pc' = "ended")
  BY <1>2 DEF TrainerInv, train
<1>3. CASE TakeSample
  <2>1. /\ trainer = "collect" /\ ~stopping /\ Cardinality(batch) < Required
        /\ UNCHANGED <<pc, localStep, stopping>>
    BY <1>3 DEF TakeSample, TrainerInv, rollout
  <2>2. CASE Head(queue) = End
    <3>1. trainer' = "stop" /\ batch' = {} /\ pc' = "ended"
      BY <1>3, <2>1, <2>2, TakeIs DEF TakeSample, EndInv
    <3> QED
      BY <2>1, <3>1 DEF TrainerInv
  <2>3. CASE Head(queue) # End
    <3>1. /\ batch' = batch \union {Head(queue)}
          /\ trainer' = IF Cardinality(batch) + 1 = Required THEN "train" ELSE "collect"
      BY <1>3, <2>3 DEF TakeSample
    <3>2. Cardinality(batch') = Cardinality(batch) + 1 /\ Cardinality(batch) \in Nat
      BY <1>3, <2>3, <3>1, TakeIs
    <3>3. trainer' = "collect" => Cardinality(batch') < Required
      BY <1>1, <2>1, <3>1, <3>2
    <3>4. trainer' = "train" => Cardinality(batch') = Required
      BY <3>1, <3>2
    <3>5. trainer' \in {"train", "collect"}
      BY <3>1
    <3> QED
      BY <2>1, <3>3, <3>4, <3>5 DEF TrainerInv
  <2> QED
    BY <2>2, <2>3
<1>4. CASE LocalStep
  <2>1. /\ batch' = {} /\ trainer = "train" /\ ~stopping /\ UNCHANGED <<pc, stopping>>
        /\ \/ trainer' = "collect"
           \/ trainer' = "push" /\ localStep' = 1
    BY <1>4 DEF LocalStep, TrainerInv, rollout
  <2>2. Cardinality(batch') < Required
    BY <1>1, <2>1
  <2> QED
    BY <2>1, <2>2 DEF TrainerInv
<1>5. CASE PushWeights \/ ResetBegins \/ ResetEnds
  <2>1. /\ UNCHANGED <<pc, batch, localStep, stopping>>
        /\ trainer \in {"push", "reset", "resetting"} /\ trainer' \in {"reset", "resetting", "save"}
    BY <1>5 DEF PushWeights, ResetBegins, ResetEnds, rollout
  <2> QED
    BY <2>1 DEF TrainerInv
<1>6. CASE Save
  <2>1. /\ UNCHANGED <<pc, batch, localStep, stopping>> /\ trainer = "save"
        /\ trainer' = IF stopping THEN "done" ELSE "collect"
    BY <1>6 DEF Save, rollout
  <2>2. batch' = {} /\ Cardinality(batch') < Required
    BY <1>1, <2>1 DEF TrainerInv
  <2> QED
    BY <2>1, <2>2 DEF TrainerInv
<1>7. CASE StopTraining
  <2>1. /\ UNCHANGED <<pc, batch, localStep>> /\ stopping' = TRUE /\ trainer = "stop"
        /\ trainer' \in {"push", "save"}
    BY <1>7 DEF StopTraining, rollout
  <2> QED
    BY <2>1 DEF TrainerInv
<1>8. CASE Restart
  <2>1. batch' = {} /\ trainer' = "collect" /\ stopping' = FALSE
    BY <1>8 DEF Restart
  <2>2. Cardinality(batch') < Required
    BY <1>1, <2>1
  <2> QED
    BY <2>1, <2>2 DEF TrainerInv
<1> QED
  BY <1>2, <1>3, <1>4, <1>5, <1>6, <1>7, <1>8, RolloutMoves DEF Next

-----------------------------------------------------------------------------
(* The tasks that raise and the queue.                                      *)
LEMMA EndKept ==
  ASSUME EndInv, UNCHANGED queue, pc = "ended" => pc' = "ended",
         \A x \in Sample : task'[x] = "failed" => task[x] = "failed" \/ x \notin Entries
  PROVE  EndInv'
<1>1. Entries' = Entries
  BY DEF Entries
<1> QED
  BY <1>1 DEF EndInv

LEMMA EndStep ==
  ASSUME RolloutTyped, RestTyped, OnePlace, StaleInv, EndInv, Next
  PROVE  EndInv'
<1> USE DEF feeding, tasks, gate, service, rollout, mq, train, outside
<1>1. queue \in Seq(EntryType) /\ Len(queue) \in Nat /\ Len(queue) <= maxRequired
      /\ Entries = {queue[i] : i \in 1 .. Len(queue)}
  BY EntriesAre DEF RestTyped, StaleInv
<1>2. CASE \/ FeedSample \/ FeedEnd \/ MonitorLooks \/ MonitorResumes \/ StopRunning
           \/ LocalStep \/ PushWeights \/ ResetBegins \/ ResetEnds \/ Save \/ StopTraining
           \/ CheckQueue \/ CheckStaleness \/ Pause \/ Resume \/ GetPending \/ AtLimit
           \/ AwaitTasks
  <2>1. UNCHANGED <<queue, task>> /\ (pc = "ended" => pc' = "ended")
    BY <1>2 DEF FeedSample, FeedEnd, MonitorLooks, MonitorResumes, StopRunning, LocalStep,
       PushWeights, ResetBegins, ResetEnds, Save, StopTraining, CheckQueue, CheckStaleness,
       Pause, Resume, GetPending, AtLimit, AwaitTasks
  <2> QED
    BY <2>1, EndKept
<1>3. CASE Drain \/ TaskFreed \/ TaskFinished
  <2>1. UNCHANGED queue /\ pc # "ended" /\ \E next \in {"check", "drain", "limit", "finish"} : Reap(next)
    BY <1>3 DEF Drain, TaskFreed, TaskFinished
  <2>2. \A x \in Sample : task'[x] = task[x] \/ task'[x] = "none"
    BY <2>1, ReapEffect
  <2> QED
    BY <2>1, <2>2, EndKept
<1>4. CASE Submit
  <2>1. /\ UNCHANGED queue /\ pc # "ended" /\ task' = [task EXCEPT ![held] = "generating"]
    BY <1>4 DEF Submit
  <2>2. \A x \in Sample : task'[x] = task[x] \/ task'[x] = "generating"
    BY <2>1 DEF RolloutTyped
  <2> QED
    BY <2>1, <2>2, EndKept
<1>5. ASSUME NEW s \in Sample, TaskReturns(s) \/ GenerationRaises(s)
      PROVE  EndInv'
  <2>1. UNCHANGED <<queue, pc>>
    BY <1>5 DEF TaskReturns, GenerationRaises
  <2>2. \A x \in Sample : task'[x] = "failed" => task[x] = "failed" \/ x \notin Entries
    <3>1. CASE TaskReturns(s)
      BY <3>1 DEF TaskReturns, RolloutTyped
    <3>2. CASE GenerationRaises(s)
      <4>1. task[s] = "generating" /\ task' = [task EXCEPT ![s] = "failed"]
        BY <3>2 DEF GenerationRaises
      <4> QED
        BY <4>1 DEF OnePlace, RolloutTyped
    <3> QED
      BY <1>5, <3>1, <3>2
  <2> QED
    BY <2>1, <2>2, EndKept
<1>6. ASSUME NEW s \in Sample, SamplePut(s)
      PROVE  EndInv'
  <2>1. /\ PutSample(s) /\ task[s] = "generating" /\ task' = [task EXCEPT ![s] = "put"]
        /\ pc' = pc /\ s \in EntryType /\ s # End
    BY <1>6 DEF SamplePut, EntryType, Sample, End
  <2>2. PICK d \in {0, 1} : d <= Len(queue) /\ Shifted(d, s) /\ queue' \in Seq(EntryType)
    BY <1>1, <2>1, PutEffect
  <2>3. Entries' \subseteq Entries \union {s}
    BY <1>1, <2>1, <2>2, PutEntries
  <2>4. \A i \in 1 .. Len(queue') : \/ i + d \in 1 .. Len(queue) /\ queue'[i] = queue[i + d]
                                    \/ queue'[i] = s
    BY <1>1, <2>2 DEF Shifted
  <2>5. ASSUME NEW i \in 1 .. Len(queue'), NEW j \in 1 .. Len(queue'), i < j, queue'[i] = End
        PROVE  queue'[j] # End
    <3>1. i + d \in 1 .. Len(queue) /\ queue[i + d] = End
      BY <2>1, <2>4, <2>5
    <3>2. \/ j + d \in 1 .. Len(queue) /\ queue'[j] = queue[j + d] /\ i + d < j + d
          \/ queue'[j] = s
      BY <2>4, <2>5
    <3> QED
      BY <2>1, <3>1, <3>2 DEF EndInv
  <2>6. \A x \in Sample : task'[x] = "failed" => task[x] = "failed" /\ x # s
    BY <2>1 DEF RolloutTyped
  <2> QED
    BY <2>1, <2>3, <2>5, <2>6 DEF EndInv
<1>7. CASE EndQueue
  <2>1. /\ PutSample(End) /\ pc \in {"done", "failed"} /\ pc' = "ended" /\ End \in EntryType
        /\ UNCHANGED task /\ End \notin Sample
    BY <1>7 DEF EndQueue, EntryType, Sample, End
  <2>2. PICK d \in {0, 1} : d <= Len(queue) /\ Shifted(d, End) /\ queue' \in Seq(EntryType)
    BY <1>1, <2>1, PutEffect
  <2>3. Entries' \subseteq Entries \union {End}
    BY <1>1, <2>1, <2>2, PutEntries
  <2>4. End \notin Entries
    BY <2>1 DEF EndInv
  <2>5. \A i \in 1 .. Len(queue') : \/ i + d \in 1 .. Len(queue) /\ queue'[i] = queue[i + d]
                                    \/ i = Len(queue')
    BY <1>1, <2>2 DEF Shifted
  <2>6. \A i \in 1 .. Len(queue') : queue'[i] = End => i = Len(queue')
    BY <1>1, <2>4, <2>5
  <2>7. Len(queue') \in Nat
    BY <2>2, LenProperties
  <2> QED
    BY <2>1, <2>3, <2>6, <2>7 DEF EndInv
<1>8. CASE TakeSample
  <2>1. UNCHANGED <<task, pc>>
    BY <1>8 DEF TakeSample
  <2>2. /\ Entries' \subseteq Entries /\ Len(queue') = Len(queue) - 1
        /\ \A i \in 1 .. Len(queue) - 1 : queue'[i] = queue[i + 1]
    BY <1>8, TakeIs, TakeEffect
  <2>3. ASSUME NEW i \in 1 .. Len(queue'), NEW j \in 1 .. Len(queue'), i < j, queue'[i] = End
        PROVE  queue'[j] # End
    <3>1. /\ i + 1 \in 1 .. Len(queue) /\ queue[i + 1] = End
          /\ j + 1 \in 1 .. Len(queue) /\ queue'[j] = queue[j + 1] /\ i + 1 < j + 1
      BY <1>1, <2>2, <2>3
    <3> QED
      BY <3>1 DEF EndInv
  <2> QED
    BY <2>1, <2>2, <2>3 DEF EndInv
<1>9. CASE Restart
  <2>1. queue' = <<>> /\ task' = [s \in Sample |-> "none"]
    BY <1>9 DEF Restart
  <2>2. Entries' = {} /\ Len(queue') = 0
    BY <2>1 DEF Entries
  <2> QED
    BY <2>1, <2>2 DEF EndInv
<1> QED
  BY <1>2, <1>3, <1>4, <1>5, <1>6, <1>7, <1>8, <1>9 DEF Next

-----------------------------------------------------------------------------
(* How far the taking of samples has come.                                  *)
LEMMA TakenFinite ==
  /\ Taken \in SUBSET Sample /\ IsFiniteSet(Taken) /\ Cardinality(Taken) \in Nat
  /\ Ending \in {0, 1}
<1>1. Taken \in SUBSET Sample
  BY DEF Taken
<1> QED
  BY <1>1, SampleFinite, FS_CardinalityType DEF Ending

LEMMA ConsumedType ==
  ASSUME RestTyped
  PROVE  Consumed \in Nat /\ Cardinality(batch) \in Nat
<1>1. IsFiniteSet(batch) /\ Cardinality(batch) \in Nat
  BY SampleFinite, FS_CardinalityType DEF RestTyped
<1>2. localStep - 1 \in Nat /\ Required \in Nat
  BY Numbers DEF RestTyped
<1>3. (localStep - 1) * Required \in Nat
  BY <1>2
<1> QED
  BY <1>1, <1>3, Numbers DEF Consumed

LEMMA ConsumedNext ==
  ASSUME batch' \in SUBSET Sample, localStep' \in 1 .. Trigger
  PROVE  Consumed' \in Nat
<1>1. IsFiniteSet(batch') /\ Cardinality(batch') \in Nat
  BY SampleFinite, FS_CardinalityType
<1>2. PICK l \in 1 .. Trigger : l = localStep'
  OBVIOUS
<1>3. (l - 1) * Required \in Nat
  <2>1. l - 1 \in Nat /\ Required \in Nat
    BY Numbers
  <2> QED
    BY <2>1
<1> QED
  BY <1>1, <1>2, <1>3, Numbers DEF Consumed

LEMMA ProgressKept ==
  ASSUME RolloutTyped, RestTyped, ProgressInv, Taken' \subseteq Taken, Ending' = Ending,
         Consumed' \in Nat, Consumed' <= Consumed, UNCHANGED <<staleness, maxRequired>>,
         pc' = "get" => pc = "get", pc = "ended" => pc' = "ended"
  PROVE  ProgressInv'
<1>1. Cardinality(Taken') \in Nat /\ Cardinality(Taken') <= Cardinality(Taken)
  BY TakenFinite, FS_Subset, FS_CardinalityType
<1>2. /\ Cardinality(Taken) \in Nat /\ Ending \in Nat /\ Consumed \in Nat
      /\ maxRequired \in Nat /\ staleness \in Nat
  BY TakenFinite, ConsumedType, LimitType DEF RolloutTyped, RestTyped
<1>3. Progress' <= Progress /\ Progress' \in Nat /\ Progress \in Nat
  BY <1>1, <1>2 DEF Progress
<1> QED
  BY <1>2, <1>3 DEF ProgressInv

(* The queue is empty of a sample once it is taken.                         *)
LEMMA TakenLeaves ==
  ASSUME RolloutTyped, RestTyped, InOrder, OnePlace, EndInv, TakeSample, Head(queue) # End
  PROVE  Head(queue) \in Taken /\ Taken' \subseteq Taken \ {Head(queue)}
<1>1. /\ queue \in Seq(EntryType) /\ queue # <<>> /\ queue' = Tail(queue)
      /\ Head(queue) \in Entries /\ Head(queue) \in Sample
  BY TakeIs
<1>2. /\ queue' \in Seq(EntryType) /\ Len(queue) \in Nat /\ Len(queue') = Len(queue) - 1
      /\ \A i \in 1 .. Len(queue) - 1 : queue'[i] = queue[i + 1]
      /\ Head(queue) = queue[1] /\ Entries' \subseteq Entries
  BY <1>1, TakeEffect
<1>3. Head(queue) \notin Entries'
  <2>1. ASSUME NEW i \in 1 .. Len(queue')
        PROVE  queue'[i] # Head(queue)
    <3>1. i + 1 \in 1 .. Len(queue) /\ 1 \in 1 .. Len(queue) /\ 1 < i + 1 /\ queue'[i] = queue[i + 1]
      BY <1>2, <2>1
    <3> QED
      BY <1>2, <3>1 DEF OnePlace
  <2> QED
    BY <1>2, <2>1, LenProperties DEF Entries
<1>4. UNCHANGED <<task, held>>
  BY DEF TakeSample, rollout, tasks
<1>5. task[Head(queue)] \notin {"generating", "failed"}
  BY <1>1 DEF OnePlace, EndInv
<1>6. Head(queue) # held
  <2>1. Head(queue) \in Used
    BY <1>1 DEF Used
  <2>2. held \in Sample => Waiting(held)
    BY DEF Waiting, Sample, End
  <2>3. Head(queue) \in Nat
    BY <1>1 DEF Sample
  <2> QED
    BY <1>1, <2>1, <2>2, <2>3 DEF InOrder
<1> QED
  BY <1>1, <1>2, <1>3, <1>4, <1>5, <1>6 DEF Taken

(* A task that raised has taken its sample for nothing.                     *)
LEMMA ReapLeaves ==
  ASSUME RolloutTyped, InOrder, EndInv, NEW next, Reap(next), UNCHANGED <<queue, held>>,
         next # "failed", pc # "failed"
  PROVE  /\ Taken' \subseteq Taken
         /\ pc' = "failed" => \E s \in Taken : Taken' \subseteq Taken \ {s}
<1>1. \A x \in Sample : task'[x] = task[x] \/ task'[x] = "none"
  BY ReapEffect
<1>2. Entries' = Entries
  BY DEF Entries
<1>3. Taken' \subseteq Taken
  BY <1>1, <1>2 DEF Taken
<1>4. ASSUME pc' = "failed"
      PROVE  \E s \in Taken : Taken' \subseteq Taken \ {s}
  <2>1. PICK s \in Finished : task[s] = "failed"
    BY <1>4 DEF Reap, RaisedIn
  <2>2. s \in Sample
    BY DEF Finished, RolloutTyped
  <2>3. s \in Taken /\ s \notin Entries /\ task'[s] = "none"
    BY <2>1, <2>2 DEF Taken, EndInv, Reap
  <2>4. s # held
    <3>1. s \in Used /\ s \in Nat
      BY <2>1, <2>2 DEF Used, Sample
    <3>2. held \in Sample => Waiting(held)
      BY DEF Waiting, Sample, End
    <3> QED
      BY <2>2, <3>1, <3>2 DEF InOrder
  <2>5. s \notin Taken'
    BY <1>2, <2>3, <2>4 DEF Taken
  <2> QED
    BY <1>3, <2>3, <2>5
<1> QED
  BY <1>3, <1>4

(* With max_required_samples of one version, no more is taken than the      *)
(* version needs.                                                           *)
LEMMA ProgressStep ==
  ASSUME RolloutTyped, RestTyped, RestTyped', InOrder, OnePlace, ActiveInv, StaleInv, TrainerInv,
         EndInv, ProgressInv, maxRequired = VersionSamples, Next
  PROVE  ProgressInv'
<1> USE DEF feeding, tasks, gate, service, rollout, mq, train, outside
<1>a. batch' \in SUBSET Sample /\ localStep' \in 1 .. Trigger
  BY DEF RestTyped
<1>0. /\ Cardinality(Taken) \in Nat /\ Ending \in {0, 1} /\ Consumed \in Nat /\ Consumed' \in Nat
      /\ maxRequired \in Nat /\ maxRequired > 0 /\ staleness \in Nat /\ IsFiniteSet(Taken)
      /\ Cardinality(batch) \in Nat
  BY <1>a, TakenFinite, ConsumedType, ConsumedNext, LimitType DEF RolloutTyped, RestTyped
<1>1. UNCHANGED train => Consumed' = Consumed
  BY DEF Consumed
<1>2. CASE \/ FeedSample \/ FeedEnd \/ MonitorLooks \/ MonitorResumes \/ StopRunning
           \/ CheckQueue \/ Pause \/ Resume \/ AtLimit \/ AwaitTasks
           \/ PushWeights \/ ResetBegins \/ Save \/ StopTraining
  <2>1. /\ UNCHANGED <<task, queue, held, maxRequired, staleness>>
        /\ pc' = "get" => pc = "get"
        /\ pc = "ended" => pc' = "ended"
    BY <1>2 DEF FeedSample, FeedEnd, MonitorLooks, MonitorResumes, StopRunning, CheckQueue,
         Pause, Resume, AtLimit, AwaitTasks, PushWeights, ResetBegins, Save, StopTraining
  <2>2. Ending' = Ending
    BY <1>2 DEF FeedSample, FeedEnd, MonitorLooks, MonitorResumes, StopRunning, CheckQueue,
         Pause, Resume, AtLimit, AwaitTasks, PushWeights, ResetBegins, Save, StopTraining, Ending
  <2>3. Consumed' <= Consumed
    <3>1. CASE UNCHANGED train
      BY <1>0, <1>1, <3>1
    <3>2. CASE PushWeights \/ ResetBegins
      <4>1. /\ trainer \in {"push", "reset"} /\ trainer' \in {"reset", "resetting"}
            /\ UNCHANGED <<stopping, localStep, batch>>
        BY <3>2 DEF PushWeights, ResetBegins
      <4>2. Consumed' = Consumed
        BY <4>1 DEF Consumed
      <4> QED
        BY <1>0, <4>2
    <3>3. CASE Save \/ StopTraining
      <4>1. /\ trainer \notin {"push", "reset", "resetting"} /\ UNCHANGED <<localStep, batch>>
            /\ trainer' \in {"push", "reset", "resetting"} => stopping'
        BY <3>3 DEF Save, StopTraining
      <4>2. Consumed' = Consumed
        BY <4>1 DEF Consumed
      <4> QED
        BY <1>0, <4>2
    <3>4. \/ UNCHANGED train \/ PushWeights \/ ResetBegins \/ Save \/ StopTraining
      BY <1>2, RolloutMoves
    <3> QED
      BY <3>1, <3>2, <3>3, <3>4
  <2>4. Taken' = Taken
    BY <2>1 DEF Taken, Entries
  <2> QED
    BY <1>0, <2>1, <2>2, <2>3, <2>4, ProgressKept
<1>3. CASE CheckStaleness
  <2>1. /\ UNCHANGED <<task, queue, held, maxRequired, staleness>> /\ pc = "compare"
        /\ pc' \in {"pause", "get"}
        /\ pc' = "get" => ~(staleness >= maxRequired)
    BY <1>3 DEF CheckStaleness, TooStale
  <2>2. Taken' = Taken /\ Ending' = Ending /\ Consumed' = Consumed
    BY <1>1, <1>3, <2>1, RolloutMoves DEF Taken, Entries, Ending
  <2>3. Progress' = Progress /\ Progress \in Nat
    BY <1>0, <2>2 DEF Progress
  <2> QED
    BY <1>0, <2>1, <2>3 DEF ProgressInv
<1>4. CASE GetPending
  <2>1. /\ UNCHANGED <<task, queue, maxRequired>> /\ staleness' = staleness + 1
        /\ pc = "get" /\ pc' = IF held' = End THEN "finish" ELSE "limit"
    BY <1>4 DEF GetPending
  <2>2. Taken' \subseteq Taken \union {held'} /\ Consumed' = Consumed /\ Ending = 0
    BY <1>1, <1>4, <2>1, RolloutMoves DEF Taken, Entries, Ending
  <2>3. Progress' \in Nat /\ Progress' <= Progress + 1 /\ Progress \in Nat
    <3>1. CASE held' = End
      <4>1. Taken' \subseteq Taken
        BY <2>2, <3>1 DEF Taken, Sample, End
      <4>2. Cardinality(Taken') \in Nat /\ Cardinality(Taken') <= Cardinality(Taken)
        BY <1>0, <4>1, FS_Subset, FS_CardinalityType
      <4>3. Ending' = 1
        BY <2>1, <3>1 DEF Ending
      <4> QED
        BY <1>0, <2>2, <4>2, <4>3 DEF Progress
    <3>2. CASE held' # End
      <4>1. PICK h : h = held'
        OBVIOUS
      <4>2. /\ IsFiniteSet(Taken \union {h}) /\ Cardinality(Taken \union {h}) \in Nat
            /\ Cardinality(Taken \union {h}) <= Cardinality(Taken) + 1
        BY <1>0, AddOne
      <4>3. Cardinality(Taken') \in Nat /\ Cardinality(Taken') <= Cardinality(Taken) + 1
        BY <1>0, <2>2, <4>1, <4>2, FS_Subset, FS_CardinalityType
      <4>4. Ending' = 0
        BY <2>1, <3>2 DEF Ending
      <4> QED
        BY <1>0, <2>2, <4>3, <4>4 DEF Progress
    <3> QED
      BY <3>1, <3>2
  <2> QED
    BY <1>0, <2>1, <2>3 DEF ProgressInv
<1>5. CASE Drain \/ TaskFreed \/ TaskFinished
  <2>1. PICK next \in {"check", "drain", "limit", "finish"} :
           /\ Reap(next) /\ UNCHANGED <<queue, held, maxRequired, staleness>>
           /\ pc \in {"drain", "limited", "finishing"}
           /\ pc = "finishing" <=> next = "finish"
    BY <1>5 DEF Drain, TaskFreed, TaskFinished
  <2>2. pc' \in {"failed", next} /\ Consumed' = Consumed
    BY <1>1, <1>5, <2>1, RolloutMoves, ReapEffect
  <2>3. /\ Taken' \subseteq Taken
        /\ pc' = "failed" => \E s \in Taken : Taken' \subseteq Taken \ {s}
    BY <2>1, ReapLeaves
  <2>4. CASE pc' # "failed"
    <3>1. Ending' = Ending
      BY <2>1, <2>2, <2>4 DEF Ending
    <3> QED
      BY <1>0, <2>1, <2>2, <2>3, <2>4, <3>1, ProgressKept
  <2>5. CASE pc' = "failed"
    <3>1. PICK s \in Taken : Taken' \subseteq Taken \ {s}
      BY <2>3, <2>5
    <3>2. IsFiniteSet(Taken \ {s}) /\ Cardinality(Taken \ {s}) = Cardinality(Taken) - 1
      BY <1>0, <3>1, FS_RemoveElement
    <3>3. Cardinality(Taken') \in Nat /\ Cardinality(Taken') <= Cardinality(Taken) - 1
      BY <3>1, <3>2, FS_Subset, FS_CardinalityType
    <3>4. Ending' = 1
      BY <2>5 DEF Ending
    <3>5. Progress' \in Nat /\ Progress' <= Progress /\ Progress \in Nat
      BY <1>0, <2>2, <3>3, <3>4 DEF Progress
    <3> QED
      BY <1>0, <2>1, <2>5, <3>5 DEF ProgressInv
  <2> QED
    BY <2>4, <2>5
<1>6. CASE Submit
  <2>1. /\ held \in Sample /\ held' = End /\ task' = [task EXCEPT ![held] = "generating"]
        /\ pc = "submit" /\ pc' = "check" /\ UNCHANGED <<queue, maxRequired, staleness>>
    BY <1>6 DEF Submit, ActiveInv, RolloutTyped, EntryType
  <2>2. Taken' \subseteq Taken
    BY <2>1 DEF Taken, Entries, RolloutTyped, Sample, End
  <2>3. Ending' = Ending /\ Consumed' = Consumed
    BY <1>1, <1>6, <2>1, RolloutMoves DEF Ending
  <2> QED
    BY <1>0, <2>1, <2>2, <2>3, ProgressKept
<1>7. ASSUME NEW s \in Sample, SamplePut(s)
      PROVE  ProgressInv'
  <2>1. /\ PutSample(s) /\ task[s] = "generating" /\ task' = [task EXCEPT ![s] = "put"]
        /\ UNCHANGED <<held, maxRequired, staleness, pc>> /\ UNCHANGED train
    BY <1>7 DEF SamplePut
  <2>2. queue' \in Seq(EntryType) /\ \E d \in {0, 1} : d <= Len(queue) /\ Shifted(d, s)
    BY <2>1, PutEffect DEF StaleInv, EntryType
  <2>3. Entries' \subseteq Entries \union {s}
    BY <2>2, PutEntries DEF RestTyped, EntryType
  <2>4. Taken' \subseteq Taken
    BY <2>1, <2>3 DEF Taken, RolloutTyped
  <2>5. Ending' = Ending
    BY <2>1 DEF Ending
  <2> QED
    BY <1>0, <1>1, <2>1, <2>4, <2>5, ProgressKept
<1>8. ASSUME NEW s \in Sample, TaskReturns(s) \/ GenerationRaises(s)
      PROVE  ProgressInv'
  <2>1. /\ \/ task[s] = "put" /\ task' = [task EXCEPT ![s] = "done"]
           \/ task[s] = "generating" /\ task' = [task EXCEPT ![s] = "failed"]
        /\ UNCHANGED <<queue, held, maxRequired, staleness, pc>> /\ UNCHANGED train
    BY <1>8 DEF TaskReturns, GenerationRaises
  <2>2. Taken' \subseteq Taken
    BY <2>1 DEF Taken, Entries, RolloutTyped
  <2>3. Ending' = Ending
    BY <2>1 DEF Ending
  <2> QED
    BY <1>0, <1>1, <2>1, <2>2, <2>3, ProgressKept
<1>9. CASE EndQueue
  <2>1. /\ PutSample(End) /\ pc \in {"done", "failed"} /\ pc' = "ended" /\ UNCHANGED train
        /\ UNCHANGED <<task, held, maxRequired, staleness>>
    BY <1>9 DEF EndQueue
  <2>2. queue' \in Seq(EntryType) /\ \E d \in {0, 1} : d <= Len(queue) /\ Shifted(d, End)
    BY <2>1, PutEffect DEF StaleInv, EntryType
  <2>3. Entries' \subseteq Entries \union {End}
    BY <2>2, PutEntries DEF RestTyped, EntryType
  <2>4. Taken' \subseteq Taken
    BY <2>1, <2>3 DEF Taken, Sample, End
  <2>5. Ending' = Ending
    BY <2>1 DEF Ending
  <2> QED
    BY <1>0, <1>1, <2>1, <2>4, <2>5, ProgressKept
<1>10. CASE TakeSample
  <2>1. /\ UNCHANGED <<task, held, staleness, maxRequired, pc>>
        /\ trainer = "collect" /\ UNCHANGED <<localStep, stopping>>
    BY <1>10 DEF TakeSample
  <2>2. Ending' = Ending /\ Consumed = (localStep - 1) * Required + Cardinality(batch)
    BY <2>1 DEF Ending, Consumed
  <2>3. CASE Head(queue) = End
    <3>1. batch' = {} /\ trainer' = "stop"
      BY <1>10, <2>3 DEF TakeSample
    <3>2. Cardinality(batch') = 0
      BY <3>1, FS_EmptySet
    <3>3. Consumed' = (localStep - 1) * Required + 0
      BY <2>1, <3>1, <3>2 DEF Consumed
    <3>4. (localStep - 1) * Required \in Nat
      <4>1. localStep - 1 \in Nat /\ Required \in Nat
        BY Numbers DEF RestTyped
      <4> QED
        BY <4>1
    <3>5. Consumed' <= Consumed
      BY <1>0, <2>2, <3>3, <3>4
    <3>6. Taken' \subseteq Taken
      <4>1. Entries' \subseteq Entries
        BY <1>10, TakeIs, TakeEffect
      <4> QED
        BY <2>1, <4>1 DEF Taken
    <3> QED
      BY <1>0, <2>1, <2>2, <3>5, <3>6, ProgressKept
  <2>4. CASE Head(queue) # End
    <3>1. batch' = batch \union {Head(queue)} /\ trainer' \in {"train", "collect"}
      BY <1>10, <2>4 DEF TakeSample
    <3>2. Cardinality(batch') = Cardinality(batch) + 1
      BY <1>10, <2>4, <3>1, TakeIs
    <3>3. Consumed' = (localStep - 1) * Required + Cardinality(batch')
      BY <2>1, <3>1 DEF Consumed
    <3>4. (localStep - 1) * Required \in Nat
      <4>1. localStep - 1 \in Nat /\ Required \in Nat
        BY Numbers DEF RestTyped
      <4> QED
        BY <4>1
    <3>5. Consumed' = Consumed + 1
      BY <1>0, <2>2, <3>2, <3>3, <3>4
    <3>6. Head(queue) \in Taken /\ Taken' \subseteq Taken \ {Head(queue)}
      BY <1>10, <2>4, TakenLeaves
    <3>7. PICK x : x = Head(queue)
      OBVIOUS
    <3>8. IsFiniteSet(Taken \ {x}) /\ Cardinality(Taken \ {x}) = Cardinality(Taken) - 1
      BY <1>0, <3>6, <3>7, FS_RemoveElement
    <3>9. Cardinality(Taken') \in Nat /\ Cardinality(Taken') <= Cardinality(Taken) - 1
      BY <3>6, <3>7, <3>8, FS_Subset, FS_CardinalityType
    <3>10. Progress' \in Nat /\ Progress' <= Progress /\ Progress \in Nat
      BY <1>0, <2>2, <3>5, <3>9 DEF Progress
    <3> QED
      BY <1>0, <2>1, <3>10 DEF ProgressInv
  <2> QED
    BY <2>3, <2>4
<1>11. CASE LocalStep
  <2>1. /\ UNCHANGED <<task, queue, held, staleness, maxRequired, pc, stopping>>
        /\ trainer = "train" /\ batch' = {} /\ ~stopping /\ Cardinality(batch) = Required
    BY <1>11 DEF LocalStep, TrainerInv
  <2>2. Cardinality(batch') = 0
    BY <2>1, FS_EmptySet
  <2>3. /\ localStep \in Nat /\ localStep >= 1 /\ localStep <= Trigger /\ Required \in Nat
        /\ Trigger \in Nat
    BY Numbers DEF RestTyped
  <2>4. Consumed = localStep * Required
    <3>1. Consumed = (localStep - 1) * Required + Required
      BY <2>1 DEF Consumed
    <3> QED
      BY <2>3, <3>1
  <2>5. Consumed' = localStep * Required
    <3>1. CASE localStep < Trigger
      <4>1. localStep' = localStep + 1 /\ trainer' = "collect"
        BY <1>11, <3>1 DEF LocalStep
      <4>2. Consumed' = (localStep' - 1) * Required + Cardinality(batch')
        BY <4>1 DEF Consumed
      <4>3. localStep' - 1 = localStep
        BY <2>3, <4>1
      <4> QED
        BY <2>2, <2>3, <4>2, <4>3
    <3>2. CASE ~(localStep < Trigger)
      <4>1. trainer' = "push" /\ ~stopping'
        BY <1>11, <2>1, <3>2 DEF LocalStep
      <4>2. Consumed' = VersionSamples /\ localStep = Trigger
        BY <2>3, <3>2, <4>1 DEF Consumed, VersionSamples
      <4> QED
        BY <2>3, <4>2 DEF VersionSamples
    <3> QED
      BY <3>1, <3>2
  <2>6. Taken' = Taken /\ Ending' = Ending
    BY <2>1 DEF Taken, Entries, Ending
  <2>7. Consumed' <= Consumed
    BY <1>0, <2>4, <2>5
  <2> QED
    BY <1>0, <2>1, <2>6, <2>7, ProgressKept
<1>12. CASE ResetEnds
  <2>1. /\ UNCHANGED <<task, queue, held, maxRequired, pc, stopping, localStep, batch>>
        /\ trainer = "resetting" /\ trainer' = "save" /\ staleness' = counted + Len(queue)
    BY <1>12 DEF ResetEnds
  <2>2. Taken' = Taken /\ Ending' = Ending
    BY <2>1 DEF Taken, Entries, Ending
  <2>3. CASE stopping
    <3>1. pc = "ended"
      BY <2>3 DEF TrainerInv
    <3>2. Consumed' = Consumed
      BY <2>1, <2>3 DEF Consumed
    <3>3. Progress' = Progress
      BY <2>2, <3>2 DEF Progress
    <3> QED
      BY <2>1, <3>1, <3>3 DEF ProgressInv
  <2>4. CASE ~stopping
    <3>1. Consumed = VersionSamples
      BY <2>1, <2>4 DEF Consumed
    <3>2. Cardinality(Taken) = 0 /\ Ending = 0
      BY <1>0, <3>1 DEF ProgressInv, Progress
    <3>3. localStep = 1 /\ batch = {}
      BY <2>1, <2>4 DEF TrainerInv
    <3>4. Cardinality(batch') = 0
      BY <2>1, <3>3, FS_EmptySet
    <3>5. Consumed' = (1 - 1) * Required + 0
      BY <2>1, <3>3, <3>4 DEF Consumed
    <3>6. Progress' = 0
      BY <2>2, <3>2, <3>5, Numbers DEF Progress
    <3>7. staleness' \in Nat
      BY <2>1, LenProperties DEF RolloutTyped, RestTyped
    <3> QED
      BY <1>0, <2>1, <3>6, <3>7 DEF ProgressInv
  <2> QED
    BY <2>3, <2>4
<1>13. CASE Restart
  <2>1. /\ task' = [s \in Sample |-> "none"] /\ queue' = <<>> /\ held' = End /\ pc' = "check"
        /\ trainer' = "collect" /\ localStep' = 1 /\ batch' = {} /\ staleness' = 0
        /\ maxRequired' = maxRequired
    BY <1>13 DEF Restart
  <2>2. Taken' = {} /\ Ending' = 0
    BY <2>1 DEF Taken, Entries, Ending, Sample, End
  <2>3. Cardinality(Taken') = 0 /\ Cardinality(batch') = 0
    BY <2>1, <2>2, FS_EmptySet
  <2>4. Consumed' = (1 - 1) * Required + 0
    BY <2>1, <2>3 DEF Consumed
  <2>5. Progress' = 0
    BY <2>2, <2>3, <2>4, Numbers DEF Progress
  <2> QED
    BY <1>0, <2>1, <2>5 DEF ProgressInv
<1> QED
  BY <1>2, <1>3, <1>4, <1>5, <1>6, <1>7, <1>8, <1>9, <1>10, <1>11, <1>12, <1>13 DEF Next

-----------------------------------------------------------------------------
(* The queue holds each of its entries once.                                *)
LEMMA QueueCount ==
  ASSUME queue \in Seq(EntryType), OnePlace, EndInv
  PROVE  IsFiniteSet(Entries) /\ Cardinality(Entries) = Len(queue) /\ Len(queue) \in Nat
<1> DEFINE e == [i \in 1 .. Len(queue) |-> queue[i]]
<1>1. Entries = {queue[i] : i \in 1 .. Len(queue)} /\ Len(queue) \in Nat
  BY EntriesAre
<1>2. \A i, j \in 1 .. Len(queue) : i < j => queue[i] # queue[j]
  BY DEF OnePlace, EndInv
<1>3. \A i, j \in 1 .. Len(queue) : queue[i] = queue[j] => i = j
  BY <1>1, <1>2
<1>4. e \in Surjection(1 .. Len(queue), Entries) /\ e \in Injection(1 .. Len(queue), Entries)
  <2>1. e \in [1 .. Len(queue) -> Entries]
    BY <1>1
  <2>2. \A t \in Entries : \E i \in 1 .. Len(queue) : e[i] = t
    BY <1>1
  <2>3. \A i, j \in 1 .. Len(queue) : e[i] = e[j] => i = j
    BY <1>3
  <2> HIDE DEF e
  <2>4. IsInjective(e)
    BY <2>1, <2>3 DEF IsInjective
  <2> QED
    BY <2>1, <2>2, <2>4 DEF Surjection, Injection
<1>5. 1 \in Int /\ Len(queue) \in Int
  BY <1>1
<1>6. /\ IsFiniteSet(1 .. Len(queue))
      /\ Cardinality(1 .. Len(queue)) = IF 1 > Len(queue) THEN 0 ELSE Len(queue) - 1 + 1
  BY <1>5, FS_Interval, Zenon
<1>7. Cardinality(1 .. Len(queue)) = Len(queue)
  BY <1>1, <1>6
<1>8. IsFiniteSet(Entries) /\ Cardinality(Entries) = Cardinality(1 .. Len(queue))
  BY <1>4, <1>6, FS_Surjection
<1> QED
  BY <1>1, <1>7, <1>8

(* A queue as long as a version is not full when something is put.          *)
LEMMA NoneDropped ==
  ASSUME RestTyped, OnePlace, EndInv, ProgressInv, NEW x \in EntryType,
         \/ x \in Sample /\ task[x] = "generating"
         \/ x = End /\ pc \in {"done", "failed"},
         PutSample(x)
  PROVE  dropped' = dropped /\ queue' = Append(queue, x)
<1>1. /\ IsFiniteSet(Entries) /\ Cardinality(Entries) = Len(queue) /\ Len(queue) \in Nat
      /\ Entries \subseteq EntryType
  BY QueueCount, EntriesAre DEF RestTyped
<1>2. /\ Cardinality(Taken) \in Nat /\ IsFiniteSet(Taken) /\ Ending \in {0, 1}
      /\ Consumed \in Nat /\ maxRequired \in Nat
  BY TakenFinite, ConsumedType, LimitType DEF RestTyped
<1>3. Cardinality(Taken) + Ending <= maxRequired
  BY <1>2 DEF ProgressInv, Progress
<1>4. Entries \ {End} \subseteq Taken
  BY <1>1 DEF Taken, EntryType
<1>5. PICK S : S = Entries \ {End}
  OBVIOUS
<1>6. /\ IsFiniteSet(S) /\ Cardinality(S) \in Nat
      /\ Cardinality(S) = IF End \in Entries THEN Len(queue) - 1 ELSE Len(queue)
  <2>1. IsFiniteSet(S)
    BY <1>1, <1>5, FS_Subset
  <2>2. CASE End \in Entries
    BY <1>1, <1>5, <2>1, <2>2, FS_RemoveElement, FS_CardinalityType
  <2>3. CASE End \notin Entries
    <3>1. S = Entries
      BY <1>5, <2>3
    <3> QED
      BY <1>1, <2>3, <3>1
  <2> QED
    BY <2>2, <2>3
<1>7. Len(queue) < maxRequired
  <2>1. CASE x \in Sample /\ task[x] = "generating"
    <3>1. x \notin S /\ S \union {x} \subseteq Taken
      BY <1>4, <1>5, <2>1 DEF OnePlace, Taken
    <3>2. Cardinality(S \union {x}) = Cardinality(S) + 1
      BY <1>6, <3>1, FS_AddElement
    <3>3. Cardinality(S) + 1 <= Cardinality(Taken)
      BY <1>2, <3>1, <3>2, FS_Subset
    <3>4. End \in Entries => Ending = 1
      BY DEF EndInv, Ending
    <3> QED
      BY <1>1, <1>2, <1>3, <1>6, <3>3, <3>4
  <2>2. CASE x = End /\ pc \in {"done", "failed"}
    <3>1. Ending = 1 /\ End \notin Entries
      BY <2>2 DEF EndInv, Ending
    <3>2. Cardinality(S) <= Cardinality(Taken)
      BY <1>2, <1>4, <1>5, FS_Subset
    <3> QED
      BY <1>1, <1>2, <1>3, <1>6, <3>1, <3>2
  <2> QED
    BY <2>1, <2>2
<1>8. ~(Len(queue) >= maxRequired)
  BY <1>1, <1>2, <1>7
<1> QED
  BY <1>8 DEF PutSample

(* The trainer sees samples of its present weights only.                    *)
LEMMA FreshStep ==
  ASSUME RolloutTyped, RestTyped, OnePlace, StaleInv, TrainerInv, EndInv, ProgressInv, FreshInv,
         maxRequired = VersionSamples, Next
  PROVE  FreshInv'
<1> USE DEF feeding, tasks, gate, service, rollout, mq, train, outside
<1>1. CASE \/ FeedSample \/ FeedEnd \/ MonitorLooks \/ MonitorResumes \/ StopRunning
           \/ CheckQueue \/ CheckStaleness \/ Pause \/ Resume \/ GetPending \/ AtLimit
           \/ AwaitTasks \/ ResetBegins \/ ResetEnds \/ Save \/ StopTraining
  <2>1. /\ UNCHANGED <<task, queue, batch, fresh, staleUsed, dropped>>
        /\ ~stopping' => ~stopping
    BY <1>1 DEF FeedSample, FeedEnd, MonitorLooks, MonitorResumes, StopRunning, CheckQueue,
         CheckStaleness, Pause, Resume, GetPending, AtLimit, AwaitTasks, ResetBegins, ResetEnds,
         Save, StopTraining
  <2>2. Entries' = Entries
    BY <2>1 DEF Entries
  <2> QED
    BY <2>1, <2>2 DEF FreshInv
<1>2. CASE Drain \/ TaskFreed \/ TaskFinished
  <2>1. /\ \E next \in {"check", "drain", "limit", "finish"} : Reap(next)
        /\ UNCHANGED <<queue, batch, fresh, staleUsed, dropped, stopping>>
    BY <1>2 DEF Drain, TaskFreed, TaskFinished
  <2>2. \A x \in Sample : task'[x] = task[x] \/ task'[x] = "none"
    BY <2>1, ReapEffect
  <2>3. Entries' = Entries
    BY <2>1 DEF Entries
  <2> QED
    BY <2>1, <2>2, <2>3 DEF FreshInv
<1>3. CASE Submit
  <2>1. /\ task' = [task EXCEPT ![held] = "generating"] /\ fresh' = fresh \union {held}
        /\ UNCHANGED <<queue, batch, staleUsed, dropped, stopping>>
    BY <1>3 DEF Submit
  <2>2. Entries' = Entries
    BY <2>1 DEF Entries
  <2>3. \A x \in Sample : x = held \/ task'[x] = task[x]
    BY <2>1 DEF RolloutTyped
  <2> QED
    BY <2>1, <2>2, <2>3 DEF FreshInv
<1>4. ASSUME NEW s \in Sample, SamplePut(s)
      PROVE  FreshInv'
  <2>1. /\ PutSample(s) /\ task[s] = "generating" /\ task' = [task EXCEPT ![s] = "put"]
        /\ UNCHANGED <<batch, fresh, staleUsed, stopping>> /\ s \in EntryType
    BY <1>4 DEF SamplePut, EntryType
  <2>2. queue' \in Seq(EntryType) /\ \E d \in {0, 1} : d <= Len(queue) /\ Shifted(d, s)
    BY <2>1, PutEffect DEF StaleInv
  <2>3. Entries' \subseteq Entries \union {s}
    BY <2>1, <2>2, PutEntries DEF RestTyped
  <2>4. dropped' = dropped
    BY <2>1, NoneDropped
  <2>5. \A x \in Sample : task'[x] = "generating" => task[x] = "generating"
    BY <2>1 DEF RolloutTyped
  <2> QED
    BY <2>1, <2>3, <2>4, <2>5 DEF FreshInv
<1>5. ASSUME NEW s \in Sample, TaskReturns(s)
      PROVE  FreshInv'
  <2>1. /\ task[s] = "put" /\ task' = [task EXCEPT ![s] = "done"]
        /\ UNCHANGED <<queue, batch, fresh, staleUsed, dropped, stopping>>
    BY <1>5 DEF TaskReturns
  <2>2. Entries' = Entries
    BY <2>1 DEF Entries
  <2>3. \A x \in Sample : task'[x] = "generating" => task[x] = "generating"
    BY <2>1 DEF RolloutTyped
  <2> QED
    BY <2>1, <2>2, <2>3 DEF FreshInv
<1>6. ASSUME NEW s \in Sample, GenerationRaises(s)
      PROVE  FreshInv'
  <2>1. /\ task[s] = "generating" /\ task' = [task EXCEPT ![s] = "failed"]
        /\ fresh' = fresh \ {s} /\ UNCHANGED <<queue, batch, staleUsed, dropped, stopping>>
    BY <1>6 DEF GenerationRaises
  <2>2. Entries' = Entries /\ s \notin Entries /\ s \notin batch
    BY <2>1 DEF Entries, OnePlace
  <2>3. \A x \in Sample : task'[x] = "generating" => task[x] = "generating" /\ x # s
    BY <2>1 DEF RolloutTyped
  <2> QED
    BY <2>1, <2>2, <2>3 DEF FreshInv
<1>7. CASE EndQueue
  <2>1. /\ PutSample(End) /\ pc \in {"done", "failed"} /\ End \in EntryType
        /\ UNCHANGED <<task, batch, fresh, staleUsed, stopping>>
    BY <1>7 DEF EndQueue, EntryType
  <2>2. queue' \in Seq(EntryType) /\ \E d \in {0, 1} : d <= Len(queue) /\ Shifted(d, End)
    BY <2>1, PutEffect DEF StaleInv
  <2>3. Entries' \subseteq Entries \union {End} /\ End \notin Sample
    BY <2>1, <2>2, PutEntries DEF RestTyped, Sample, End
  <2>4. dropped' = dropped
    BY <2>1, NoneDropped
  <2> QED
    BY <2>1, <2>3, <2>4 DEF FreshInv
<1>8. CASE TakeSample
  <2>1. UNCHANGED <<task, fresh, staleUsed, dropped, stopping>>
    BY <1>8 DEF TakeSample
  <2>2. Entries' \subseteq Entries /\ Head(queue) \in Entries
    BY <1>8, TakeIs, TakeEffect
  <2>3. batch' = {} \/ batch' = batch \union {Head(queue)}
    BY <1>8 DEF TakeSample
  <2> QED
    BY <2>1, <2>2, <2>3 DEF FreshInv
<1>9. CASE LocalStep
  <2>1. /\ trainer = "train" /\ batch' = {} /\ fresh' = fresh \ batch
        /\ staleUsed' = staleUsed + Cardinality(batch \ fresh)
        /\ UNCHANGED <<task, queue, dropped, stopping>>
    BY <1>9 DEF LocalStep
  <2>2. ~stopping /\ batch \subseteq Sample
    BY <2>1 DEF TrainerInv, RestTyped
  <2>3. batch \ fresh = {}
    BY <2>2 DEF FreshInv
  <2>4. staleUsed' = 0
    BY <2>1, <2>3, FS_EmptySet DEF FreshInv
  <2>5. \A x \in Sample : task[x] = "generating" \/ x \in Entries => x \notin batch
    BY DEF OnePlace
  <2>6. Entries' = Entries
    BY <2>1 DEF Entries
  <2> QED
    BY <2>1, <2>4, <2>5, <2>6 DEF FreshInv
<1>10. CASE PushWeights
  <2>1. /\ trainer = "push" /\ fresh' = {} /\ staleUsed' = 0
        /\ UNCHANGED <<task, queue, dropped, stopping, batch>>
    BY <1>10 DEF PushWeights
  <2>2. batch = {} /\ Entries' = Entries
    BY <2>1 DEF TrainerInv, Entries
  <2>3. ~stopping => Taken = {}
    <3>1. ASSUME ~stopping
          PROVE  Taken = {}
      <4>1. Consumed = maxRequired
        BY <2>1, <3>1 DEF Consumed
      <4>2. /\ Cardinality(Taken) \in Nat /\ Ending \in {0, 1} /\ maxRequired \in Nat
            /\ IsFiniteSet(Taken)
        BY TakenFinite, LimitType DEF RestTyped
      <4>3. Cardinality(Taken) = 0
        BY <4>1, <4>2 DEF ProgressInv, Progress
      <4> QED
        BY <4>2, <4>3, FS_EmptySet
    <3> QED
      BY <3>1
  <2>4. ~stopping => \A x \in Sample : ~(task[x] = "generating" \/ x \in Entries)
    BY <2>3 DEF Taken
  <2> QED
    BY <2>1, <2>2, <2>4 DEF FreshInv
<1>11. CASE Restart
  <2>1. /\ task' = [s \in Sample |-> "none"] /\ queue' = <<>> /\ batch' = {} /\ staleUsed' = 0
        /\ dropped' = {}
    BY <1>11 DEF Restart
  <2>2. Entries' = {}
    BY <2>1 DEF Entries
  <2> QED
    BY <2>1, <2>2 DEF FreshInv
<1> QED
  BY <1>1, <1>2, <1>3, <1>4, <1>5, <1>6, <1>7, <1>8, <1>9, <1>10, <1>11 DEF Next

-----------------------------------------------------------------------------
(* Both queues end with their end signal.                                   *)
LEMMA LastKept ==
  ASSUME LastInv, UNCHANGED <<queue, pending>>, feed = "over" => feed' = "over",
         pc' \notin {"failed", "done", "ended"}, held' = End \/ held' = held,
         pc' \in {"finish", "finishing"} => pc \in {"finish", "finishing"},
         pc' \notin {"limit", "limited", "submit"} =>
           pc \notin {"limit", "limited", "submit"} \/ held' = End,
         \A x \in Sample : task'[x] = "failed" => task[x] = "failed"
  PROVE  LastInv'
BY DEF LastInv

LEMMA LastStep ==
  ASSUME RolloutTyped, RestTyped, FetchedInv, ActiveInv, StaleInv, EndInv, LastInv, failures = 0,
         failures' = 0, Next
  PROVE  LastInv'
<1> USE DEF feeding, tasks, gate, service, rollout, mq, train, outside
<1>0. /\ pending \in Seq(EntryType) /\ Len(pending) \in Nat
      /\ queue \in Seq(EntryType) /\ Len(queue) \in Nat
      /\ Entries = {queue[i] : i \in 1 .. Len(queue)}
  BY LenProperties, EntriesAre DEF RolloutTyped, RestTyped
<1>1. CASE \/ MonitorLooks \/ MonitorResumes \/ StopRunning
           \/ LocalStep \/ PushWeights \/ ResetBegins \/ ResetEnds \/ Save \/ StopTraining
  <2>1. UNCHANGED <<task, pending, feed, pc, held, active, queue>>
    BY <1>1 DEF MonitorLooks, MonitorResumes, StopRunning, LocalStep, PushWeights, ResetBegins,
         ResetEnds, Save, StopTraining
  <2> QED
    BY <2>1 DEF LastInv
<1>2. CASE CheckQueue \/ CheckStaleness \/ Pause \/ Resume
  <2>1. /\ UNCHANGED <<task, pending, feed, held, queue>>
        /\ pc \in {"check", "compare", "pause", "drain"}
        /\ pc' \in {"check", "compare", "pause", "drain", "get"}
    BY <1>2 DEF CheckQueue, CheckStaleness, Pause, Resume
  <2> QED
    BY <2>1, LastKept
<1>3. CASE AtLimit
  <2>1. /\ UNCHANGED <<task, pending, feed, held, queue>> /\ pc' \in {"limited", "submit"}
    BY <1>3 DEF AtLimit
  <2> QED
    BY <2>1, LastKept
<1>4. CASE AwaitTasks
  <2>1. /\ UNCHANGED <<task, pending, feed, held, active, queue>> /\ pc = "finish"
        /\ \/ pc' = "finishing"
           \/ pc' = "done" /\ active = {}
    BY <1>4 DEF AwaitTasks
  <2> QED
    BY <2>1 DEF LastInv
<1>5. CASE Drain \/ TaskFreed \/ TaskFinished
  <2>1. PICK next \in {"check", "drain", "limit", "finish"} :
           /\ Reap(next) /\ UNCHANGED <<queue, held, pending, feed>>
           /\ pc = "finishing" <=> next = "finish"
           /\ pc = "limited" <=> next = "limit"
           /\ pc \in {"drain", "limited", "finishing"}
    BY <1>5 DEF Drain, TaskFreed, TaskFinished
  <2>2. pc' = next
    <3>1. ~RaisedIn(Finished)
      BY DEF RaisedIn, Finished, LastInv, RolloutTyped
    <3> QED
      BY <2>1, <3>1 DEF Reap
  <2>3. \A x \in Sample : task'[x] = task[x] \/ task'[x] = "none"
    BY <2>1, ReapEffect
  <2> QED
    BY <2>1, <2>2, <2>3, LastKept
<1>6. CASE Submit
  <2>1. /\ UNCHANGED <<queue, pending, feed>> /\ pc' = "check" /\ held' = End
        /\ task' = [task EXCEPT ![held] = "generating"]
    BY <1>6 DEF Submit
  <2>2. \A x \in Sample : task'[x] = "failed" => task[x] = "failed"
    BY <2>1 DEF RolloutTyped
  <2> QED
    BY <2>1, <2>2, LastKept
<1>7. CASE FeedSample
  <2>1. /\ feed = "feeding" /\ pending' = Append(pending, fetched)
        /\ UNCHANGED <<task, pc, held, active, queue>>
    BY <1>7 DEF FeedSample
  <2>2. /\ Len(pending') = Len(pending) + 1
        /\ \A i \in 1 .. Len(pending) : pending'[i] = pending[i]
        /\ pending'[Len(pending) + 1] = fetched /\ fetched # End
    BY <1>0, <2>1, FetchedInSample, AppendProperties DEF EntryType, Sample, End
  <2>3. \A i \in 1 .. Len(pending') : pending'[i] # End
    BY <1>0, <2>1, <2>2 DEF LastInv
  <2> QED
    BY <2>1, <2>3 DEF LastInv
<1>8. CASE FeedEnd
  <2>1. /\ feed = "ending" /\ pending' = Append(pending, End) /\ feed' = "over"
        /\ UNCHANGED <<task, pc, held, active, queue>> /\ End \in EntryType
    BY <1>8 DEF FeedEnd, EntryType
  <2>2. /\ Len(pending') = Len(pending) + 1
        /\ \A i \in 1 .. Len(pending) : pending'[i] = pending[i]
    BY <1>0, <2>1, AppendProperties
  <2>3. \A i \in 1 .. Len(pending') : pending'[i] = End => i = Len(pending')
    BY <1>0, <2>1, <2>2 DEF LastInv
  <2> QED
    BY <2>1, <2>3 DEF LastInv
<1>9. CASE GetPending
  <2>1. /\ pc = "get" /\ pending # <<>> /\ held' = Head(pending) /\ pending' = Tail(pending)
        /\ pc' = IF Head(pending) = End THEN "finish" ELSE "limit"
        /\ UNCHANGED <<feed, task, active, queue>>
    BY <1>9 DEF GetPending
  <2>2. /\ Len(pending') = Len(pending) - 1 /\ Len(pending) > 0 /\ Head(pending) = pending[1]
        /\ \A i \in 1 .. Len(pending) - 1 : pending'[i] = pending[i + 1]
        /\ pending' \in Seq(EntryType)
    BY <1>0, <2>1, HeadTailProperties, EmptySeq
  <2>3. \A i \in 1 .. Len(pending') : pending'[i] = End => i = Len(pending') /\ feed = "over"
    BY <1>0, <2>2 DEF LastInv
  <2>4. Head(pending) = End => feed = "over" /\ pending' = <<>>
    <3>1. ASSUME Head(pending) = End
          PROVE  feed = "over" /\ Len(pending) = 1
      <4>1. 1 \in 1 .. Len(pending)
        BY <1>0, <2>2
      <4> QED
        BY <2>2, <3>1, <4>1 DEF LastInv
    <3>2. Len(pending') = 0 => pending' = <<>>
      BY <2>2, EmptySeq
    <3> QED
      BY <2>2, <3>1, <3>2
  <2> QED
    BY <2>1, <2>3, <2>4 DEF LastInv
<1>10. ASSUME NEW s \in Sample, SamplePut(s)
       PROVE  LastInv'
  <2>1. /\ PutSample(s) /\ task[s] = "generating" /\ task' = [task EXCEPT ![s] = "put"]
        /\ UNCHANGED <<pending, feed, pc, held, active>> /\ s \in EntryType /\ s # End
    BY <1>10 DEF SamplePut, EntryType, Sample, End
  <2>2. PICK d \in {0, 1} : d <= Len(queue) /\ Shifted(d, s) /\ queue' \in Seq(EntryType)
    BY <2>1, PutEffect DEF StaleInv
  <2>3. Entries' \subseteq Entries \union {s} /\ Entries' = {queue'[i] : i \in 1 .. Len(queue')}
    BY <1>0, <2>1, <2>2, PutEntries, LenProperties DEF Entries
  <2>4. End \notin Entries
    <3>1. s \in active
      BY <2>1 DEF ActiveInv
    <3> QED
      BY <3>1 DEF EndInv, LastInv
  <2>5. \A i \in 1 .. Len(queue') : queue'[i] # End
    BY <2>1, <2>3, <2>4
  <2>6. \A x \in Sample : task'[x] = "failed" => task[x] = "failed"
    BY <2>1 DEF RolloutTyped
  <2> QED
    BY <2>1, <2>5, <2>6 DEF LastInv
<1>11. ASSUME NEW s \in Sample, TaskReturns(s) \/ GenerationRaises(s)
       PROVE  LastInv'
  <2>1. ~GenerationRaises(s)
    BY DEF GenerationRaises
  <2>2. /\ task' = [task EXCEPT ![s] = "done"]
        /\ UNCHANGED <<pending, feed, pc, held, active, queue>>
    BY <1>11, <2>1 DEF TaskReturns
  <2>3. \A x \in Sample : task'[x] = "failed" => task[x] = "failed"
    BY <2>2 DEF RolloutTyped
  <2> QED
    BY <2>2, <2>3 DEF LastInv
<1>12. CASE EndQueue
  <2>1. /\ PutSample(End) /\ pc = "done" /\ pc' = "ended" /\ feed' = "over" /\ End \in EntryType
        /\ UNCHANGED <<task, pending, held, active>>
    BY <1>12 DEF EndQueue, EntryType, LastInv
  <2>2. PICK d \in {0, 1} : d <= Len(queue) /\ Shifted(d, End) /\ queue' \in Seq(EntryType)
    BY <2>1, PutEffect DEF StaleInv
  <2>3. End \notin Entries
    BY <2>1 DEF EndInv
  <2>4. \A i \in 1 .. Len(queue') : \/ i + d \in 1 .. Len(queue) /\ queue'[i] = queue[i + d]
                                    \/ i = Len(queue')
    BY <1>0, <2>2 DEF Shifted
  <2>5. \A i \in 1 .. Len(queue') : queue'[i] = End => i = Len(queue')
    BY <1>0, <2>3, <2>4
  <2> QED
    BY <2>1, <2>5 DEF LastInv
<1>13. CASE TakeSample
  <2>1. UNCHANGED <<task, pending, feed, pc, held, active>> /\ queue # <<>> /\ queue' = Tail(queue)
    BY <1>13 DEF TakeSample
  <2>2. Len(queue') = Len(queue) - 1 /\ \A i \in 1 .. Len(queue) - 1 : queue'[i] = queue[i + 1]
    BY <1>0, <2>1, TakeEffect
  <2>3. \A i \in 1 .. Len(queue') : queue'[i] = End => i = Len(queue')
    BY <1>0, <2>2 DEF LastInv
  <2> QED
    BY <2>1, <2>3 DEF LastInv
<1>14. CASE Restart
  <2>1. /\ task' = [s \in Sample |-> "none"] /\ pending' = <<>> /\ queue' = <<>> /\ held' = End
        /\ pc' = "check"
    BY <1>14 DEF Restart
  <2>2. Len(pending') = 0 /\ Len(queue') = 0
    BY <2>1
  <2> QED
    BY <2>1, <2>2 DEF LastInv
<1> QED
  BY <1>1, <1>2, <1>3, <1>4, <1>5, <1>6, <1>7, <1>8, <1>9, <1>10, <1>11, <1>12, <1>13, <1>14
     DEF Next

-----------------------------------------------------------------------------
LEMMA TimesGrows ==
  ASSUME NEW a \in Nat, NEW b \in Nat, NEW c \in Nat, a <= b
  PROVE  a * c \in Nat /\ b * c \in Nat /\ a * c <= b * c
<1>1. PICK k \in Nat : b = a + k
  <2>1. b - a \in Nat /\ b = a + (b - a)
    OBVIOUS
  <2> QED
    BY <2>1
<1>2. (a + k) * c = a * c + k * c
  OBVIOUS
<1>3. a * c \in Nat /\ k * c \in Nat
  OBVIOUS
<1> QED
  BY <1>1, <1>2, <1>3

(* The samples of the local steps of a version.                             *)
LEMMA LocalSteps ==
  ASSUME RestTyped
  PROVE  /\ version * VersionSamples \in Nat /\ (localStep - 1) * Required \in Nat
         /\ Reached \in Nat
         /\ localStep * Required \in Nat
         /\ localStep * Required = (localStep - 1) * Required + Required
         /\ localStep * Required <= VersionSamples
         /\ ~(localStep < Trigger) => localStep * Required = VersionSamples
<1>1. /\ localStep \in Nat /\ localStep >= 1 /\ localStep <= Trigger /\ version \in Nat
      /\ Required \in Nat /\ Trigger \in Nat /\ VersionSamples \in Nat
  BY Numbers DEF RestTyped
<1>2. version * VersionSamples \in Nat
  BY <1>1
<1>3. localStep - 1 \in Nat /\ localStep = (localStep - 1) + 1
  BY <1>1
<1>4. (localStep - 1) * Required \in Nat
  BY <1>1, <1>3
<1>5. localStep * Required = (localStep - 1) * Required + Required
  BY <1>1, <1>3
<1>6. localStep * Required <= Trigger * Required /\ localStep * Required \in Nat
  BY <1>1, TimesGrows
<1>7. VersionSamples = Trigger * Required
  BY <1>1 DEF VersionSamples
<1>8. ~(localStep < Trigger) => localStep = Trigger
  BY <1>1
<1>9. Reached \in Nat
  BY <1>2, <1>4 DEF Reached
<1> QED
  BY <1>2, <1>4, <1>5, <1>6, <1>7, <1>8, <1>9

LEMMA UnderWayFinite ==
  UnderWay \in SUBSET Sample /\ IsFiniteSet(UnderWay) /\ Cardinality(UnderWay) \in Nat
<1>1. UnderWay \in SUBSET Sample
  BY DEF UnderWay
<1> QED
  BY <1>1, SampleFinite, FS_CardinalityType

LEMMA Appended ==
  ASSUME queue \in Seq(EntryType), NEW x \in EntryType, queue' = Append(queue, x)
  PROVE  Entries' = Entries \union {x}
<1>1. /\ queue' \in Seq(EntryType) /\ Len(queue') = Len(queue) + 1 /\ Len(queue) \in Nat
      /\ \A i \in 1 .. Len(queue) : queue'[i] = queue[i]
      /\ queue'[Len(queue) + 1] = x
  BY AppendProperties, LenProperties
<1>2. Entries = {queue[i] : i \in 1 .. Len(queue)} /\ Entries' = {queue'[i] : i \in 1 .. Len(queue')}
  BY <1>1, EntriesAre, LenProperties DEF Entries
<1>3. 1 .. Len(queue') = 1 .. Len(queue) \union {Len(queue) + 1}
  BY <1>1
<1> QED
  BY <1>1, <1>2, <1>3

LEMMA TakenOut ==
  ASSUME queue \in Seq(EntryType), queue # <<>>, queue' = Tail(queue)
  PROVE  Entries = Entries' \union {Head(queue)}
<1>1. /\ Len(queue) \in Nat /\ Len(queue) > 0 /\ Len(queue') = Len(queue) - 1
      /\ \A i \in 1 .. Len(queue) - 1 : queue'[i] = queue[i + 1]
      /\ Head(queue) = queue[1] /\ Head(queue) \in Entries /\ Entries' \subseteq Entries
      /\ queue' \in Seq(EntryType)
  BY TakeEffect
<1>2. Entries = {queue[i] : i \in 1 .. Len(queue)} /\ Entries' = {queue'[i] : i \in 1 .. Len(queue')}
  BY <1>1, EntriesAre, LenProperties DEF Entries
<1>3. ASSUME NEW i \in 1 .. Len(queue), i # 1
      PROVE  queue[i] \in Entries'
  <2>1. i - 1 \in 1 .. Len(queue') /\ queue'[i - 1] = queue[(i - 1) + 1]
    BY <1>1, <1>3
  <2>2. (i - 1) + 1 = i
    BY <1>3
  <2> QED
    BY <1>2, <2>1, <2>2
<1> QED
  BY <1>1, <1>2, <1>3

LEMMA TotalKept ==
  ASSUME TotalInv, UnderWay' = UnderWay, feed' = "feeding" <=> feed = "feeding",
         feed = "over" => feed' = "over",
         UNCHANGED <<version, localStep, globalSteps, checkpoint, crashes>>,
         trainer' = "stop" \/ stopping' <=> trainer = "stop" \/ stopping
  PROVE  TotalInv'
<1>1. Fed' = Fed /\ Reached' = Reached
  BY DEF Fed, Reached
<1> QED
  BY <1>1 DEF TotalInv

(* Where the samples under way are, when the rollouter moves one.           *)
LEMMA UnderWaySame ==
  ASSUME UNCHANGED batch,
         \A x \in Sample :
           \/ task'[x] \in {"generating", "failed"} \/ x \in Entries' \/ Waiting(x)'
           <=>
           \/ task[x] \in {"generating", "failed"} \/ x \in Entries \/ Waiting(x)
  PROVE  UnderWay' = UnderWay
BY DEF UnderWay

(* Without failures every sample that was fed is accounted for.             *)
LEMMA TotalStep ==
  ASSUME RolloutTyped, RestTyped, FetchedInv, InOrder, OnePlace, ActiveInv, StaleInv, TrainerInv,
         EndInv, LastInv, ProgressInv, TotalInv, maxRequired = VersionSamples, Uninterrupted,
         Uninterrupted', Next
  PROVE  TotalInv'
<1> USE DEF feeding, tasks, gate, service, rollout, mq, train, outside
<1>0. /\ pending \in Seq(EntryType) /\ Len(pending) \in Nat /\ queue \in Seq(EntryType)
      /\ End \notin Sample /\ globalSteps \in Nat /\ TotalRollout \in Nat
      /\ VersionSamples \in Nat /\ VersionSamples > 0 /\ version \in Nat
      /\ IsFiniteSet(UnderWay) /\ Cardinality(UnderWay) \in Nat
  BY LenProperties, Numbers, UnderWayFinite DEF RolloutTyped, RestTyped, Sample, End
<1>1. CASE \/ MonitorLooks \/ MonitorResumes \/ StopRunning \/ CheckQueue \/ CheckStaleness
           \/ Pause \/ Resume \/ AtLimit \/ AwaitTasks \/ PushWeights \/ ResetBegins \/ ResetEnds
           \/ StopTraining
  <2>1. /\ UNCHANGED <<feeding, task, pending, held, queue, batch, version, localStep, checkpoint,
                       crashes>>
        /\ trainer' = "stop" \/ stopping' <=> trainer = "stop" \/ stopping
    BY <1>1 DEF MonitorLooks, MonitorResumes, StopRunning, CheckQueue, CheckStaleness, Pause,
         Resume, AtLimit, AwaitTasks, PushWeights, ResetBegins, ResetEnds, StopTraining
  <2>2. UnderWay' = UnderWay
    BY <2>1 DEF UnderWay, Entries, Waiting
  <2> QED
    BY <2>1, <2>2, TotalKept
<1>2. CASE Drain \/ TaskFreed \/ TaskFinished
  <2>1. /\ \E next \in {"check", "drain", "limit", "finish"} : Reap(next)
        /\ UNCHANGED <<feeding, pending, held, queue, train, checkpoint, crashes>>
    BY <1>2 DEF Drain, TaskFreed, TaskFinished
  <2>2. \A x \in Sample : task'[x] \in {"generating", "failed"}
                            <=> task[x] \in {"generating", "failed"}
    <3>1. task' = [x \in Sample |-> IF x \in Finished THEN "none" ELSE task[x]]
      BY <2>1 DEF Reap
    <3>2. \A x \in Finished : task[x] = "done"
      BY DEF Finished, LastInv, RolloutTyped
    <3> QED
      BY <3>1, <3>2
  <2>3. Entries' = Entries /\ \A x \in Sample : Waiting(x)' <=> Waiting(x)
    BY <2>1 DEF Entries, Waiting
  <2>4. UnderWay' = UnderWay
    BY <2>1, <2>2, <2>3, UnderWaySame
  <2> QED
    BY <2>1, <2>4, TotalKept
<1>3. CASE FeedEnd
  <2>1. /\ feed = "ending" /\ feed' = "over" /\ pending' = Append(pending, End)
        /\ UNCHANGED <<globalSteps, task, held, queue, train, checkpoint, crashes>>
    BY <1>3 DEF FeedEnd
  <2>2. /\ Len(pending') = Len(pending) + 1
        /\ \A i \in 1 .. Len(pending) : pending'[i] = pending[i]
        /\ pending'[Len(pending) + 1] = End
    BY <1>0, <2>1, AppendProperties DEF EntryType
  <2>3. \A x \in Sample : Waiting(x)' <=> Waiting(x)
    BY <1>0, <2>1, <2>2 DEF Waiting
  <2>4. Entries' = Entries
    BY <2>1 DEF Entries
  <2>5. UnderWay' = UnderWay
    BY <2>1, <2>3, <2>4, UnderWaySame
  <2> QED
    BY <2>1, <2>5, TotalKept
<1>4. CASE FeedSample
  <2>1. /\ feed = "feeding" /\ pending' = Append(pending, fetched)
        /\ UNCHANGED <<task, held, queue, pc, train, checkpoint, crashes>>
    BY <1>4 DEF FeedSample
  <2>2. fetched \in Sample /\ fetched # End /\ fetched \in EntryType
    BY FetchedInSample DEF EntryType, Sample, End
  <2>3. /\ Len(pending') = Len(pending) + 1
        /\ \A i \in 1 .. Len(pending) : pending'[i] = pending[i]
        /\ pending'[Len(pending) + 1] = fetched
    BY <1>0, <2>1, <2>2, AppendProperties
  <2>4. \A x \in Sample : Waiting(x)' <=> Waiting(x) \/ x = fetched
    BY <1>0, <2>1, <2>2, <2>3 DEF Waiting
  <2>5. Entries' = Entries
    BY <2>1 DEF Entries
  <2>6. UnderWay' = UnderWay \union {fetched}
    BY <2>1, <2>2, <2>4, <2>5 DEF UnderWay
  <2>7. fetched \notin UnderWay
    <3>1. \A x \in UnderWay : x \in Used \/ Waiting(x)
      BY DEF UnderWay, Used
    <3>2. \A x \in UnderWay : x < fetched
      BY <2>1, <3>1 DEF InOrder, UnderWay
    <3> QED
      BY <2>2, <3>2 DEF Sample
  <2>8. Cardinality(UnderWay') = Cardinality(UnderWay) + 1
    BY <1>0, <2>6, <2>7, FS_AddElement
  <2>9. trainer # "stop" /\ ~stopping
    BY <2>1 DEF TrainerInv, LastInv
  <2>10. Reached' = Reached /\ Reached \in Nat
    BY <2>1, LocalSteps DEF Reached
  <2>11. Fed = globalSteps - 1
    BY <2>1 DEF Fed
  <2>12. CASE globalSteps >= TotalRollout
    <3>1. feed' = "ending" /\ globalSteps' = globalSteps
      BY <1>4, <2>12 DEF FeedSample
    <3>2. Fed' = Fed + 1
      BY <1>0, <2>11, <3>1 DEF Fed
    <3> QED
      BY <1>0, <2>1, <2>8, <2>9, <2>10, <2>12, <3>1, <3>2 DEF TotalInv
  <2>13. CASE globalSteps < TotalRollout
    <3>1. feed' = "feeding" /\ globalSteps' = globalSteps + 1
      BY <1>0, <1>4, <2>1, <2>13 DEF FeedSample
    <3>2. Fed' = Fed + 1
      BY <1>0, <2>11, <3>1 DEF Fed
    <3> QED
      BY <1>0, <2>1, <2>8, <2>9, <2>10, <2>13, <3>1, <3>2 DEF TotalInv
  <2> QED
    BY <1>0, <2>12, <2>13
<1>5. CASE GetPending
  <2>1. /\ pc = "get" /\ pending # <<>> /\ held' = Head(pending) /\ pending' = Tail(pending)
        /\ UNCHANGED <<feeding, task, queue, train, checkpoint, crashes>>
    BY <1>5 DEF GetPending
  <2>2. /\ Len(pending') = Len(pending) - 1 /\ Len(pending) > 0 /\ Head(pending) = pending[1]
        /\ \A i \in 1 .. Len(pending) - 1 : pending'[i] = pending[i + 1]
    BY <1>0, <2>1, HeadTailProperties, EmptySeq
  <2>3. held = End
    BY <2>1 DEF LastInv
  <2>4. ASSUME NEW x \in Sample
        PROVE  Waiting(x)' <=> Waiting(x)
    <3>1. x # End
      BY <1>0
    <3>2. Waiting(x) => Waiting(x)'
      <4>1. ASSUME NEW i \in 1 .. Len(pending), pending[i] = x, i # 1
            PROVE  \E j \in 1 .. Len(pending') : pending'[j] = x
        <5>1. i - 1 \in 1 .. Len(pending') /\ pending'[i - 1] = pending[(i - 1) + 1]
          BY <1>0, <2>2, <4>1
        <5>2. (i - 1) + 1 = i
          BY <4>1
        <5> QED
          BY <4>1, <5>1, <5>2
      <4> QED
        BY <2>1, <2>2, <2>3, <3>1, <4>1 DEF Waiting
    <3>3. Waiting(x)' => Waiting(x)
      <4>1. ASSUME NEW j \in 1 .. Len(pending'), pending'[j] = x
            PROVE  \E i \in 1 .. Len(pending) : pending[i] = x
        <5>1. j + 1 \in 1 .. Len(pending) /\ pending'[j] = pending[j + 1]
          BY <1>0, <2>2, <4>1
        <5> QED
          BY <4>1, <5>1
      <4>2. 1 \in 1 .. Len(pending)
        BY <1>0, <2>2
      <4> QED
        BY <2>1, <2>2, <3>1, <4>1, <4>2 DEF Waiting
    <3> QED
      BY <3>2, <3>3
  <2>5. Entries' = Entries
    BY <2>1 DEF Entries
  <2>6. UnderWay' = UnderWay
    BY <2>1, <2>4, <2>5, UnderWaySame
  <2> QED
    BY <2>1, <2>6, TotalKept
<1>6. CASE Submit
  <2>1. /\ held \in Sample /\ held' = End /\ task' = [task EXCEPT ![held] = "generating"]
        /\ UNCHANGED <<feeding, pending, queue, train, checkpoint, crashes>>
    BY <1>6 DEF Submit, ActiveInv, RolloutTyped, EntryType
  <2>2. ASSUME NEW x \in Sample, x # held
        PROVE  task'[x] = task[x] /\ (Waiting(x)' <=> Waiting(x))
    BY <1>0, <2>1, <2>2 DEF Waiting, RolloutTyped
  <2>3. Waiting(held) /\ task'[held] = "generating"
    BY <1>0, <2>1 DEF Waiting, RolloutTyped
  <2>4. Entries' = Entries
    BY <2>1 DEF Entries
  <2>5. UnderWay' = UnderWay
    BY <2>1, <2>2, <2>3, <2>4, UnderWaySame
  <2> QED
    BY <2>1, <2>5, TotalKept
<1>7. ASSUME NEW s \in Sample, SamplePut(s)
      PROVE  TotalInv'
  <2>1. /\ PutSample(s) /\ task[s] = "generating" /\ task' = [task EXCEPT ![s] = "put"]
        /\ UNCHANGED <<feeding, pending, held, train, checkpoint, crashes>> /\ s \in EntryType
    BY <1>7 DEF SamplePut, EntryType
  <2>2. queue' = Append(queue, s)
    BY <2>1, NoneDropped
  <2>3. Entries' = Entries \union {s}
    BY <1>0, <2>1, <2>2, Appended
  <2>4. \A x \in Sample : x # s => task'[x] = task[x]
    BY <2>1 DEF RolloutTyped
  <2>5. \A x \in Sample : Waiting(x)' <=> Waiting(x)
    BY <2>1 DEF Waiting
  <2>6. UnderWay' = UnderWay
    BY <2>1, <2>3, <2>4, <2>5, UnderWaySame
  <2> QED
    BY <2>1, <2>6, TotalKept
<1>8. ASSUME NEW s \in Sample, TaskReturns(s) \/ GenerationRaises(s)
      PROVE  TotalInv'
  <2>1. ~GenerationRaises(s)
    BY DEF GenerationRaises, Uninterrupted
  <2>2. /\ task[s] = "put" /\ task' = [task EXCEPT ![s] = "done"]
        /\ UNCHANGED <<feeding, pending, held, queue, train, checkpoint, crashes>>
    BY <1>8, <2>1 DEF TaskReturns
  <2>3. \A x \in Sample : task'[x] \in {"generating", "failed"}
                            <=> task[x] \in {"generating", "failed"}
    BY <2>2 DEF RolloutTyped
  <2>4. Entries' = Entries /\ \A x \in Sample : Waiting(x)' <=> Waiting(x)
    BY <2>2 DEF Entries, Waiting
  <2>5. UnderWay' = UnderWay
    BY <2>2, <2>3, <2>4, UnderWaySame
  <2> QED
    BY <2>2, <2>5, TotalKept
<1>9. CASE EndQueue
  <2>1. /\ PutSample(End) /\ pc = "done" /\ feed = "over" /\ feed' = "over" /\ End \in EntryType
        /\ UNCHANGED <<globalSteps, task, pending, held, train, checkpoint, crashes>>
    BY <1>9 DEF EndQueue, LastInv, EntryType
  <2>2. queue' = Append(queue, End)
    BY <2>1, NoneDropped
  <2>3. Entries' = Entries \union {End}
    BY <1>0, <2>1, <2>2, Appended
  <2>4. \A x \in Sample : Waiting(x)' <=> Waiting(x)
    BY <2>1 DEF Waiting
  <2>5. UnderWay' = UnderWay
    BY <1>0, <2>1, <2>3, <2>4, UnderWaySame
  <2> QED
    BY <2>1, <2>5, TotalKept
<1>10. CASE TakeSample
  <2>1. /\ UNCHANGED <<feeding, task, pending, held, pc, version, localStep, stopping, checkpoint,
                       crashes>>
        /\ trainer = "collect" /\ queue # <<>> /\ queue' = Tail(queue) /\ ~stopping
    BY <1>10 DEF TakeSample, TrainerInv
  <2>2. Entries = Entries' \union {Head(queue)}
    BY <1>0, <2>1, TakenOut
  <2>3. \A x \in Sample : Waiting(x)' <=> Waiting(x)
    BY <2>1 DEF Waiting
  <2>4. CASE Head(queue) # End
    <3>1. batch' = batch \union {Head(queue)} /\ trainer' # "stop"
      BY <1>10, <2>4 DEF TakeSample
    <3>2. UnderWay' = UnderWay
      BY <2>1, <2>2, <2>3, <3>1 DEF UnderWay
    <3> QED
      BY <2>1, <3>1, <3>2, TotalKept
  <2>5. CASE Head(queue) = End
    <3>1. trainer' = "stop"
      BY <1>10, <2>5 DEF TakeSample
    <3>2. pc = "ended" /\ Cardinality(batch) < Required
      BY <1>10, <2>1, <2>5, TakeIs DEF EndInv, TrainerInv
    <3>3. feed = "over" /\ pending = <<>> /\ held = End /\ active = {}
      BY <3>2 DEF LastInv
    <3>4. \A x \in Sample : ~Waiting(x) /\ task[x] = "none"
      BY <1>0, <3>3 DEF Waiting, ActiveInv
    <3>5. Entries = {End}
      <4>1. Len(queue) \in Nat /\ Len(queue) > 0 /\ Head(queue) = queue[1]
        BY <1>0, <2>1, TakeEffect
      <4>2. 1 \in 1 .. Len(queue)
        BY <4>1
      <4>3. Len(queue) = 1
        BY <2>5, <4>1, <4>2 DEF LastInv
      <4> QED
        BY <1>0, <2>5, <4>1, <4>3, EntriesAre
    <3>6. UnderWay = batch
      BY <1>0, <3>4, <3>5 DEF UnderWay, RestTyped
    <3>7. Reached + Cardinality(batch) = globalSteps
      BY <2>1, <3>3, <3>6 DEF TotalInv, Fed
    <3>8. Required \in Nat /\ Cardinality(batch) \in Nat
      BY <1>0, <3>6, Numbers
    <3>9. /\ version * VersionSamples <= globalSteps
          /\ globalSteps < version * VersionSamples + VersionSamples
      BY <1>0, <3>2, <3>7, <3>8, LocalSteps DEF Reached
    <3> QED
      BY <2>1, <3>1, <3>3, <3>9 DEF TotalInv
  <2> QED
    BY <2>4, <2>5
<1>11. CASE LocalStep
  <2>1. /\ UNCHANGED <<feeding, task, pending, held, queue, stopping, checkpoint, crashes>>
        /\ trainer = "train" /\ batch' = {} /\ ~stopping /\ Cardinality(batch) = Required
        /\ trainer' # "stop"
    BY <1>11 DEF LocalStep, TrainerInv
  <2>2. UnderWay' = UnderWay \ batch /\ batch \subseteq UnderWay
    <3>1. \A x \in batch : x \in Sample /\ x \in Used
      BY DEF Used, RestTyped
    <3>2. \A x \in batch : task[x] \notin {"generating", "failed"} /\ x \notin Entries
      BY <3>1 DEF OnePlace, LastInv
    <3>3. \A x \in batch : ~Waiting(x)
      <4>1. \A x \in Sample : ~(x < x)
        BY DEF Sample
      <4> QED
        BY <3>1, <4>1 DEF InOrder
    <3>4. Entries' = Entries /\ \A x \in Sample : Waiting(x)' <=> Waiting(x)
      BY <2>1 DEF Entries, Waiting
    <3> QED
      BY <2>1, <3>1, <3>2, <3>3, <3>4 DEF UnderWay
  <2>3. Cardinality(UnderWay') = Cardinality(UnderWay) - Required
    <3>1. IsFiniteSet(batch) /\ UnderWay \intersect batch = batch
      BY <1>0, <2>2, FS_Subset
    <3>2. Cardinality(UnderWay \ batch) = Cardinality(UnderWay) - Cardinality(UnderWay \intersect batch)
      BY <1>0, <3>1, FS_Difference
    <3> QED
      BY <2>1, <2>2, <3>1, <3>2
  <2>4. Required \in Nat /\ localStep \in Nat /\ Fed' = Fed
    BY <2>1, Numbers DEF RestTyped, Fed
  <2>5. Reached' = Reached + Required
    <3>1. CASE localStep < Trigger
      <4>1. localStep' = localStep + 1 /\ version' = version
        BY <1>11, <3>1 DEF LocalStep
      <4>2. localStep' - 1 = localStep
        BY <2>4, <4>1
      <4>3. Reached' = version * VersionSamples + localStep * Required
        BY <4>1, <4>2 DEF Reached
      <4> QED
        BY <2>4, <4>3, LocalSteps DEF Reached
    <3>2. CASE ~(localStep < Trigger)
      <4>1. localStep' = 1 /\ version' = version + 1
        BY <1>11, <3>2 DEF LocalStep
      <4>2. Reached' = (version + 1) * VersionSamples + (1 - 1) * Required
        BY <4>1 DEF Reached
      <4>3. Reached' = version * VersionSamples + VersionSamples
        BY <1>0, <2>4, <4>2
      <4> QED
        BY <1>0, <2>4, <3>2, <4>3, LocalSteps DEF Reached
    <3> QED
      BY <3>1, <3>2
  <2>6. Reached + Cardinality(UnderWay) = Fed
    BY <2>1 DEF TotalInv
  <2>7. Reached' + Cardinality(UnderWay') = Fed'
    BY <1>0, <2>3, <2>4, <2>5, <2>6, LocalSteps
  <2> QED
    BY <2>1, <2>7 DEF TotalInv
<1>12. CASE Save
  <2>1. /\ UNCHANGED <<feeding, task, pending, held, queue, batch, version, localStep, stopping,
                       crashes>>
        /\ trainer = "save" /\ trainer' # "stop"
        /\ checkpoint' = checkpoint \/ checkpoint'.version = version
    BY <1>12 DEF Save
  <2>2. UnderWay' = UnderWay /\ Reached' = Reached /\ Fed' = Fed
    BY <2>1 DEF UnderWay, Entries, Waiting, Reached, Fed
  <2>3. version * VersionSamples \in Nat /\ version * VersionSamples <= globalSteps
    <3>1. CASE stopping
      BY <3>1, LocalSteps DEF TotalInv
    <3>2. CASE ~stopping
      <4>1. Reached + Cardinality(UnderWay) = Fed
        BY <2>1, <3>2 DEF TotalInv
      <4>2. Fed <= globalSteps /\ Fed \in Int
        BY <1>0 DEF Fed
      <4> QED
        BY <1>0, <4>1, <4>2, LocalSteps DEF Reached
    <3> QED
      BY <3>1, <3>2
  <2>4. version * VersionSamples <= TotalRollout
    <3>1. CASE globalSteps <= TotalRollout
      BY <1>0, <2>3, <3>1
    <3>2. CASE globalSteps = TotalRollout + 1 /\ Divides /\ crashes > 0
      <4>1. PICK k \in Nat : TotalRollout = k * VersionSamples
        BY <3>2 DEF Divides
      <4>2. VersionSamples > 1
        BY <3>2 DEF Uninterrupted, RestTyped
      <4>3. ~(version >= k + 1)
        <5>1. ASSUME version >= k + 1
              PROVE  FALSE
          <6>1. (k + 1) * VersionSamples <= version * VersionSamples
            BY <1>0, <4>1, <5>1, TimesGrows
          <6>2. (k + 1) * VersionSamples = TotalRollout + VersionSamples
            BY <1>0, <4>1
          <6> QED
            BY <1>0, <2>3, <3>2, <4>2, <6>1, <6>2
        <5> QED
          BY <5>1
      <4>4. version <= k
        BY <1>0, <4>1, <4>3
      <4> QED
        BY <1>0, <4>1, <4>4, TimesGrows
    <3> QED
      BY <3>1, <3>2 DEF TotalInv
  <2>5. checkpoint'.version * VersionSamples <= TotalRollout
    BY <2>1, <2>4 DEF TotalInv
  <2> QED
    BY <2>1, <2>2, <2>5 DEF TotalInv
<1>13. CASE Restart
  <2>1. /\ feed' = "feeding" /\ globalSteps' = checkpoint.version * VersionSamples + 1
        /\ pending' = <<>> /\ held' = End /\ task' = [s \in Sample |-> "none"] /\ queue' = <<>>
        /\ batch' = {} /\ localStep' = 1 /\ version' = checkpoint.version /\ stopping' = FALSE
        /\ trainer' = "collect" /\ checkpoint' = checkpoint /\ crashes' = crashes + 1
    BY <1>13 DEF Restart
  <2>2. checkpoint.version \in Nat /\ crashes' > 0
    BY <2>1 DEF RestTyped
  <2>3. checkpoint.version * VersionSamples \in Nat
    BY <1>0, <2>2
  <2>4. UnderWay' = {}
    <3>1. Entries' = {} /\ \A x \in Sample : ~Waiting(x)'
      BY <1>0, <2>1 DEF Entries, Waiting
    <3> QED
      BY <2>1, <3>1 DEF UnderWay
  <2>5. Cardinality(UnderWay') = 0
    BY <2>4, FS_EmptySet
  <2>6. Reached' = checkpoint.version * VersionSamples
    <3>1. Reached' = checkpoint.version * VersionSamples + (1 - 1) * Required
      BY <2>1 DEF Reached
    <3> QED
      BY <2>3, <3>1, Numbers
  <2>7. Fed' = checkpoint.version * VersionSamples
    BY <2>1, <2>3 DEF Fed
  <2>8. \/ globalSteps' <= TotalRollout
        \/ globalSteps' = TotalRollout + 1 /\ Divides
    <3>1. checkpoint.version * VersionSamples <= TotalRollout
      BY DEF TotalInv
    <3>2. checkpoint.version * VersionSamples = TotalRollout => Divides
      BY <2>2 DEF Divides
    <3> QED
      BY <1>0, <2>1, <2>3, <3>1, <3>2
  <2> QED
    BY <2>1, <2>2, <2>3, <2>5, <2>6, <2>7, <2>8 DEF TotalInv
<1> QED
  BY <1>1, <1>2, <1>3, <1>4, <1>5, <1>6, <1>7, <1>8, <1>9, <1>10, <1>11, <1>12, <1>13 DEF Next

-----------------------------------------------------------------------------
LEMMA InitSync ==
  ASSUME Init
  PROVE  SyncInv
<1>0. /\ Required \in Nat /\ Required > 0 /\ VersionSamples \in Nat /\ VersionSamples > 0
      /\ TotalRollout \in Nat /\ TotalRollout > 0 /\ End \notin Sample
      /\ maxRequired \in Nat /\ maxRequired > 0
  BY Numbers, LimitType DEF Sample, End, Init
<1>1. Entries = {} /\ Len(queue) = 0 /\ Len(pending) = 0 /\ Cardinality({}) = 0
  BY FS_EmptySet DEF Init, Entries
<1>2. TrainerInv /\ EndInv
  BY <1>0, <1>1 DEF Init, TrainerInv, EndInv
<1>3. ProgressInv
  <2>1. Taken = {} /\ Ending = 0
    BY <1>0, <1>1 DEF Init, Taken, Ending
  <2>2. Consumed = (1 - 1) * Required + 0
    BY <1>1 DEF Init, Consumed
  <2>3. Progress = 0
    BY <1>0, <1>1, <2>1, <2>2 DEF Progress
  <2> QED
    BY <1>0, <2>3 DEF Init, ProgressInv
<1>4. FreshInv /\ LastInv
  BY <1>1 DEF Init, FreshInv, LastInv
<1>5. TotalInv
  <2>1. UnderWay = {}
    BY <1>0, <1>1 DEF Init, UnderWay, Waiting
  <2>2. Cardinality(UnderWay) = 0 /\ Fed = 0
    BY <1>1, <2>1 DEF Init, Fed
  <2>3. Reached = 0 * VersionSamples + (1 - 1) * Required
    BY DEF Init, Reached
  <2>4. Reached = 0
    BY <1>0, <2>3
  <2>5. checkpoint.version * VersionSamples = 0
    BY <1>0 DEF Init, NoCheckpoint
  <2> QED
    BY <1>0, <2>2, <2>4, <2>5 DEF Init, TotalInv
<1> QED
  BY <1>2, <1>3, <1>4, <1>5 DEF SyncInv

LEMMA StutterSync ==
  ASSUME SyncInv, UNCHANGED vars
  PROVE  SyncInv'
<1> USE DEF vars, feeding, tasks, gate, service, rollout, mq, train, outside
<1>1. /\ Entries' = Entries /\ Taken' = Taken /\ Ending' = Ending /\ Consumed' = Consumed
      /\ Reached' = Reached /\ Fed' = Fed
  BY DEF Entries, Taken, Ending, Consumed, Reached, Fed
<1>2. UnderWay' = UnderWay /\ Progress' = Progress
  BY <1>1 DEF UnderWay, Waiting, Progress
<1>3. (TrainerInv /\ EndInv)' <=> TrainerInv /\ EndInv
  BY <1>1 DEF TrainerInv, EndInv
<1>4. (ProgressInv' <=> ProgressInv) /\ (FreshInv' <=> FreshInv)
  BY <1>1, <1>2 DEF ProgressInv, FreshInv
<1>5. (LastInv' <=> LastInv) /\ (TotalInv' <=> TotalInv)
  BY <1>1, <1>2 DEF LastInv, TotalInv
<1>6. UNCHANGED <<maxRequired, failures, crashes>>
  OBVIOUS
<1> QED
  BY <1>3, <1>4, <1>5, <1>6 DEF SyncInv, Uninterrupted

(* Failures and restarts are counted, the limit is that of the job.         *)
LEMMA CountsGrow ==
  ASSUME RestTyped, Next
  PROVE  /\ maxRequired' = maxRequired
         /\ failures' = failures \/ failures' = failures + 1
         /\ crashes' = crashes \/ crashes' = crashes + 1
<1> USE DEF feeding, tasks, gate, service, rollout, mq, train, outside
<1>1. CASE \/ FeedSample \/ FeedEnd \/ CheckQueue \/ CheckStaleness \/ Pause \/ Drain \/ Resume
           \/ GetPending \/ AtLimit \/ TaskFreed \/ Submit \/ AwaitTasks \/ TaskFinished
           \/ EndQueue \/ StopRunning \/ MonitorLooks \/ MonitorResumes
  BY <1>1 DEF FeedSample, FeedEnd, CheckQueue, CheckStaleness, Pause, Drain, Resume, GetPending,
     AtLimit, TaskFreed, Submit, AwaitTasks, TaskFinished, EndQueue, StopRunning, MonitorLooks,
     MonitorResumes
<1>2. CASE \E s \in Sample : SamplePut(s) \/ TaskReturns(s) \/ GenerationRaises(s)
  BY <1>2 DEF SamplePut, TaskReturns, GenerationRaises
<1>3. CASE TakeSample \/ LocalStep \/ PushWeights \/ ResetBegins \/ ResetEnds \/ Save
           \/ StopTraining \/ Restart
  BY <1>3 DEF TakeSample, LocalStep, PushWeights, ResetBegins, ResetEnds, Save, StopTraining,
     Restart
<1> QED
  BY <1>1, <1>2, <1>3 DEF Next

LEMMA SyncStep ==
  ASSUME IInv, IInv', SyncInv, Next
  PROVE  SyncInv'
<1>1. /\ RolloutTyped /\ RestTyped /\ FetchedInv /\ InOrder /\ OnePlace /\ ActiveInv /\ StaleInv
      /\ RestTyped' /\ TrainerInv /\ EndInv
  BY DEF IInv, SyncInv
<1>2. TrainerInv' /\ EndInv'
  BY <1>1, TrainerStep, EndStep
<1>3. /\ failures \in Nat /\ crashes \in Nat /\ maxRequired' = maxRequired
      /\ failures' = 0 => failures = 0
      /\ crashes' = 0 => crashes = 0
  <2>1. failures \in Nat /\ crashes \in Nat
    BY <1>1 DEF RestTyped
  <2> QED
    BY <1>1, <2>1, CountsGrow
<1>4. ASSUME maxRequired' = VersionSamples
      PROVE  ProgressInv' /\ FreshInv'
  <2>1. maxRequired = VersionSamples /\ ProgressInv /\ FreshInv
    BY <1>3, <1>4 DEF SyncInv
  <2> QED
    BY <1>1, <2>1, ProgressStep, FreshStep
<1>5. ASSUME failures' = 0
      PROVE  LastInv'
  <2>1. failures = 0 /\ LastInv
    BY <1>3, <1>5 DEF SyncInv
  <2> QED
    BY <1>1, <1>5, <2>1, LastStep
<1>6. ASSUME maxRequired' = VersionSamples, Uninterrupted'
      PROVE  TotalInv'
  <2>1. maxRequired = VersionSamples /\ Uninterrupted
    BY <1>3, <1>6 DEF Uninterrupted
  <2>2. ProgressInv /\ LastInv /\ TotalInv
    BY <2>1 DEF SyncInv, Uninterrupted
  <2> QED
    BY <1>1, <1>6, <2>1, <2>2, TotalStep
<1> QED
  BY <1>2, <1>4, <1>5, <1>6 DEF SyncInv

LEMMA SyncInductive == Spec => []SyncInv
<1>1. Init => SyncInv
  BY InitSync
<1>2. IInv /\ IInv' /\ SyncInv /\ [Next]_vars => SyncInv'
  BY SyncStep, StutterSync
<1> QED
  BY <1>1, <1>2, Inductive, PTL DEF Spec

(* A job that is not interrupted and has come to its end has trained as     *)
(* many versions as its samples make up.                                    *)
LEMMA VersionsAnnounced ==
  ASSUME RolloutTyped, RestTyped, TrainerInv, TotalInv, Uninterrupted, trainer = "done"
  PROVE  version = TotalTrainSteps
<1>1. /\ stopping /\ feed = "over" /\ version * VersionSamples <= globalSteps
      /\ globalSteps < version * VersionSamples + VersionSamples
      /\ globalSteps >= TotalRollout
  BY DEF TrainerInv, TotalInv
<1>2. /\ globalSteps \in Nat /\ TotalRollout \in Nat /\ VersionSamples \in Nat
      /\ VersionSamples > 0 /\ version \in Nat /\ version * VersionSamples \in Nat
  BY Numbers, LocalSteps DEF RolloutTyped, RestTyped
<1>3. /\ version * VersionSamples <= TotalRollout
      /\ TotalRollout < version * VersionSamples + VersionSamples
  <2>1. CASE globalSteps <= TotalRollout
    BY <1>1, <1>2, <2>1
  <2>2. CASE globalSteps = TotalRollout + 1 /\ Divides /\ crashes > 0
    <3>1. PICK k \in Nat : TotalRollout = k * VersionSamples
      BY <2>2 DEF Divides
    <3>2. VersionSamples > 1
      BY <2>2 DEF Uninterrupted, RestTyped
    <3>3. ~(version >= k + 1)
      <4>1. ASSUME version >= k + 1
            PROVE  FALSE
        <5>1. (k + 1) * VersionSamples <= version * VersionSamples
          BY <1>2, <3>1, <4>1, TimesGrows
        <5>2. (k + 1) * VersionSamples = TotalRollout + VersionSamples
          BY <1>2, <3>1
        <5> QED
          BY <1>1, <1>2, <2>2, <3>2, <5>1, <5>2
      <4> QED
        BY <4>1
    <3>4. version * VersionSamples <= TotalRollout
      BY <1>2, <3>1, <3>3, TimesGrows
    <3> QED
      BY <1>1, <1>2, <2>2, <3>4
  <2> QED
    BY <2>1, <2>2 DEF TotalInv
<1>4. PICK r \in 0 .. VersionSamples - 1 : TotalRollout = version * VersionSamples + r
  <2>1. /\ TotalRollout - version * VersionSamples \in 0 .. VersionSamples - 1
        /\ TotalRollout = version * VersionSamples + (TotalRollout - version * VersionSamples)
    BY <1>2, <1>3
  <2> QED
    BY <2>1
<1>5. TotalRollout \div VersionSamples = version
  BY <1>2, <1>4
<1> QED
  BY <1>5 DEF TotalTrainSteps

(* With staleness_threshold = 0 training is synchronous, whatever the       *)
(* rollouter, its tasks and the trainer do at the same time: no sample of   *)
(* older weights is trained on, the queue drops none, and a job without     *)
(* failures trains the versions it announced.                               *)
THEOREM SynchronousWithoutAhead == Spec => []SynchronousWhenZero
<1>1. ASSUME IInv, SyncInv
      PROVE  SynchronousWhenZero
  <2>1. ASSUME maxRequired = VersionSamples
        PROVE  staleUsed = 0 /\ dropped = {}
    BY <1>1, <2>1 DEF SyncInv, FreshInv
  <2>2. ASSUME maxRequired = VersionSamples, trainer = "done", failures = 0,
               VersionSamples > 1 \/ crashes = 0
        PROVE  version = TotalTrainSteps
    <3>1. TotalInv /\ TrainerInv /\ Uninterrupted /\ RolloutTyped /\ RestTyped
      BY <1>1, <2>2 DEF IInv, SyncInv, Uninterrupted
    <3> QED
      BY <2>2, <3>1, VersionsAnnounced
  <2> QED
    BY <2>1, <2>2 DEF SynchronousWhenZero
<1> QED
  BY <1>1, Inductive, SyncInductive, PTL
=============================================================================
