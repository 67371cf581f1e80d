----------------------------- MODULE FullyAsync -----------------------------
(***************************************************************************)
(* Fully asynchronous policy training: FullyAsyncRollouter feeds samples   *)
(* to generation tasks, the tasks put what they generated into a bounded   *)
(* MessageQueue, FullyAsyncTrainer takes Required of them for a local      *)
(* step and pushes its weights to the rollout servers after every Trigger  *)
(* local steps.  How far the rollouter may run ahead is controlled by its  *)
(* counter of stale samples, which the trainer resets over an RPC after    *)
(* each push.                                                              *)
(*                                                                         *)
(* The rollouter is one event loop: what runs between two awaits is one    *)
(* action, and a section under its lock is one action unless it awaits     *)
(* while it holds the lock.  Samples are named by their place in the data  *)
(* stream.  The process may be killed and started again from its last      *)
(* checkpoint.                                                             *)
(***************************************************************************)
EXTENDS Integers, Sequences, FiniteSets

CONSTANTS
  Required,        \* required_samples: samples of a local step
  Trigger,         \* trigger_parameter_sync_step: local steps of a version
  MaxRequireds,    \* values of max_required_samples, which is max_queue_size too
  MaxConcurrent,   \* max_concurrent_samples
  PendingSize,     \* maxsize of pending_queue
  TotalRollout,    \* total_rollout_steps
  TestFreq,
  SaveFreq,
  MaxFaults,       \* bound: generations that raise and processes killed
  MaxSample        \* bound: samples ever fetched

(* The samples the trainer takes between two pushes of its weights.        *)
VersionSamples == Required * Trigger

ASSUME AsyncConstants ==
  /\ Required \in Nat \ {0} /\ Trigger \in Nat \ {0}
  /\ MaxRequireds \subseteq Nat
  /\ \A m \in MaxRequireds : m >= VersionSamples
  /\ MaxConcurrent \in Nat \ {0}
  /\ PendingSize \in Nat \ {0} /\ TotalRollout \in Nat \ {0}
  /\ TestFreq \in Nat \ {0} /\ SaveFreq \in Nat
  /\ MaxFaults \in Nat /\ MaxSample \in Nat
  /\ MaxSample >= (MaxFaults + 1) * TotalRollout

TotalTrainSteps == TotalRollout \div VersionSamples

End == 0                      \* the None that ends both queues
Sample == 1 .. MaxSample

VARIABLES
  \* FullyAsyncRollouter
  feed,        \* _feed_samples: "feeding", "ending", "over"
  fetched,     \* samples taken from the dataloader, the last one in hand
  globalSteps, \* the rollouter's global_steps
  pending,     \* pending_queue
  pc,          \* where _processor_worker is
  held,        \* the sample it holds
  active,      \* active_tasks
  task,        \* state of the task of each sample
  staleness,   \* staleness_samples
  paused,
  resumed,     \* _resume_event is set
  lock,        \* who holds the lock across an await
  running,
  monitor,     \* _async_monitor_loop: "asleep" or "resuming"
  counted,     \* tasks reset_staleness has counted
  \* MessageQueue
  queue,
  dropped,     \* samples a full queue has dropped
  \* FullyAsyncTrainer
  trainer,     \* where fit is
  batch,
  localStep,   \* local_trigger_step
  version,     \* current_param_version
  stopping,    \* the training loop is over
  savedVersion,\* last_ckpt_version
  \* outside: rollout weights, disk, history
  fresh,       \* outstanding samples submitted under the present weights
  staleUsed,   \* samples of older weights trained on since the last push
  trained,     \* samples trained on, on the way to the present weights
  checkpoint,  \* the tracked checkpoint
  maxRequired, \* max_required_samples of this job
  failures,
  crashes

feeding == <<feed, fetched, globalSteps>>
tasks == <<active, task>>
gate == <<staleness, paused, resumed>>
service == <<running, monitor, counted>>
rollout == <<feeding, pending, pc, held, tasks, gate, lock, service>>
mq == <<queue, dropped>>
train == <<trainer, batch, localStep, version, stopping, savedVersion>>
outside == <<fresh, staleUsed, trained, checkpoint, failures, crashes,
             maxRequired>>
vars == <<rollout, mq, train, outside>>

-----------------------------------------------------------------------------
NoCheckpoint == [version |-> 0, fetched |-> 0, trained |-> {}]

(* Both components after load_checkpoint and the parameter synchronisation *)
(* that precedes fit.  Without a checkpoint the rollouter starts at 1,     *)
(* which the formula for a resumed one gives for version 0 too.            *)
Init ==
  /\ feed = "feeding"
  /\ fetched = 1
  /\ globalSteps = 1
  /\ pending = <<>>
  /\ pc = "check"
  /\ held = End
  /\ active = {}
  /\ task = [s \in Sample |-> "none"]
  /\ staleness = 0
  /\ paused = FALSE
  /\ resumed = TRUE
  /\ lock = "free"
  /\ running = TRUE
  /\ monitor = "asleep"
  /\ counted = 0
  /\ queue = <<>>
  /\ dropped = {}
  /\ trainer = "collect"
  /\ batch = {}
  /\ localStep = 1
  /\ version = 0
  /\ stopping = FALSE
  /\ savedVersion = 0
  /\ fresh = {}
  /\ staleUsed = 0
  /\ trained = {}
  /\ maxRequired \in MaxRequireds
  /\ checkpoint = NoCheckpoint
  /\ failures = 0
  /\ crashes = 0

-----------------------------------------------------------------------------
(* MessageQueue                                                            *)

(* put_sample: a full queue loses its oldest entry.                        *)
PutSample(x) ==
  IF Len(queue) >= maxRequired
    THEN /\ queue' = Append(Tail(queue), x)
         /\ dropped' = dropped \union {Head(queue)}
    ELSE /\ queue' = Append(queue, x)
         /\ UNCHANGED dropped

-----------------------------------------------------------------------------
(* _feed_samples: put the sample in hand; unless it was the last one the   *)
(* next is fetched without an await in between.                            *)
FeedSample ==
  /\ feed = "feeding"
  /\ Len(pending) < PendingSize
  /\ pending' = Append(pending, fetched)
  /\ IF globalSteps >= TotalRollout
       THEN feed' = "ending" /\ UNCHANGED <<fetched, globalSteps>>
       ELSE /\ fetched' = fetched + 1
            /\ globalSteps' = globalSteps + 1
            /\ UNCHANGED feed
  /\ UNCHANGED <<pc, held, tasks, gate, lock, service, mq, train, outside>>

FeedEnd ==
  /\ feed = "ending"
  /\ Len(pending) < PendingSize
  /\ pending' = Append(pending, End)
  /\ feed' = "over"
  /\ UNCHANGED <<fetched, globalSteps, pc, held, tasks, gate, lock, service,
                 mq, train, outside>>

-----------------------------------------------------------------------------
(* _processor_worker                                                       *)
Concurrent == IF MaxConcurrent < maxRequired THEN MaxConcurrent ELSE maxRequired
QueueFull == Len(queue) >= maxRequired
TooStale == staleness >= maxRequired

(* The test at the top of the loop.  _should_pause_generation awaits the   *)
(* size of the queue and compares the staleness afterwards.                *)
CheckQueue ==
  /\ pc = "check"
  /\ pc' = IF paused \/ QueueFull THEN "pause" ELSE "compare"
  /\ UNCHANGED <<feeding, pending, held, tasks, gate, lock, service, mq,
                 train, outside>>

CheckStaleness ==
  /\ pc = "compare"
  /\ pc' = IF TooStale THEN "pause" ELSE "get"
  /\ UNCHANGED <<feeding, pending, held, tasks, gate, lock, service, mq,
                 train, outside>>

Pause ==
  /\ pc = "pause"
  /\ lock = "free"
  /\ paused' = TRUE
  /\ resumed' = FALSE
  /\ pc' = "drain"
  /\ UNCHANGED <<feeding, pending, held, tasks, staleness, lock, service, mq,
                 train, outside>>

Finished == {s \in active : task[s] \in {"done", "failed"}}
RaisedIn(S) == \E s \in S : task[s] = "failed"

(* Finished tasks leave active_tasks and are awaited; one that raised      *)
(* ends the processor.                                                     *)
Reap(next) ==
  /\ Finished # {}
  /\ active' = active \ Finished
  /\ task' = [s \in Sample |-> IF s \in Finished THEN "none" ELSE task[s]]
  /\ pc' = IF RaisedIn(Finished) THEN "failed" ELSE next

(* While it is paused the processor reaps tasks as they finish, and leaves *)
(* as soon as the event is set; with no task left it only waits for that.  *)
Drain ==
  /\ pc = "drain"
  /\ lock = "free"
  /\ Reap(IF resumed THEN "check" ELSE "drain")
  /\ UNCHANGED <<feeding, pending, held, gate, lock, service, mq, train,
                 outside>>

Resume ==
  /\ pc = "drain"
  /\ resumed
  /\ pc' = "check"
  /\ UNCHANGED <<feeding, pending, held, tasks, gate, lock, service, mq,
                 train, outside>>

(* Mutant: only started generations are counted.                           *)
GetPending_Uncounted ==
  /\ pc = "get"
  /\ pending # <<>>
  /\ held' = Head(pending)
  /\ pending' = Tail(pending)
  /\ UNCHANGED staleness
  /\ pc' = IF Head(pending) = End THEN "finish" ELSE "limit"
  /\ UNCHANGED <<feeding, tasks, paused, resumed, lock, service, mq, train,
                 outside>>

(* The end signal is counted in staleness_samples like a sample.           *)
GetPending ==
  /\ pc = "get"
  /\ pending # <<>>
  /\ held' = Head(pending)
  /\ pending' = Tail(pending)
  /\ staleness' = staleness + 1
  /\ pc' = IF Head(pending) = End THEN "finish" ELSE "limit"
  /\ UNCHANGED <<feeding, tasks, paused, resumed, lock, service, mq, train,
                 outside>>

(* At the limit the processor waits for a task with the lock in its hands. *)
AtLimit ==
  /\ pc = "limit"
  /\ IF Cardinality(active) >= Concurrent
       THEN lock = "free" /\ lock' = "processor" /\ pc' = "limited"
       ELSE pc' = "submit" /\ UNCHANGED lock
  /\ UNCHANGED <<feeding, pending, held, tasks, gate, service, mq, train,
                 outside>>

TaskFreed ==
  /\ pc = "limited"
  /\ Reap("limit")
  /\ lock' = "free"
  /\ UNCHANGED <<feeding, pending, held, gate, service, mq, train, outside>>

Submit ==
  /\ pc = "submit"
  /\ paused => resumed
  /\ lock = "free"
  /\ active' = active \union {held}
  /\ task' = [task EXCEPT ![held] = "generating"]
  /\ fresh' = fresh \union {held}
  /\ held' = End
  /\ pc' = "check"
  /\ UNCHANGED <<feeding, pending, gate, lock, service, mq, train, staleUsed,
                 trained, checkpoint, failures, crashes, maxRequired>>

(* After the end signal: wait for every task, again holding the lock.      *)
AwaitTasks ==
  /\ pc = "finish"
  /\ IF active # {}
       THEN lock = "free" /\ lock' = "processor" /\ pc' = "finishing"
       ELSE pc' = "done" /\ UNCHANGED lock
  /\ UNCHANGED <<feeding, pending, held, tasks, gate, service, mq, train,
                 outside>>

TaskFinished ==
  /\ pc = "finishing"
  /\ Reap("finish")
  /\ lock' = "free"
  /\ UNCHANGED <<feeding, pending, held, gate, service, mq, train, outside>>

-----------------------------------------------------------------------------
(* _process_single_sample_streaming: the queue has the sample before the   *)
(* task is done.                                                           *)
SamplePut(s) ==
  /\ task[s] = "generating"
  /\ task' = [task EXCEPT ![s] = "put"]
  /\ PutSample(s)
  /\ UNCHANGED <<feeding, pending, pc, held, active, gate, lock, service,
                 train, outside>>

TaskReturns(s) ==
  /\ task[s] = "put"
  /\ task' = [task EXCEPT ![s] = "done"]
  /\ UNCHANGED <<feeding, pending, pc, held, active, gate, lock, service, mq,
                 train, outside>>

GenerationRaises(s) ==
  /\ failures + crashes < MaxFaults
  /\ task[s] = "generating"
  /\ task' = [task EXCEPT ![s] = "failed"]
  /\ fresh' = fresh \ {s}
  /\ failures' = failures + 1
  /\ UNCHANGED <<feeding, pending, pc, held, active, gate, lock, service, mq,
                 train, staleUsed, trained, checkpoint, crashes, maxRequired>>

-----------------------------------------------------------------------------
(* _streaming_generation_main: once both coroutines are over, or as soon   *)
(* as the processor raised, the feed is cancelled and the queue is ended.  *)
EndQueue ==
  /\ \/ pc = "done" /\ feed = "over"
     \/ pc = "failed"
  /\ pc' = "ended"
  /\ feed' = "over"
  /\ PutSample(End)
  /\ UNCHANGED <<fetched, globalSteps, pending, held, tasks, gate, lock,
                 service, train, outside>>

StopRunning ==
  /\ pc = "ended"
  /\ running
  /\ lock = "free"
  /\ running' = FALSE
  /\ UNCHANGED <<feeding, pending, pc, held, tasks, gate, lock, monitor,
                 counted, mq, train, outside>>

-----------------------------------------------------------------------------
(* _async_monitor_loop                                                     *)
MonitorLooks ==
  /\ monitor = "asleep"
  /\ running
  /\ paused
  /\ ~QueueFull /\ ~TooStale
  /\ monitor' = "resuming"
  /\ UNCHANGED <<feeding, pending, pc, held, tasks, gate, lock, running,
                 counted, mq, train, outside>>

(* Mutant: the flag is cleared and the event is not set.                   *)
MonitorResumes_FlagOnly ==
  /\ monitor = "resuming"
  /\ lock = "free"
  /\ paused' = FALSE
  /\ UNCHANGED resumed
  /\ monitor' = "asleep"
  /\ UNCHANGED <<feeding, pending, pc, held, tasks, staleness, lock, running,
                 counted, mq, train, outside>>

MonitorResumes ==
  /\ monitor = "resuming"
  /\ lock = "free"
  /\ paused' = FALSE
  /\ resumed' = TRUE
  /\ monitor' = "asleep"
  /\ UNCHANGED <<feeding, pending, pc, held, tasks, staleness, lock, running,
                 counted, mq, train, outside>>

-----------------------------------------------------------------------------
(* FullyAsyncTrainer.fit                                                   *)

(* _get_samples_from_queue: the end signal discards a partial batch.       *)
TakeSample ==
  /\ trainer = "collect"
  /\ queue # <<>>
  /\ queue' = Tail(queue)
  /\ IF Head(queue) = End
       THEN trainer' = "stop" /\ batch' = {}
       ELSE /\ batch' = batch \union {Head(queue)}
            /\ trainer' = IF Cardinality(batch) + 1 = Required THEN "train" ELSE "collect"
  /\ UNCHANGED <<rollout, dropped, localStep, version, stopping, savedVersion,
                 outside>>

(* Mutant: the local steps are not counted from one again.                 *)
LocalStep_NoReset ==
  /\ trainer = "train"
  /\ trained' = trained \union batch
  /\ staleUsed' = staleUsed + Cardinality(batch \ fresh)
  /\ fresh' = fresh \ batch
  /\ batch' = {}
  /\ IF localStep < Trigger
       THEN /\ localStep' = localStep + 1
            /\ trainer' = "collect"
            /\ UNCHANGED version
       ELSE /\ localStep' = localStep + 1
            /\ version' = version + 1
            /\ trainer' = "push"
  /\ UNCHANGED <<rollout, mq, stopping, savedVersion, checkpoint, failures,
                 crashes, maxRequired>>

(* The updates of a local step, then _fit_update_local_step.               *)
LocalStep ==
  /\ trainer = "train"
  /\ trained' = trained \union batch
  /\ staleUsed' = staleUsed + Cardinality(batch \ fresh)
  /\ fresh' = fresh \ batch
  /\ batch' = {}
  /\ IF localStep < Trigger
       THEN /\ localStep' = localStep + 1
            /\ trainer' = "collect"
            /\ UNCHANGED version
       ELSE /\ localStep' = 1
            /\ version' = version + 1
            /\ trainer' = "push"
  /\ UNCHANGED <<rollout, mq, stopping, savedVersion, checkpoint, failures,
                 crashes, maxRequired>>

(* _fit_update_weights: from here on samples are generated by the new      *)
(* weights, and reset_staleness is called.                                 *)
PushWeights ==
  /\ trainer = "push"
  /\ fresh' = {}
  /\ staleUsed' = 0
  /\ trainer' = "reset"
  /\ UNCHANGED <<rollout, mq, batch, localStep, version, stopping,
                 savedVersion, trained, checkpoint, failures, crashes,
                 maxRequired>>

(* reset_staleness resumes the processor, counts the tasks and asks the    *)
(* queue for its size while it holds the lock.                             *)
ResetBegins ==
  /\ trainer = "reset"
  /\ lock = "free"
  /\ lock' = "reset"
  /\ paused' = FALSE
  /\ resumed' = TRUE
  /\ counted' = Cardinality(active)
  /\ trainer' = "resetting"
  /\ UNCHANGED <<feeding, pending, pc, held, tasks, staleness, running,
                 monitor, mq, batch, localStep, version, stopping,
                 savedVersion, outside>>

ResetEnds ==
  /\ trainer = "resetting"
  /\ staleness' = counted + Len(queue)
  /\ counted' = 0
  /\ lock' = "free"
  /\ trainer' = "save"
  /\ UNCHANGED <<feeding, pending, pc, held, tasks, paused, resumed, running,
                 monitor, mq, batch, localStep, version, stopping,
                 savedVersion, outside>>

(* _fit_save_checkpoint, forced after the loop; the rollouter adds the     *)
(* state of the dataloader.                                                *)
ToBeSaved ==
  /\ version # savedVersion
  /\ SaveFreq > 0
  /\ stopping \/ version % SaveFreq = 0

(* Mutant: the place in the data is computed from the version.             *)
Save_CountedData ==
  /\ trainer = "save"
  /\ IF ToBeSaved
       THEN /\ checkpoint' = [version |-> version, fetched |-> version * VersionSamples,
                              trained |-> trained]
            /\ savedVersion' = version
       ELSE UNCHANGED <<checkpoint, savedVersion>>
  /\ trainer' = IF stopping THEN "done" ELSE "collect"
  /\ UNCHANGED <<rollout, mq, batch, localStep, version, stopping, fresh,
                 staleUsed, trained, failures, crashes, maxRequired>>

Save ==
  /\ trainer = "save"
  /\ IF ToBeSaved
       THEN /\ checkpoint' = [version |-> version, fetched |-> fetched,
                              trained |-> trained]
            /\ savedVersion' = version
       ELSE UNCHANGED <<checkpoint, savedVersion>>
  /\ trainer' = IF stopping THEN "done" ELSE "collect"
  /\ UNCHANGED <<rollout, mq, batch, localStep, version, stopping, fresh,
                 staleUsed, trained, failures, crashes, maxRequired>>

(* After the loop the weights are pushed again when the last version was   *)
(* not validated; _fit_update_weights does nothing between two versions.   *)
StopTraining ==
  /\ trainer = "stop"
  /\ stopping' = TRUE
  /\ trainer' = IF version % TestFreq # 0 /\ localStep = 1 THEN "push" ELSE "save"
  /\ UNCHANGED <<rollout, mq, batch, localStep, version, savedVersion,
                 outside>>

-----------------------------------------------------------------------------
(* All processes are killed and started again.                             *)
Restart ==
  /\ failures + crashes < MaxFaults
  /\ trainer # "done"
  /\ crashes' = crashes + 1
  /\ feed' = "feeding"
  /\ fetched' = checkpoint.fetched + 1
  /\ globalSteps' = checkpoint.version * VersionSamples + 1
  /\ pending' = <<>>
  /\ pc' = "check"
  /\ held' = End
  /\ active' = {}
  /\ task' = [s \in Sample |-> "none"]
  /\ staleness' = 0
  /\ paused' = FALSE
  /\ resumed' = TRUE
  /\ lock' = "free"
  /\ running' = TRUE
  /\ monitor' = "asleep"
  /\ counted' = 0
  /\ queue' = <<>>
  /\ dropped' = {}
  /\ trainer' = "collect"
  /\ batch' = {}
  /\ localStep' = 1
  /\ version' = checkpoint.version
  /\ stopping' = FALSE
  /\ savedVersion' = checkpoint.version
  /\ fresh' = {}
  /\ staleUsed' = 0
  /\ trained' = checkpoint.trained
  /\ UNCHANGED <<checkpoint, failures, maxRequired>>

Next ==
  \/ FeedSample \/ FeedEnd
  \/ CheckQueue \/ CheckStaleness \/ Pause \/ Drain \/ Resume \/ GetPending
  \/ AtLimit \/ TaskFreed \/ Submit \/ AwaitTasks \/ TaskFinished
  \/ \E s \in Sample : SamplePut(s) \/ TaskReturns(s) \/ GenerationRaises(s)
  \/ EndQueue \/ StopRunning
  \/ MonitorLooks \/ MonitorResumes
  \/ TakeSample \/ LocalStep \/ PushWeights \/ ResetBegins \/ ResetEnds
  \/ Save \/ StopTraining
  \/ Restart

-----------------------------------------------------------------------------
(* A finished task that nobody has awaited and its sample in the queue are *)
(* counted twice, so the counter may reach two times its limit.            *)
TypeOK ==
  /\ feed \in {"feeding", "ending", "over"}
  /\ fetched \in Sample
  /\ globalSteps \in Nat \ {0}
  /\ pending \in Seq(Sample \union {End})
  /\ pc \in {"check", "compare", "pause", "drain", "get", "limit", "limited", "submit",
             "finish", "finishing", "done", "failed", "ended"}
  /\ held \in Sample \union {End}
  /\ active \subseteq Sample
  /\ task \in [Sample -> {"none", "generating", "put", "done", "failed"}]
  /\ staleness \in 0 .. 2 * maxRequired + 1
  /\ paused \in BOOLEAN /\ resumed \in BOOLEAN /\ running \in BOOLEAN
  /\ lock \in {"free", "processor", "reset"}
  /\ monitor \in {"asleep", "resuming"}
  /\ counted \in 0 .. maxRequired
  /\ queue \in Seq(Sample \union {End})
  /\ dropped \subseteq Sample \union {End}
  /\ trainer \in {"collect", "train", "push", "reset", "resetting", "save", "stop",
                  "done"}
  /\ batch \subseteq Sample
  /\ localStep \in 1 .. Trigger
  /\ version \in Nat /\ savedVersion \in 0 .. version
  /\ stopping \in BOOLEAN
  /\ fresh \subseteq Sample /\ trained \subseteq Sample
  /\ staleUsed \in Nat

Entries == {queue[i] : i \in DOMAIN queue}
Generating == {s \in active : task[s] = "generating"}

(* What was taken from pending_queue and has not reached the trainer.      *)
Outstanding == (Generating \union Entries \union {held}) \ {End}

(* The rollouter never runs further ahead than one sample over its limit,  *)
(* whatever reset_staleness overwrites: the sample the processor holds     *)
(* while it waits for a free slot is in none of the sets that are counted. *)
OutstandingBounded == Cardinality(Outstanding) <= maxRequired + 1

(* With staleness_threshold = 0 training is synchronous: no sample of      *)
(* older weights is trained on, none is lost, and a job without failures   *)
(* trains the number of versions it announced - unless a version is one    *)
(* sample, as a resumed job feeds a sample before it looks at the total.   *)
SynchronousWhenZero ==
  maxRequired = VersionSamples =>
    /\ staleUsed = 0
    /\ dropped = {}
    /\ trainer = "done" /\ failures = 0 /\ (VersionSamples > 1 \/ crashes = 0)
         => version = TotalTrainSteps

(* A sample is trained on at most once, also over restarts: the dataloader *)
(* is saved ahead of everything the saved weights have seen, although      *)
(* samples reach the trainer out of order.                                 *)
TrainedOnce == trainer = "train" => batch \intersect trained = {}

(* The README's meaning of staleness_threshold: the largest proportion of  *)
(* samples of older weights among those of a version.                      *)
StaleProportion == staleUsed <= maxRequired - VersionSamples

-----------------------------------------------------------------------------
Spec == Init /\ [][Next]_vars

(* Coroutines that can go on do so, generation ends, and the trainer takes *)
(* its steps.  An asyncio lock serves its waiters in order, so whoever     *)
(* keeps finding it free gets it.                                          *)
Fairness ==
  /\ WF_vars(FeedSample \/ FeedEnd)
  /\ WF_vars(CheckQueue \/ CheckStaleness \/ Resume \/ GetPending \/ TaskFreed
              \/ TaskFinished \/ EndQueue)
  /\ SF_vars(Pause) /\ SF_vars(Drain) /\ SF_vars(AtLimit) /\ SF_vars(Submit)
  /\ SF_vars(AwaitTasks) /\ SF_vars(StopRunning)
  /\ \A s \in Sample : WF_vars(SamplePut(s) \/ TaskReturns(s))
  /\ WF_vars(MonitorLooks) /\ SF_vars(MonitorResumes)
  /\ WF_vars(TakeSample \/ LocalStep \/ PushWeights \/ ResetEnds \/ Save
              \/ StopTraining)
  /\ SF_vars(ResetBegins)

FairSpec == Spec /\ Fairness

(* A task whose sample the trainer has already used is still in            *)
(* active_tasks when reset_staleness counts them.                          *)
Miscounted == trainer = "resetting" /\ active \intersect trained # {}

(* The job ends: a wakeup that falls between the decision to pause and the *)
(* pause is made up for by the monitor, a sample counted in a task and in  *)
(* the queue at once does no harm, and a generation that raises ends the   *)
(* queue.  Only a reset that counts a task whose sample is already used    *)
(* may leave the rollouter paused for ever with the trainer waiting.       *)
TrainerFinishes == <>(trainer = "done" \/ Miscounted)
=============================================================================
