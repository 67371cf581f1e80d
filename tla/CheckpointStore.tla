-------------------------- MODULE CheckpointStore --------------------------
(***************************************************************************)
(* The checkpoint directory of a training job, file by file: the shards    *)
(* every rank writes (verl/utils/checkpoint/fsdp_checkpoint_manager.py),   *)
(* the retention rank 0 enforces (checkpoint_manager.py), what the driver  *)
(* adds to a checkpoint and the tracker that names it                      *)
(* (_save_checkpoint and _load_checkpoint of mmpo_ray_trainer.py).         *)
(*                                                                         *)
(* A file holds the number of the process incarnation that wrote it, 0     *)
(* while it does not exist: atomic_torch_save and FBI.save publish a file  *)
(* with os.replace, so no other content is ever seen under its name.  The  *)
(* list of saved paths that retention works on lives in the process and is *)
(* lost in a crash.  All ranks see one file system.  What happens between  *)
(* two saves is one action: any number of training steps.                  *)
(***************************************************************************)
EXTENDS Integers, Sequences, FiniteSets

CONSTANTS
  Ranks,    \* actor ranks; rank 0 enforces the retention
  MaxKeeps, \* values of trainer.max_actor_ckpt_to_keep, 0 for None
  MaxStep,  \* bound: last training step that is saved
  MaxRuns   \* bound: incarnations of the job

ASSUME StoreConstants ==
  /\ IsFiniteSet(Ranks)
  /\ MaxKeeps \subseteq Nat
  /\ MaxStep \in Nat
  /\ MaxRuns \in Nat \ {0}

Steps == 1 .. MaxStep

(* model_..., optim_... and extra_state_world_size_W_rank_R.pt, in the     *)
(* order a rank writes them.                                               *)
Kinds == 1 .. 3
Shards == Ranks \X Kinds

VARIABLES
  pc,       \* "load", "train", "failed", or where the save stands
  step,     \* global_steps
  shards,   \* files of global_step_<s>/actor
  fb,       \* global_step_<s>/fb_failure_state.pt
  data,     \* global_step_<s>/data.pt
  tracker,  \* latest_checkpointed_iteration.txt
  next,     \* the shard each rank writes next
  prev,     \* previous_saved_paths of rank 0, as steps
  doomed,   \* the paths of those that are being removed
  run,      \* the incarnation of the job
  maxKeep   \* max_actor_ckpt_to_keep of this job

vars == <<pc, step, shards, fb, data, tracker, next, prev, doomed, run,
          maxKeep>>

Runs == 1 .. MaxRuns
File == 0 .. MaxRuns

SavePhases == {"capacity", "make_room", "shards", "register", "retire", "fb",
               "data", "open_tracker", "write_tracker"}

Init ==
  /\ pc = "load"
  /\ step = 0
  /\ shards = [s \in Steps |-> [f \in Shards |-> 0]]
  /\ fb = [s \in Steps |-> 0]
  /\ data = [s \in Steps |-> 0]
  /\ tracker = [step |-> 0, whole |-> TRUE]   \* step 0: no tracker file yet
  /\ next = [r \in Ranks |-> 1]
  /\ prev = <<>>
  /\ doomed = {}
  /\ run = 1
  /\ maxKeep \in MaxKeeps

-----------------------------------------------------------------------------
(* Every file of the checkpoint exists.                                    *)
Loadable(s) ==
  /\ \A f \in Shards : shards[s][f] # 0
  /\ fb[s] # 0
  /\ data[s] # 0

(* find_latest_ckpt_path and _load_checkpoint in mode "auto".              *)
Load ==
  /\ pc = "load"
  /\ tracker.whole
  /\ tracker.step # 0 => Loadable(tracker.step)
  /\ step' = tracker.step
  /\ pc' = "train"
  /\ UNCHANGED <<shards, fb, data, tracker, next, prev, doomed, run, maxKeep>>

(* int("") of an emptied tracker, or a file that is missing, raises.       *)
LoadFails ==
  /\ pc = "load"
  /\ ~tracker.whole \/ (tracker.step # 0 /\ ~Loadable(tracker.step))
  /\ pc' = "failed"
  /\ UNCHANGED <<step, shards, fb, data, tracker, next, prev, doomed, run,
                 maxKeep>>

(* Training up to the next step that is saved.                             *)
TrainTo(s) ==
  /\ pc = "train"
  /\ s > step
  /\ step' = s
  /\ pc' = "capacity"
  /\ UNCHANGED <<shards, fb, data, tracker, next, prev, doomed, run, maxKeep>>

-----------------------------------------------------------------------------
(* The first n saved paths are removed and forgotten.                      *)
Forget(paths, n) ==
  /\ doomed' = {paths[i] : i \in 1 .. n}
  /\ prev' = SubSeq(paths, n + 1, Len(paths))

(* Mutant: room is made only once the limit is exceeded.                   *)
EnsureCapacity_Late ==
  /\ pc = "capacity"
  /\ IF maxKeep > 1 /\ Len(prev) > maxKeep
       THEN Forget(prev, Len(prev) - maxKeep + 1)
       ELSE UNCHANGED <<prev, doomed>>
  /\ pc' = "make_room"
  /\ UNCHANGED <<step, shards, fb, data, tracker, next, run, maxKeep>>

(* ensure_checkpoint_capacity, on rank 0 while the others wait.            *)
EnsureCapacity ==
  /\ pc = "capacity"
  /\ IF maxKeep > 1 /\ Len(prev) >= maxKeep
       THEN Forget(prev, Len(prev) - maxKeep + 1)
       ELSE UNCHANGED <<prev, doomed>>
  /\ pc' = "make_room"
  /\ UNCHANGED <<step, shards, fb, data, tracker, next, run, maxKeep>>

(* rmtree of an actor directory, one file after the other; what the driver *)
(* saved beside the directory stays.                                       *)
RemoveFile(s, f) ==
  /\ pc \in {"make_room", "retire"}
  /\ s \in doomed
  /\ shards[s][f] # 0
  /\ shards' = [shards EXCEPT ![s][f] = 0]
  /\ UNCHANGED <<pc, step, fb, data, tracker, next, prev, doomed, run,
                 maxKeep>>

AllRemoved == \A s \in doomed, f \in Shards : shards[s][f] = 0

RoomMade ==
  /\ pc = "make_room"
  /\ AllRemoved
  /\ doomed' = {}
  /\ next' = [r \in Ranks |-> 1]
  /\ pc' = "shards"
  /\ UNCHANGED <<step, shards, fb, data, tracker, prev, run, maxKeep>>

(* Mutant: a rank does not stop after its last file.                       *)
WriteShard_OffByOne(r) ==
  /\ pc = "shards"
  /\ next[r] <= 4
  /\ shards' = [shards EXCEPT ![step][<<r, next[r]>>] = run]
  /\ next' = [next EXCEPT ![r] = @ + 1]
  /\ UNCHANGED <<pc, step, fb, data, tracker, prev, doomed, run, maxKeep>>

WriteShard(r) ==
  /\ pc = "shards"
  /\ next[r] \in Kinds
  /\ shards' = [shards EXCEPT ![step][<<r, next[r]>>] = run]
  /\ next' = [next EXCEPT ![r] = @ + 1]
  /\ UNCHANGED <<pc, step, fb, data, tracker, prev, doomed, run, maxKeep>>

(* The barrier after the shards: "wait for everyone to dump to local".     *)
ShardsBarrier ==
  /\ pc = "shards"
  /\ \A r \in Ranks : next[r] \notin Kinds
  /\ pc' = "register"
  /\ UNCHANGED <<step, shards, fb, data, tracker, next, prev, doomed, run,
                 maxKeep>>

(* Mutant: one checkpoint fewer is kept.                                   *)
Register_OffByOne ==
  /\ pc = "register"
  /\ LET paths == Append(prev, step)
     IN  IF maxKeep > 0 /\ Len(paths) >= maxKeep
           THEN Forget(paths, Len(paths) - maxKeep + 1)
           ELSE prev' = paths /\ UNCHANGED doomed
  /\ pc' = "retire"
  /\ UNCHANGED <<step, shards, fb, data, tracker, next, run, maxKeep>>

(* register_checkpoint, on rank 0 when all shards are written.             *)
Register ==
  /\ pc = "register"
  /\ LET paths == Append(prev, step)
     IN  IF maxKeep > 0 /\ Len(paths) > maxKeep
           THEN Forget(paths, Len(paths) - maxKeep)
           ELSE prev' = paths /\ UNCHANGED doomed
  /\ pc' = "retire"
  /\ UNCHANGED <<step, shards, fb, data, tracker, next, run, maxKeep>>

Retired ==
  /\ pc = "retire"
  /\ AllRemoved
  /\ doomed' = {}
  /\ pc' = "fb"
  /\ UNCHANGED <<step, shards, fb, data, tracker, next, prev, run, maxKeep>>

SaveFB ==
  /\ pc = "fb"
  /\ fb' = [fb EXCEPT ![step] = run]
  /\ pc' = "data"
  /\ UNCHANGED <<step, shards, data, tracker, next, prev, doomed, run,
                 maxKeep>>

SaveData ==
  /\ pc = "data"
  /\ data' = [data EXCEPT ![step] = run]
  /\ pc' = "open_tracker"
  /\ UNCHANGED <<step, shards, fb, tracker, next, prev, doomed, run, maxKeep>>

(* open(..., "w") empties the tracker, the write fills it.                 *)
OpenTracker ==
  /\ pc = "open_tracker"
  /\ tracker' = [tracker EXCEPT !.whole = FALSE]
  /\ pc' = "write_tracker"
  /\ UNCHANGED <<step, shards, fb, data, next, prev, doomed, run, maxKeep>>

WriteTracker ==
  /\ pc = "write_tracker"
  /\ tracker' = [step |-> step, whole |-> TRUE]
  /\ pc' = "train"
  /\ UNCHANGED <<step, shards, fb, data, next, prev, doomed, run, maxKeep>>

(* The job dies and is started again.                                      *)
Crash ==
  /\ pc \in SavePhases \union {"train"}
  /\ run < MaxRuns
  /\ run' = run + 1
  /\ pc' = "load"
  /\ step' = 0
  /\ next' = [r \in Ranks |-> 1]
  /\ prev' = <<>>
  /\ doomed' = {}
  /\ UNCHANGED <<shards, fb, data, tracker, maxKeep>>

Next ==
  \/ Load \/ LoadFails
  \/ \E s \in Steps : TrainTo(s)
  \/ EnsureCapacity
  \/ \E s \in Steps, f \in Shards : RemoveFile(s, f)
  \/ RoomMade
  \/ \E r \in Ranks : WriteShard(r)
  \/ ShardsBarrier
  \/ Register
  \/ Retired
  \/ SaveFB \/ SaveData \/ OpenTracker \/ WriteTracker
  \/ Crash

Spec == Init /\ [][Next]_vars

-----------------------------------------------------------------------------
TypeOK ==
  /\ pc \in SavePhases \union {"load", "train", "failed"}
  /\ step \in 0 .. MaxStep
  /\ shards \in [Steps -> [Shards -> File]]
  /\ fb \in [Steps -> File]
  /\ data \in [Steps -> File]
  /\ tracker \in [step: 0 .. MaxStep, whole: BOOLEAN]
  /\ next \in [Ranks -> 1 .. 4]
  /\ prev \in Seq(Steps)
  /\ doomed \subseteq Steps
  /\ run \in Runs
  /\ maxKeep \in MaxKeeps

WrittenBy(s, k) ==
  /\ \A f \in Shards : shards[s][f] = k
  /\ fb[s] = k
  /\ data[s] = k

(* The checkpoint that the tracker names is there as a whole and was       *)
(* written by one incarnation of the job: neither retention nor a save     *)
(* that a crash cut short ever takes or mixes a file of it.  For a limit   *)
(* of one this is what the comment in the code asks for.                   *)
TrackedWhole ==
  tracker.step # 0 => \E k \in Runs : WrittenBy(tracker.step, k)

(* The tracked checkpoint is whole under every limit but one.              *)
TrackedLoadable == maxKeep # 1 => TrackedWhole

(* The checkpoints of which one of these incarnations has a shard.          *)
Holding(runs) == {s \in Steps : \E f \in Shards : shards[s][f] \in runs}

(* At no moment, in the middle of a save included, does one incarnation    *)
(* hold shards of more than max_actor_ckpt_to_keep checkpoints: room is    *)
(* made before the new shards are written (ensure_checkpoint_capacity).    *)
(* With a limit of one the previous checkpoint goes after the new shards   *)
(* are written, so the limit holds between two saves.                      *)
KeepsAtMost ==
  maxKeep > 1 \/ (maxKeep = 1 /\ pc = "train") =>
    Cardinality(Holding({run})) <= maxKeep
=============================================================================
