----------------------- MODULE CheckpointStore_proofs -----------------------
(* Theorems of CheckpointStore for every number of ranks, every limit on   *)
(* the checkpoints kept, and every number of saves and incarnations.       *)
EXTENDS CheckpointStore, FiniteSetTheorems, SequenceTheorems, TLAPS

(* The phases of a save before and after its step is among the saved paths. *)
Unregistered == {"capacity", "make_room", "shards", "register"}
Registered == {"retire", "fb", "data", "open_tracker", "write_tracker"}

Elements(paths) == {paths[i] : i \in 1 .. Len(paths)}

Increasing(paths) ==
  \A i, j \in 1 .. Len(paths) : i < j => paths[i] < paths[j]

(* A save is newer than the tracked checkpoint, training starts from it.    *)
SavesAhead ==
  /\ pc = "train" => step = tracker.step
  /\ pc \in SavePhases => tracker.step < step

(* The tracked checkpoint is the last saved path, or the last before the    *)
(* step being saved.  After a restart there is none.                        *)
TrackedIsLast ==
  /\ pc \in {"load", "failed"} => prev = <<>>
  /\ pc \in Unregistered \union {"train"} =>
       (prev # <<>> => prev[Len(prev)] = tracker.step)
  /\ pc \in Registered =>
       /\ prev # <<>>
       /\ prev[Len(prev)] = step
       /\ Len(prev) > 1 => prev[Len(prev) - 1] = tracker.step

(* What is being removed is older than what must stay.                      *)
DoomedAreOld ==
  /\ pc \notin {"make_room", "retire"} => doomed = {}
  /\ \A s \in doomed : s < step /\ (maxKeep # 1 => s < tracker.step)

FilesOfPast == \A s \in Steps, f \in Shards : shards[s][f] <= run

(* What this save has written so far is there.                              *)
SavedSoFar ==
  /\ pc = "shards" =>
       \A r \in Ranks, k \in Kinds : k < next[r] => shards[step][<<r, k>>] = run
  /\ pc \in Registered \union {"register"} =>
       \A f \in Shards : shards[step][f] = run
  /\ pc \in {"data", "open_tracker", "write_tracker"} => fb[step] = run
  /\ pc \in {"open_tracker", "write_tracker"} => data[step] = run

Writing == IF pc \in {"shards", "register"} THEN {step} ELSE {}

(* A checkpoint of this incarnation is saved, doomed, or being written.     *)
HeldAreListed == Holding({run}) \subseteq Elements(prev) \union doomed \union Writing

(* There is room for the checkpoint that is being written.                  *)
RoomLeft ==
  /\ maxKeep > 1 =>
       /\ Len(prev) + Cardinality(doomed) <= maxKeep
       /\ pc \in {"make_room", "shards", "register"} => Len(prev) < maxKeep
  /\ maxKeep = 1 => Len(prev) <= 1

IInv ==
  /\ TypeOK
  /\ SavesAhead
  /\ Increasing(prev)
  /\ TrackedIsLast
  /\ DoomedAreOld
  /\ FilesOfPast
  /\ SavedSoFar
  /\ HeldAreListed
  /\ RoomLeft
  /\ TrackedLoadable

-----------------------------------------------------------------------------
(* What forgetting the first n of the paths leaves, and what it dooms.      *)
Splits(paths, n) ==
  /\ prev' \in Seq(Steps)
  /\ Len(prev') = Len(paths) - n
  /\ \A i \in 1 .. Len(paths) - n : prev'[i] = paths[n + i]
  /\ doomed' \subseteq Steps
  /\ \A s \in doomed' : \E i \in 1 .. n : s = paths[i]
  /\ Elements(paths) \subseteq Elements(prev') \union doomed'
  /\ Cardinality(doomed') <= n

LEMMA EmptyHasNone == Cardinality({}) = 0
  BY FS_EmptySet

LEMMA UnionBound ==
  ASSUME NEW S, NEW T, IsFiniteSet(S), IsFiniteSet(T)
  PROVE  /\ IsFiniteSet(S \union T)
         /\ Cardinality(S \union T) \in Nat
         /\ Cardinality(S \union T) <= Cardinality(S) + Cardinality(T)
<1>1. /\ IsFiniteSet(S \union T)
      /\ Cardinality(S \union T)
           = Cardinality(S) + Cardinality(T) - Cardinality(S \intersect T)
  BY FS_Union
<1>2. IsFiniteSet(S \intersect T)
  BY FS_Intersection
<1>3. /\ Cardinality(S) \in Nat /\ Cardinality(T) \in Nat
      /\ Cardinality(S \intersect T) \in Nat /\ Cardinality(S \union T) \in Nat
  BY <1>1, <1>2, FS_CardinalityType
<1> QED
  BY <1>1, <1>3

LEMMA StepsFinite ==
  ASSUME NEW S \in SUBSET Steps
  PROVE  IsFiniteSet(S) /\ Cardinality(S) \in Nat
<1>1. IsFiniteSet(Steps)
  BY StoreConstants, FS_Interval DEF Steps
<1>2. IsFiniteSet(S)
  BY <1>1, FS_Subset
<1> QED
  BY <1>2, FS_CardinalityType

LEMMA ElementsBound ==
  ASSUME NEW S, NEW s \in Seq(S)
  PROVE  /\ IsFiniteSet(Elements(s))
         /\ Cardinality(Elements(s)) \in Nat
         /\ Cardinality(Elements(s)) <= Len(s)
<1>1. [i \in 1 .. Len(s) |-> s[i]] \in Surjection(1 .. Len(s), Elements(s))
  BY DEF Elements, Surjection
<1>2. IsFiniteSet(1 .. Len(s)) /\ Cardinality(1 .. Len(s)) = Len(s)
  <2>1. Len(s) \in Nat /\ 1 \in Int /\ Len(s) \in Int
    OBVIOUS
  <2>2. /\ IsFiniteSet(1 .. Len(s))
        /\ Cardinality(1 .. Len(s)) = IF 1 > Len(s) THEN 0 ELSE Len(s) - 1 + 1
    BY <2>1, FS_Interval, Zenon
  <2> QED
    BY <2>1, <2>2
<1>3. IsFiniteSet(Elements(s)) /\ Cardinality(Elements(s)) <= Len(s)
  BY <1>1, <1>2, FS_Surjection
<1> QED
  BY <1>3, FS_CardinalityType

LEMMA ForgetSplits ==
  ASSUME NEW paths \in Seq(Steps), NEW n \in 0 .. Len(paths), Forget(paths, n)
  PROVE  Splits(paths, n)
<1>1. \A i \in 1 .. Len(paths) : paths[i] \in Steps
  BY ElementOfSeq
<1>2. /\ prev' \in Seq(Steps)
      /\ Len(prev') = Len(paths) - n
      /\ \A i \in 1 .. Len(paths) - n : prev'[i] = paths[n + i]
  <2>1. \A i \in n + 1 .. Len(paths) : paths[i] \in Steps
    BY <1>1
  <2> QED
    BY <2>1, SubSeqProperties DEF Forget
<1>3. \A s \in doomed' : \E i \in 1 .. n : s = paths[i]
  BY DEF Forget
<1>4. doomed' \subseteq Steps
  BY <1>1, <1>3
<1>5. Elements(paths) \subseteq Elements(prev') \union doomed'
  <2> SUFFICES ASSUME NEW i \in 1 .. Len(paths)
               PROVE  paths[i] \in Elements(prev') \union doomed'
    BY DEF Elements
  <2>1. CASE i <= n
    BY <2>1 DEF Forget
  <2>2. CASE i > n
    <3>1. i - n \in 1 .. Len(prev') /\ prev'[i - n] = paths[i]
      BY <1>2, <2>2
    <3> QED
      BY <3>1 DEF Elements
  <2> QED
    BY <2>1, <2>2
<1>6. Cardinality(doomed') <= n
  <2>1. [i \in 1 .. n |-> paths[i]] \in Surjection(1 .. n, doomed')
    BY DEF Forget, Surjection
  <2> QED
    BY <2>1, FS_SurjCardinalityBound DEF ExistsSurjection
<1> QED
  BY <1>2, <1>3, <1>4, <1>5, <1>6 DEF Splits

LEMMA ForgetNothing ==
  ASSUME NEW paths \in Seq(Steps), prev' = paths, doomed' = {}
  PROVE  Splits(paths, 0)
  BY EmptyHasNone DEF Splits

LEMMA StepIsNew ==
  ASSUME IInv, pc \in SavePhases
  PROVE  step \in Steps /\ tracker.step < step
  BY StoreConstants DEF IInv, SavesAhead, TypeOK, Steps

(* ensure_checkpoint_capacity leaves room for one more.                     *)
LEMMA CapacityEffect ==
  ASSUME IInv, EnsureCapacity
  PROVE  \E n \in 0 .. Len(prev) :
           /\ Splits(prev, n)
           /\ n # 0 => maxKeep > 1 /\ n = Len(prev) - maxKeep + 1
           /\ n = 0 => ~(maxKeep > 1 /\ Len(prev) >= maxKeep)
<1> USE StoreConstants
<1>1. prev \in Seq(Steps) /\ maxKeep \in Nat /\ doomed = {}
  BY DEF IInv, TypeOK, DoomedAreOld, EnsureCapacity
<1>2. CASE maxKeep > 1 /\ Len(prev) >= maxKeep
  <2>1. Len(prev) - maxKeep + 1 \in 1 .. Len(prev)
    BY <1>1, <1>2
  <2>2. Splits(prev, Len(prev) - maxKeep + 1)
    BY <1>1, <1>2, <2>1, ForgetSplits DEF EnsureCapacity
  <2> QED
    BY <1>2, <2>1, <2>2
<1>3. CASE ~(maxKeep > 1 /\ Len(prev) >= maxKeep)
  <2>1. Splits(prev, 0)
    BY <1>1, <1>3, ForgetNothing DEF EnsureCapacity
  <2> QED
    BY <1>1, <1>3, <2>1
<1> QED
  BY <1>2, <1>3

(* register_checkpoint leaves no more than the limit.                       *)
LEMMA RegisterEffect ==
  ASSUME IInv, Register
  PROVE  /\ Append(prev, step) \in Seq(Steps)
         /\ \E n \in 0 .. Len(prev) + 1 :
              /\ Splits(Append(prev, step), n)
              /\ n # 0 => maxKeep > 0 /\ n = Len(prev) + 1 - maxKeep
              /\ n = 0 => maxKeep = 0 \/ Len(prev) + 1 <= maxKeep
<1> DEFINE paths == Append(prev, step)
<1> USE StoreConstants
<1>1. prev \in Seq(Steps) /\ maxKeep \in Nat /\ doomed = {} /\ step \in Steps
  BY StepIsNew DEF IInv, TypeOK, DoomedAreOld, Register, SavePhases
<1>2. paths \in Seq(Steps) /\ Len(paths) = Len(prev) + 1
  BY <1>1, AppendProperties
<1>3. /\ maxKeep > 0 /\ Len(paths) > maxKeep
           => Forget(paths, Len(paths) - maxKeep)
      /\ ~(maxKeep > 0 /\ Len(paths) > maxKeep)
           => prev' = paths /\ UNCHANGED doomed
  BY DEF Register
<1> HIDE DEF paths
<1>4. CASE maxKeep > 0 /\ Len(paths) > maxKeep
  <2> DEFINE n == Len(prev) + 1 - maxKeep
  <2>1. n \in 1 .. Len(prev) + 1 /\ n = Len(paths) - maxKeep
    BY <1>1, <1>2, <1>4
  <2>2. Splits(paths, n)
    BY <1>2, <1>3, <1>4, <2>1, ForgetSplits
  <2> QED
    BY <1>1, <1>2, <1>4, <2>1, <2>2 DEF paths
<1>5. CASE ~(maxKeep > 0 /\ Len(paths) > maxKeep)
  <2>1. Splits(paths, 0)
    BY <1>1, <1>2, <1>3, <1>5, ForgetNothing
  <2> QED
    BY <1>1, <1>2, <1>5, <2>1 DEF paths
<1> QED
  BY <1>4, <1>5

-----------------------------------------------------------------------------
LEMMA InitIInv == Init => IInv
<1> SUFFICES ASSUME Init PROVE IInv
  OBVIOUS
<1> USE StoreConstants
<1>1. TypeOK
  BY DEF Init, TypeOK, Steps, Runs, File, SavePhases
<1> QED
  BY <1>1, EmptyHasNone
  DEF Init, IInv, SavesAhead, Increasing, TrackedIsLast, DoomedAreOld, FilesOfPast,
      SavedSoFar, HeldAreListed, RoomLeft, TrackedLoadable, TrackedWhole, Holding,
      Unregistered, Registered, SavePhases, Runs

LEMMA TypeStep == IInv /\ [Next]_vars => TypeOK'
<1> SUFFICES ASSUME IInv, [Next]_vars PROVE TypeOK'
  OBVIOUS
<1> USE StoreConstants
<1>0. TypeOK
  BY DEF IInv
<1>1. run \in File /\ (pc \in SavePhases => step \in Steps)
  BY <1>0, StepIsNew DEF TypeOK, Runs, File
<1>2. CASE EnsureCapacity
  <2>1. prev' \in Seq(Steps) /\ doomed' \subseteq Steps
    BY <1>2, CapacityEffect DEF Splits
  <2> QED
    BY <1>0, <1>2, <2>1 DEF EnsureCapacity, SavePhases, TypeOK
<1>3. CASE Register
  <2>1. prev' \in Seq(Steps) /\ doomed' \subseteq Steps
    BY <1>3, RegisterEffect DEF Splits
  <2> QED
    BY <1>0, <1>3, <2>1 DEF Register, SavePhases, TypeOK
<1>4. CASE Load
  BY <1>0, <1>4 DEF Load, TypeOK
<1>5. CASE LoadFails
  BY <1>0, <1>5 DEF LoadFails, TypeOK
<1>6. ASSUME NEW s \in Steps, TrainTo(s) PROVE TypeOK'
  BY <1>0, <1>6 DEF TrainTo, SavePhases, Steps, TypeOK
<1>7. ASSUME NEW s \in Steps, NEW f \in Shards, RemoveFile(s, f) PROVE TypeOK'
  BY <1>0, <1>7 DEF RemoveFile, File, TypeOK
<1>8. ASSUME NEW r \in Ranks, WriteShard(r) PROVE TypeOK'
  <2>1. shards' \in [Steps -> [Shards -> File]]
    BY <1>0, <1>1, <1>8 DEF WriteShard, TypeOK
  <2>2. next' \in [Ranks -> 1 .. 4]
    BY <1>0, <1>8 DEF WriteShard, TypeOK, Kinds
  <2> QED
    BY <1>0, <1>8, <2>1, <2>2 DEF WriteShard, TypeOK
<1>9. CASE RoomMade
  BY <1>0, <1>9 DEF RoomMade, SavePhases, TypeOK
<1>10. CASE ShardsBarrier
  BY <1>0, <1>10 DEF ShardsBarrier, SavePhases, TypeOK
<1>11. CASE Retired
  BY <1>0, <1>11 DEF Retired, SavePhases, TypeOK
<1>12. CASE SaveFB
  BY <1>0, <1>1, <1>12 DEF SaveFB, SavePhases, TypeOK
<1>13. CASE SaveData
  BY <1>0, <1>1, <1>13 DEF SaveData, SavePhases, TypeOK
<1>14. CASE OpenTracker
  BY <1>0, <1>14 DEF OpenTracker, SavePhases, TypeOK
<1>15. CASE WriteTracker
  BY <1>0, <1>15 DEF WriteTracker, SavePhases, TypeOK
<1>16. CASE Crash
  BY <1>0, <1>16, EmptySeq DEF Crash, Runs, TypeOK
<1>17. CASE UNCHANGED vars
  BY <1>0, <1>17 DEF vars, TypeOK
<1> QED
  BY <1>2, <1>3, <1>4, <1>5, <1>6, <1>7, <1>8, <1>9, <1>10, <1>11, <1>12,
     <1>13, <1>14, <1>15, <1>16, <1>17 DEF Next

LEMMA SavesAheadStep == IInv /\ [Next]_vars => SavesAhead'
<1> SUFFICES ASSUME IInv, [Next]_vars PROVE SavesAhead'
  OBVIOUS
<1> USE DEF IInv, TypeOK, SavesAhead, SavePhases
<1>1. CASE Load
  BY <1>1 DEF Load
<1>2. ASSUME NEW s \in Steps, TrainTo(s) PROVE SavesAhead'
  BY <1>2 DEF TrainTo, Steps
<1>3. CASE OpenTracker
  BY <1>3 DEF OpenTracker
<1>4. CASE WriteTracker
  BY <1>4 DEF WriteTracker
<1>5. CASE pc' \in {"load", "failed"}
  BY <1>5
<1>6. CASE UNCHANGED <<step, tracker>> /\ pc \in SavePhases /\ pc' \in SavePhases
  BY <1>6
<1>7. CASE UNCHANGED vars
  BY <1>7 DEF vars
<1> QED
  BY <1>1, <1>2, <1>3, <1>4, <1>5, <1>6, <1>7
  DEF Next, LoadFails, EnsureCapacity, RemoveFile, RoomMade, WriteShard,
      ShardsBarrier, Register, Retired, SaveFB, SaveData, Crash

(* Outside capacity, register and a crash the saved paths stay.             *)
LEMMA PathsStep ==
  ASSUME IInv, [Next]_vars
  PROVE  \/ EnsureCapacity
         \/ Register
         \/ Crash
         \/ UNCHANGED <<prev, doomed>>
         \/ UNCHANGED prev /\ doomed' = {} /\ (RoomMade \/ Retired)
  BY DEF Next, vars, Load, LoadFails, TrainTo, RemoveFile, RoomMade, WriteShard,
     ShardsBarrier, Retired, SaveFB, SaveData, OpenTracker, WriteTracker

LEMMA IncreasingStep == IInv /\ [Next]_vars => Increasing(prev)'
<1> SUFFICES ASSUME IInv, [Next]_vars PROVE Increasing(prev)'
  OBVIOUS
<1> USE StoreConstants
<1>1. prev \in Seq(Steps) /\ Increasing(prev)
  BY DEF IInv, TypeOK
<1>2. CASE EnsureCapacity
  BY <1>1, <1>2, CapacityEffect DEF Splits, Increasing
<1>3. CASE Register
  <2> DEFINE paths == Append(prev, step)
  <2>1. \A i \in 1 .. Len(prev) : prev[i] < step
    <3> SUFFICES ASSUME NEW i \in 1 .. Len(prev) PROVE prev[i] < step
      OBVIOUS
    <3>1. prev[Len(prev)] = tracker.step /\ tracker.step < step
      BY <1>1, <1>3, StepIsNew
      DEF IInv, TrackedIsLast, Register, Unregistered, SavePhases
    <3>2. prev[i] \in Int /\ prev[i] <= prev[Len(prev)]
      BY <1>1 DEF Increasing, Steps
    <3>3. step \in Int /\ tracker.step \in Int
      BY DEF IInv, TypeOK
    <3> QED
      BY <3>1, <3>2, <3>3
  <2>2. step \in Steps
    BY <1>3, StepIsNew DEF Register, SavePhases
  <2>3. /\ paths \in Seq(Steps) /\ Len(paths) = Len(prev) + 1
        /\ paths[Len(prev) + 1] = step
        /\ \A i \in 1 .. Len(prev) : paths[i] = prev[i]
    BY <1>1, <2>2, AppendProperties
  <2>4. Increasing(paths)
    BY <1>1, <2>1, <2>3 DEF Increasing
  <2>5. PICK n \in 0 .. Len(paths) : Splits(paths, n)
    BY <1>3, <2>3, RegisterEffect
  <2> HIDE DEF paths
  <2> QED
    BY <2>3, <2>4, <2>5 DEF Splits, Increasing
<1>4. CASE Crash
  BY <1>4 DEF Crash, Increasing
<1>5. CASE UNCHANGED prev
  BY <1>1, <1>5 DEF Increasing
<1> QED
  BY <1>2, <1>3, <1>4, <1>5, PathsStep

LEMMA TrackedIsLastStep == IInv /\ [Next]_vars => TrackedIsLast'
<1> SUFFICES ASSUME IInv, [Next]_vars PROVE TrackedIsLast'
  OBVIOUS
<1> USE StoreConstants
<1>1. prev \in Seq(Steps) /\ TrackedIsLast
  BY DEF IInv, TypeOK
<1>2. CASE EnsureCapacity
  <2>1. PICK n \in 0 .. Len(prev) : Splits(prev, n)
    BY <1>2, CapacityEffect
  <2>2. prev' # <<>> => prev'[Len(prev')] = prev[Len(prev)] /\ prev # <<>>
    BY <1>1, <2>1 DEF Splits
  <2> QED
    BY <1>1, <1>2, <2>2 DEF EnsureCapacity, TrackedIsLast, Unregistered, Registered
<1>3. CASE Register
  <2> DEFINE paths == Append(prev, step)
  <2>1. step \in Steps
    BY <1>3, StepIsNew DEF Register, SavePhases
  <2>2. /\ paths \in Seq(Steps) /\ Len(paths) = Len(prev) + 1
        /\ paths[Len(prev) + 1] = step
        /\ \A i \in 1 .. Len(prev) : paths[i] = prev[i]
    BY <1>1, <2>1, AppendProperties
  <2>3. PICK n \in 0 .. Len(paths) :
          Splits(paths, n) /\ (n # 0 => maxKeep > 0 /\ n = Len(prev) + 1 - maxKeep)
    BY <1>3, <2>2, RegisterEffect
  <2> HIDE DEF paths
  <2>4. Len(prev') >= 1 /\ prev'[Len(prev')] = step
    BY <1>1, <2>2, <2>3 DEF Splits, IInv, TypeOK
  <2>5. Len(prev') > 1 => prev'[Len(prev') - 1] = prev[Len(prev)] /\ Len(prev) > 0
    BY <1>1, <2>2, <2>3 DEF Splits
  <2>6. Len(prev) > 0 => prev[Len(prev)] = tracker.step
    BY <1>1, <1>3 DEF Register, TrackedIsLast, Unregistered
  <2> QED
    BY <1>3, <2>4, <2>5, <2>6
    DEF Register, TrackedIsLast, Unregistered, Registered
<1>4. CASE Crash
  BY <1>4 DEF Crash, TrackedIsLast, Unregistered, Registered
<1>5. CASE WriteTracker
  BY <1>1, <1>5 DEF WriteTracker, TrackedIsLast, Unregistered, Registered
<1>6. CASE Load
  BY <1>1, <1>6 DEF Load, TrackedIsLast, Unregistered, Registered
<1>7. CASE LoadFails
  BY <1>1, <1>7 DEF LoadFails, TrackedIsLast, Unregistered, Registered
<1>8. ASSUME NEW s \in Steps, TrainTo(s) PROVE TrackedIsLast'
  BY <1>1, <1>8 DEF TrainTo, TrackedIsLast, Unregistered, Registered
<1>9. CASE OpenTracker
  BY <1>1, <1>9
  DEF OpenTracker, TrackedIsLast, Unregistered, Registered, IInv, TypeOK
<1>10. CASE /\ UNCHANGED <<prev, step, tracker>>
            /\ \/ pc \in Unregistered /\ pc' \in Unregistered
               \/ pc \in Registered /\ pc' \in Registered
               \/ UNCHANGED pc
  BY <1>1, <1>10 DEF TrackedIsLast, Unregistered, Registered
<1> QED
  BY <1>2, <1>3, <1>4, <1>5, <1>6, <1>7, <1>8, <1>9, <1>10
  DEF Next, vars, RemoveFile, RoomMade, WriteShard, ShardsBarrier, Retired,
      SaveFB, SaveData, Unregistered, Registered

LEMMA DoomedAreOldStep == IInv /\ [Next]_vars => DoomedAreOld'
<1> SUFFICES ASSUME IInv, [Next]_vars PROVE DoomedAreOld'
  OBVIOUS
<1> USE StoreConstants
<1>1. /\ prev \in Seq(Steps) /\ Increasing(prev) /\ DoomedAreOld
      /\ tracker.step \in Int /\ step \in Int /\ maxKeep \in Nat
      /\ \A i \in 1 .. Len(prev) : prev[i] \in Int
  BY DEF IInv, TypeOK, Steps
<1>2. ASSUME pc \in Unregistered, NEW i \in 1 .. Len(prev)
      PROVE  /\ prev[i] <= tracker.step /\ tracker.step < step
             /\ i < Len(prev) => prev[i] < tracker.step
  <2>1. prev[Len(prev)] = tracker.step
    BY <1>1, <1>2 DEF IInv, TrackedIsLast
  <2>2. tracker.step < step
    BY <1>2, StepIsNew DEF Unregistered, SavePhases
  <2> QED
    BY <1>1, <2>1, <2>2 DEF Increasing
<1>3. CASE EnsureCapacity
  <2>1. PICK n \in 0 .. Len(prev) :
          Splits(prev, n) /\ (n # 0 => maxKeep > 1 /\ n = Len(prev) - maxKeep + 1)
    BY <1>3, CapacityEffect
  <2>2. \A s \in doomed' : s < tracker.step /\ s < step
    <3> SUFFICES ASSUME NEW s \in doomed' PROVE s < tracker.step /\ s < step
      OBVIOUS
    <3>1. PICK i \in 1 .. n : s = prev[i]
      BY <2>1 DEF Splits
    <3>2. i \in 1 .. Len(prev) /\ i < Len(prev)
      BY <1>1, <2>1
    <3>3. pc \in Unregistered
      BY <1>3 DEF EnsureCapacity, Unregistered
    <3> QED
      BY <1>1, <1>2, <3>1, <3>2, <3>3
  <2> QED
    BY <1>3, <2>2 DEF EnsureCapacity, DoomedAreOld
<1>4. CASE Register
  <2>1. PICK n \in 0 .. Len(prev) + 1 :
          /\ Splits(Append(prev, step), n)
          /\ n # 0 => maxKeep > 0 /\ n = Len(prev) + 1 - maxKeep
    BY <1>4, RegisterEffect
  <2>2. ASSUME NEW s \in doomed'
        PROVE  s < step /\ (maxKeep # 1 => s < tracker.step)
    <3>1. PICK i \in 1 .. n : s = Append(prev, step)[i]
      BY <2>1, <2>2 DEF Splits
    <3>2. i \in 1 .. Len(prev) /\ (maxKeep # 1 => i < Len(prev))
      BY <1>1, <2>1
    <3>3. step \in Steps
      BY <1>4, StepIsNew DEF Register, SavePhases
    <3>4. s = prev[i]
      BY <1>1, <3>1, <3>2, <3>3, AppendProperties
    <3>5. pc \in Unregistered
      BY <1>4 DEF Register, Unregistered
    <3> QED
      BY <1>1, <1>2, <3>2, <3>4, <3>5
  <2> QED
    BY <1>4, <2>2 DEF Register, DoomedAreOld
<1>5. CASE Crash
  BY <1>5 DEF Crash, DoomedAreOld
<1>6. CASE WriteTracker
  BY <1>1, <1>6 DEF WriteTracker, DoomedAreOld
<1>7. CASE OpenTracker
  BY <1>1, <1>7 DEF OpenTracker, DoomedAreOld
<1>8. CASE doomed' = {} /\ (RoomMade \/ Retired)
  BY <1>8 DEF DoomedAreOld
<1>9. CASE UNCHANGED doomed /\ doomed = {}
  BY <1>9 DEF DoomedAreOld
<1>10. CASE UNCHANGED <<doomed, step, tracker, maxKeep, pc>>
  BY <1>1, <1>10 DEF DoomedAreOld
<1> QED
  BY <1>1, <1>3, <1>4, <1>5, <1>6, <1>7, <1>8, <1>9, <1>10
  DEF Next, vars, DoomedAreOld, Load, LoadFails, TrainTo, RemoveFile, RoomMade,
      WriteShard, ShardsBarrier, Retired, SaveFB, SaveData

LEMMA FilesOfPastStep == IInv /\ [Next]_vars => FilesOfPast'
<1> SUFFICES ASSUME IInv, [Next]_vars PROVE FilesOfPast'
  OBVIOUS
<1>1. /\ FilesOfPast /\ run \in Nat
      /\ shards \in [Steps -> [Shards -> File]]
      /\ \A s \in Steps, f \in Shards : shards[s][f] \in Int
  BY StoreConstants DEF IInv, TypeOK, Runs, File
<1>2. ASSUME NEW s \in Steps, NEW f \in Shards, RemoveFile(s, f)
      PROVE  FilesOfPast'
  BY <1>1, <1>2 DEF RemoveFile, FilesOfPast
<1>3. ASSUME NEW r \in Ranks, WriteShard(r) PROVE FilesOfPast'
  BY <1>1, <1>3 DEF WriteShard, FilesOfPast
<1>4. CASE Crash
  BY <1>1, <1>4 DEF Crash, FilesOfPast
<1>5. CASE UNCHANGED <<shards, run>>
  BY <1>1, <1>5 DEF FilesOfPast
<1> QED
  BY <1>2, <1>3, <1>4, <1>5
  DEF Next, vars, Load, LoadFails, TrainTo, EnsureCapacity, RoomMade,
      ShardsBarrier, Register, Retired, SaveFB, SaveData, OpenTracker,
      WriteTracker

LEMMA SavedSoFarStep == IInv /\ [Next]_vars => SavedSoFar'
<1> SUFFICES ASSUME IInv, [Next]_vars PROVE SavedSoFar'
  OBVIOUS
<1>1. /\ SavedSoFar
      /\ shards \in [Steps -> [Shards -> File]]
      /\ fb \in [Steps -> File]
      /\ data \in [Steps -> File]
      /\ next \in [Ranks -> 1 .. 4]
      /\ pc \in SavePhases => step \in Steps
  BY StepIsNew DEF IInv, TypeOK
<1> USE <1>1 DEF SavedSoFar, Registered
<1>2. ASSUME NEW s \in Steps, NEW f \in Shards, RemoveFile(s, f)
      PROVE  SavedSoFar'
  <2>1. s # step
    BY <1>2 DEF RemoveFile, IInv, DoomedAreOld, TypeOK
  <2> QED
    BY <1>2, <2>1 DEF RemoveFile
<1>3. ASSUME NEW r \in Ranks, WriteShard(r) PROVE SavedSoFar'
  <2>1. /\ step \in Steps /\ next[r] \in Kinds
        /\ shards' = [shards EXCEPT ![step][<<r, next[r]>>] = run]
        /\ next' = [next EXCEPT ![r] = @ + 1]
        /\ pc = "shards" /\ pc' = "shards" /\ step' = step /\ run' = run
    BY <1>3 DEF WriteShard, SavePhases
  <2>2. ASSUME NEW q \in Ranks, NEW k \in Kinds, k < next'[q]
        PROVE  shards'[step][<<q, k>>] = run
    <3>1. <<q, k>> \in Shards /\ <<r, next[r]>> \in Shards
      BY <2>1 DEF Shards
    <3>2. CASE q = r /\ k = next[r]
      BY <2>1, <3>1, <3>2
    <3>3. CASE ~(q = r /\ k = next[r])
      <4>1. k < next[q]
        BY <2>1, <2>2, <3>3 DEF Kinds
      <4>2. shards'[step][<<q, k>>] = shards[step][<<q, k>>]
        BY <2>1, <3>1, <3>3
      <4> QED
        BY <2>1, <4>1, <4>2
    <3> QED
      BY <3>2, <3>3
  <2> QED
    BY <2>1, <2>2
<1>4. CASE RoomMade
  BY <1>4 DEF RoomMade, Kinds
<1>5. CASE ShardsBarrier
  <2>1. ASSUME NEW f \in Shards PROVE shards[step][f] = run
    <3>1. PICK r \in Ranks, k \in Kinds : f = <<r, k>>
      BY DEF Shards
    <3>2. next[r] \in 1 .. 4 /\ next[r] \notin Kinds
      BY <1>5 DEF ShardsBarrier
    <3>3. k < next[r]
      BY <3>2 DEF Kinds
    <3> QED
      BY <1>5, <3>1, <3>3 DEF ShardsBarrier
  <2> QED
    BY <1>5, <2>1 DEF ShardsBarrier
<1>6. CASE SaveFB
  BY <1>6 DEF SaveFB, SavePhases
<1>7. CASE SaveData
  BY <1>7 DEF SaveData, SavePhases
<1>8. CASE OpenTracker
  BY <1>8 DEF OpenTracker
<1>9. CASE Register
  BY <1>9 DEF Register
<1>10. CASE Retired
  BY <1>10 DEF Retired
<1>11. CASE pc' \in {"load", "failed", "train", "capacity", "make_room"}
  BY <1>11
<1>12. CASE UNCHANGED vars
  BY <1>12 DEF vars
<1> QED
  BY <1>2, <1>3, <1>4, <1>5, <1>6, <1>7, <1>8, <1>9, <1>10, <1>11, <1>12
  DEF Next, Load, LoadFails, TrainTo, EnsureCapacity, WriteTracker, Crash

LEMMA HeldAreListedStep == IInv /\ [Next]_vars => HeldAreListed'
<1> SUFFICES ASSUME IInv, [Next]_vars PROVE HeldAreListed'
  OBVIOUS
<1>1. /\ HeldAreListed /\ FilesOfPast
      /\ shards \in [Steps -> [Shards -> File]]
      /\ run \in Nat \ {0}
      /\ prev \in Seq(Steps)
      /\ pc \notin {"make_room", "retire"} => doomed = {}
      /\ pc \in SavePhases => step \in Steps
  BY StoreConstants, StepIsNew DEF IInv, TypeOK, Runs, DoomedAreOld
<1>2. CASE EnsureCapacity
  <2>1. Elements(prev) \subseteq Elements(prev') \union doomed'
    BY <1>2, CapacityEffect DEF Splits
  <2>2. Holding({run})' = Holding({run}) /\ doomed = {} /\ Writing = {}
    BY <1>1, <1>2 DEF EnsureCapacity, Holding, Writing
  <2> QED
    BY <1>1, <2>1, <2>2 DEF HeldAreListed, Writing
<1>3. CASE Register
  <2>1. Elements(Append(prev, step)) \subseteq Elements(prev') \union doomed'
    BY <1>3, RegisterEffect DEF Splits
  <2>2. Holding({run})' = Holding({run}) /\ doomed = {} /\ Writing = {step}
    BY <1>1, <1>3 DEF Register, Holding, Writing
  <2>3. Elements(prev) \union {step} \subseteq Elements(Append(prev, step))
    <3>1. step \in Steps
      BY <1>1, <1>3 DEF Register, SavePhases
    <3>2. /\ Len(Append(prev, step)) = Len(prev) + 1
          /\ Append(prev, step)[Len(prev) + 1] = step
          /\ \A i \in 1 .. Len(prev) : Append(prev, step)[i] = prev[i]
      BY <1>1, <3>1, AppendProperties
    <3>3. /\ Len(prev) + 1 \in 1 .. Len(Append(prev, step))
          /\ \A i \in 1 .. Len(prev) : i \in 1 .. Len(Append(prev, step))
      BY <1>1, <3>2
    <3> QED
      BY <3>2, <3>3, Zenon DEF Elements
  <2> QED
    BY <1>1, <2>1, <2>2, <2>3 DEF HeldAreListed, Writing
<1>4. ASSUME NEW s \in Steps, NEW f \in Shards, RemoveFile(s, f)
      PROVE  HeldAreListed'
  <2>1. Holding({run})' \subseteq Holding({run})
    BY <1>1, <1>4 DEF RemoveFile, Holding
  <2> QED
    BY <1>1, <1>4, <2>1 DEF RemoveFile, HeldAreListed, Elements, Writing
<1>5. ASSUME NEW r \in Ranks, WriteShard(r) PROVE HeldAreListed'
  <2>1. Holding({run})' \subseteq Holding({run}) \union {step}
    BY <1>1, <1>5 DEF WriteShard, Holding
  <2> QED
    BY <1>1, <1>5, <2>1 DEF WriteShard, HeldAreListed, Elements, Writing
<1>6. CASE /\ AllRemoved /\ doomed' = {} /\ pc \in {"make_room", "retire"}
           /\ UNCHANGED <<shards, run, prev>>
  <2>1. Holding({run})' = Holding({run}) /\ Holding({run}) \intersect doomed = {}
    BY <1>1, <1>6 DEF AllRemoved, Holding
  <2>2. Elements(prev)' = Elements(prev) /\ Writing = {}
    BY <1>6 DEF Elements, Writing
  <2> QED
    BY <1>1, <2>1, <2>2 DEF HeldAreListed
<1>7. CASE Crash
  <2>1. Holding({run})' = {}
    BY <1>1, <1>7 DEF Crash, Holding, FilesOfPast, File
  <2> QED
    BY <2>1 DEF HeldAreListed
<1>8. CASE /\ UNCHANGED <<shards, run, prev, doomed, step>>
           /\ pc \in {"shards", "register"} => pc' \in {"shards", "register"}
  BY <1>1, <1>8 DEF HeldAreListed, Holding, Elements, Writing
<1>9. CASE UNCHANGED <<shards, run, prev, doomed>> /\ pc \in {"load", "train"}
  BY <1>1, <1>9 DEF HeldAreListed, Holding, Elements, Writing
<1> QED
  BY <1>2, <1>3, <1>4, <1>5, <1>6, <1>7, <1>8, <1>9
  DEF Next, vars, Load, LoadFails, TrainTo, RoomMade, ShardsBarrier, Retired,
      SaveFB, SaveData, OpenTracker, WriteTracker

LEMMA RoomLeftStep == IInv /\ [Next]_vars => RoomLeft'
<1> SUFFICES ASSUME IInv, [Next]_vars PROVE RoomLeft'
  OBVIOUS
<1> USE StoreConstants, EmptyHasNone
<1>1. /\ RoomLeft /\ prev \in Seq(Steps) /\ maxKeep \in Nat
      /\ pc \notin {"make_room", "retire"} => doomed = {}
  BY DEF IInv, TypeOK, DoomedAreOld
<1>2. Cardinality(doomed) \in Nat /\ Cardinality(doomed') \in Nat
  <2>1. doomed \in SUBSET Steps /\ doomed' \in SUBSET Steps
    BY TypeStep DEF IInv, TypeOK
  <2> QED
    BY <2>1, StepsFinite
<1>3. CASE EnsureCapacity
  <2>1. PICK n \in 0 .. Len(prev) :
          /\ Splits(prev, n)
          /\ n # 0 => maxKeep > 1 /\ n = Len(prev) - maxKeep + 1
          /\ n = 0 => ~(maxKeep > 1 /\ Len(prev) >= maxKeep)
    BY <1>3, CapacityEffect
  <2>2. Len(prev') = Len(prev) - n /\ Cardinality(doomed') <= n
    BY <2>1 DEF Splits
  <2>3. maxKeep' = maxKeep /\ pc' = "make_room" /\ doomed = {}
    BY <1>1, <1>3 DEF EnsureCapacity
  <2> QED
    BY <1>1, <1>2, <2>1, <2>2, <2>3 DEF RoomLeft
<1>4. CASE Register
  <2>1. PICK n \in 0 .. Len(prev) + 1 :
          /\ Splits(Append(prev, step), n)
          /\ n # 0 => maxKeep > 0 /\ n = Len(prev) + 1 - maxKeep
          /\ n = 0 => maxKeep = 0 \/ Len(prev) + 1 <= maxKeep
    BY <1>4, RegisterEffect
  <2>2. step \in Steps
    BY <1>4, StepIsNew DEF Register, SavePhases
  <2>3. Len(prev') = Len(prev) + 1 - n /\ Cardinality(doomed') <= n
    BY <1>1, <2>1, <2>2, AppendProperties DEF Splits
  <2>4. maxKeep' = maxKeep /\ pc = "register" /\ pc' = "retire"
    BY <1>4 DEF Register
  <2> QED
    BY <1>1, <1>2, <2>1, <2>3, <2>4 DEF RoomLeft
<1>5. CASE Crash
  BY <1>1, <1>5, EmptySeq DEF Crash, RoomLeft
<1>6. CASE RoomMade
  BY <1>1, <1>2, <1>6 DEF RoomMade, RoomLeft
<1>7. CASE Retired
  BY <1>1, <1>2, <1>7 DEF Retired, RoomLeft
<1>8. CASE ShardsBarrier
  BY <1>1, <1>8 DEF ShardsBarrier, RoomLeft
<1>9. CASE /\ UNCHANGED <<prev, doomed, maxKeep>>
           /\ UNCHANGED pc \/ pc' \notin {"make_room", "shards", "register"}
  BY <1>1, <1>9 DEF RoomLeft
<1> QED
  BY <1>3, <1>4, <1>5, <1>6, <1>7, <1>8, <1>9
  DEF Next, vars, Load, LoadFails, TrainTo, RemoveFile, WriteShard, SaveFB,
      SaveData, OpenTracker, WriteTracker

LEMMA TrackedLoadableStep == IInv /\ [Next]_vars => TrackedLoadable'
<1> SUFFICES ASSUME IInv, [Next]_vars, maxKeep' # 1, tracker'.step # 0
             PROVE  \E k \in Runs : WrittenBy(tracker.step, k)'
  BY DEF TrackedLoadable, TrackedWhole
<1>1. /\ shards \in [Steps -> [Shards -> File]]
      /\ fb \in [Steps -> File]
      /\ data \in [Steps -> File]
      /\ run \in Runs
      /\ pc \in SavePhases => step \in Steps /\ tracker.step < step
      /\ tracker.step \in 0 .. MaxStep
  BY StepIsNew DEF IInv, TypeOK
<1>2. CASE WriteTracker
  <2>1. WrittenBy(step, run) /\ tracker'.step = step
    BY <1>2 DEF WriteTracker, IInv, SavedSoFar, Registered, WrittenBy
  <2> QED
    BY <1>1, <1>2, <2>1 DEF WriteTracker, WrittenBy
<1>3. ASSUME tracker'.step = tracker.step, maxKeep' = maxKeep
      PROVE  /\ tracker.step \in Steps
             /\ \E k \in Runs : WrittenBy(tracker.step, k)
  BY <1>1, <1>3 DEF IInv, TrackedLoadable, TrackedWhole, Steps
<1>4. ASSUME NEW s \in Steps, NEW f \in Shards, RemoveFile(s, f)
      PROVE  \E k \in Runs : WrittenBy(tracker.step, k)'
  <2>1. s # tracker.step
    BY <1>1, <1>4 DEF RemoveFile, IInv, DoomedAreOld
  <2> QED
    BY <1>1, <1>3, <1>4, <2>1 DEF RemoveFile, WrittenBy
<1>5. ASSUME NEW r \in Ranks, WriteShard(r)
      PROVE  \E k \in Runs : WrittenBy(tracker.step, k)'
  <2>1. step # tracker.step
    BY <1>1, <1>5 DEF WriteShard, SavePhases
  <2> QED
    BY <1>1, <1>3, <1>5, <2>1 DEF WriteShard, WrittenBy
<1>6. CASE SaveFB
  <2>1. step # tracker.step
    BY <1>1, <1>6 DEF SaveFB, SavePhases
  <2> QED
    BY <1>1, <1>3, <1>6, <2>1 DEF SaveFB, WrittenBy
<1>7. CASE SaveData
  <2>1. step # tracker.step
    BY <1>1, <1>7 DEF SaveData, SavePhases
  <2> QED
    BY <1>1, <1>3, <1>7, <2>1 DEF SaveData, WrittenBy
<1>8. CASE OpenTracker
  <2>1. tracker'.step = tracker.step
    BY <1>8 DEF OpenTracker, IInv, TypeOK
  <2> QED
    BY <1>3, <1>8, <2>1 DEF OpenTracker, WrittenBy
<1>9. CASE UNCHANGED <<shards, fb, data, tracker, maxKeep>>
  BY <1>3, <1>9 DEF WrittenBy
<1> QED
  BY <1>2, <1>4, <1>5, <1>6, <1>7, <1>8, <1>9
  DEF Next, vars, Load, LoadFails, TrainTo, EnsureCapacity, RoomMade,
      ShardsBarrier, Register, Retired, Crash

LEMMA InductiveInvariant == Spec => []IInv
<1>1. IInv /\ [Next]_vars => IInv'
  BY TypeStep, SavesAheadStep, IncreasingStep, TrackedIsLastStep,
     DoomedAreOldStep, FilesOfPastStep, SavedSoFarStep, HeldAreListedStep,
     RoomLeftStep, TrackedLoadableStep DEF IInv
<1> QED
  BY <1>1, InitIInv, PTL DEF Spec

-----------------------------------------------------------------------------
(* Type correctness of the store.                                          *)
THEOREM TypeCorrect == Spec => []TypeOK
<1>1. IInv => TypeOK
  BY DEF IInv
<1> QED
  BY <1>1, InductiveInvariant, PTL

(* Whatever operations a crash separates, and however retention and save   *)
(* interleave, the checkpoint that the tracker names is complete and of    *)
(* one incarnation, unless the limit is one (_save_checkpoint,             *)
(* ensure_checkpoint_capacity, register_checkpoint).                       *)
THEOREM TrackedCheckpointSurvives == Spec => []TrackedLoadable
<1>1. IInv => TrackedLoadable
  BY DEF IInv
<1> QED
  BY <1>1, InductiveInvariant, PTL

(* An incarnation never holds shards of more checkpoints than the limit    *)
(* allows, not even while it saves (ensure_checkpoint_capacity).           *)
THEOREM RetentionKeepsLimit == Spec => []KeepsAtMost
<1>1. IInv => KeepsAtMost
  <2> SUFFICES ASSUME IInv, maxKeep > 1 \/ (maxKeep = 1 /\ pc = "train")
               PROVE  Cardinality(Holding({run})) <= maxKeep
    BY DEF KeepsAtMost
  <2> USE StoreConstants
  <2>1. /\ Holding({run}) \subseteq Elements(prev) \union doomed \union Writing
        /\ prev \in Seq(Steps) /\ doomed \subseteq Steps /\ maxKeep \in Nat
        /\ pc \notin {"make_room", "retire"} => doomed = {}
    BY DEF IInv, HeldAreListed, TypeOK, DoomedAreOld
  <2>2. /\ IsFiniteSet(Elements(prev))
        /\ Cardinality(Elements(prev)) \in Nat
        /\ Cardinality(Elements(prev)) <= Len(prev)
    BY <2>1, ElementsBound
  <2>3. IsFiniteSet(doomed) /\ Cardinality(doomed) \in Nat
    BY <2>1, StepsFinite
  <2>4. /\ IsFiniteSet(Writing)
        /\ Cardinality(Writing) = IF pc \in {"shards", "register"} THEN 1 ELSE 0
    BY FS_EmptySet, FS_Singleton DEF Writing
  <2> DEFINE saved == Elements(prev) \union doomed
             listed == saved \union Writing
  <2>5. /\ IsFiniteSet(saved)
        /\ Cardinality(saved) \in Nat
        /\ Cardinality(saved) <= Cardinality(Elements(prev)) + Cardinality(doomed)
    BY <2>2, <2>3, UnionBound
  <2>6. /\ IsFiniteSet(listed)
        /\ Cardinality(listed) \in Nat
        /\ Cardinality(listed) <= Cardinality(saved) + Cardinality(Writing)
    BY <2>4, <2>5, UnionBound
  <2>7. /\ Cardinality(Holding({run})) <= Cardinality(listed)
        /\ Cardinality(Holding({run})) \in Nat
    BY <2>1, <2>6, FS_Subset, FS_CardinalityType
  <2>8. Len(prev) + Cardinality(doomed) + Cardinality(Writing) <= maxKeep
    <3>1. RoomLeft
      BY DEF IInv
    <3>2. CASE maxKeep > 1 /\ pc \in {"shards", "register"}
      <4>1. Cardinality(doomed) = 0
        BY <2>1, <3>2, EmptyHasNone
      <4> QED
        BY <2>1, <2>4, <3>1, <3>2, <4>1 DEF RoomLeft
    <3>3. CASE maxKeep > 1 /\ pc \notin {"shards", "register"}
      BY <2>1, <2>3, <2>4, <3>1, <3>3 DEF RoomLeft
    <3>4. CASE maxKeep = 1 /\ pc = "train"
      <4>1. Cardinality(doomed) = 0 /\ Cardinality(Writing) = 0
        BY <2>1, <2>4, <3>4, EmptyHasNone
      <4> QED
        BY <2>1, <3>1, <3>4, <4>1 DEF RoomLeft
    <3> QED
      BY <3>2, <3>3, <3>4
  <2>9. Len(prev) \in Nat /\ Cardinality(Writing) \in Nat
    BY <2>1, <2>4
  <2> HIDE DEF saved, listed
  <2> QED
    BY <2>1, <2>2, <2>3, <2>5, <2>6, <2>7, <2>8, <2>9
<1> QED
  BY <1>1, InductiveInvariant, PTL
=============================================================================
