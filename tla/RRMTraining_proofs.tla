-------------------------- MODULE RRMTraining_proofs --------------------------
(* Theorems of RRMTraining for every batch, number of ranks, objective,     *)
(* tape and sequence of runs, crashes and resumes.                          *)
(*                                                                          *)
(* The idea of the proofs: a collective lets no rank go before every rank   *)
(* has entered it, so two ranks are never more than one collective apart.   *)
(* What a rank contributes to a collective then stays put until the last    *)
(* rank has taken it, and every rank folds the same contributions into what *)
(* was the same before.                                                     *)
EXTENDS RRMTraining, SequenceTheorems, WellFoundedInduction, TLAPS

(* No run is started for fewer updates than the one before it.  Nothing in  *)
(* the code keeps a caller from it: theorems that need it say so.           *)
GrowingSchedules ==
  \A c \in Schedules : \A k \in 1 .. Len(c) - 1 : c[k] <= c[k + 1]

U(r) == Len(mean[r])

(* The rank is in an update; collectives it has entered since the last one; *)
(* it waits in none; it has left the loop.                                  *)
Busy == {"forward", "gather", "reduce", "ordinary", "mean", "split"}
In(label) == IF label \in Busy THEN 1 ELSE 0
Off(label) ==
  IF label \in {"gather", "collect"} THEN 1
  ELSE IF label \in {"reduce", "barrier", "done"} THEN 2 ELSE 0
Free == PCs \ {"gather", "reduce", "collect", "barrier"}
Over == {"collect", "barrier", "done"}

Noises == {"seed", "stream"} \X Nat
Share == [rank : Nat, step : Nat, noise : Noises, base : Nat]
Models == Seq(SUBSET Share)

RankTyped ==
  /\ pc \in [Ranks -> PCs] /\ step \in [Ranks -> Nat] /\ calls \in [Ranks -> Nat]
  /\ rng \in [Ranks -> Nat] /\ mean \in [Ranks -> Models]
  /\ DOMAIN tracker = Ranks /\ DOMAIN bundle = Ranks /\ DOMAIN shard = Ranks
  /\ DOMAIN noise = Ranks

FileTyped ==
  file # None => file.step \in Nat /\ file.mean \in Models
                 /\ \A r \in Ranks : file.ranks[r].rng \in Nat

Typed ==
  /\ setting \in Settings /\ run \in DOMAIN Schedule
  /\ RankTyped /\ FileTyped

(* The objective decides which way a rank goes through an update, and, as   *)
(* long as the run lives, the target when it leaves the loop.               *)
PathInv ==
  \A r \in Ranks :
    /\ Objective = "sampled" => pc[r] \notin {"ordinary", "mean", "split"}
    /\ Objective = "split" => pc[r] \notin {"gather", "reduce"}
    /\ alive /\ pc[r] \in Busy => step[r] <= Target
    /\ alive /\ pc[r] \in Over => step[r] >= Target

(* Steps and collectives of two ranks differ as their updates do, and no    *)
(* rank is more than one collective ahead of another one.                   *)
ClockInv ==
  \A q, r \in Ranks :
    /\ step[q] + U(r) + In(pc[r]) = step[r] + U(q) + In(pc[q])
    /\ calls[q] + 2 * U(r) + Off(pc[r]) = calls[r] + 2 * U(q) + Off(pc[q])
    /\ calls[q] <= calls[r] + 1
    /\ pc[q] \in Free => calls[q] <= calls[r]

(* Randomness: what a rank has drawn and what its parameters contain.       *)
Past(label) == IF label \in {"gather", "reduce", "split"} THEN 1 ELSE 0
Between(label) == IF label \in {"ordinary", "mean"} THEN 1 ELSE 0

RngInv ==
  \A r \in Ranks :
    rng[r] = IF SeededDraws THEN U(r) + Past(pc[r])
                            ELSE 2 * U(r) + 2 * Past(pc[r]) + Between(pc[r])

NoiseOf(n, m) == IF SeededDraws THEN <<"seed", n>> ELSE <<"stream", 2 * m>>

NoiseInv ==
  \A r \in Ranks : pc[r] \in {"gather", "reduce", "ordinary", "mean", "split"} =>
    noise[r] = NoiseOf(step[r], U(r))

(* Shares of ranks that are at least as far as a rank that waits for them.  *)
ShareOf(q, n, m) == [rank |-> q, step |-> n, noise |-> NoiseOf(n, m), base |-> m]

ShardInv ==
  \A q, r \in Ranks : pc[r] = "reduce" /\ calls[q] >= calls[r] =>
    shard[q] = ShareOf(q, step[r], U(r))

(* Two ranks as far as each other agree; a rank that is one ahead has done  *)
(* with the present contributions what the other one is about to do.        *)
Shards == {shard[q] : q \in Ranks}

AgreeInv ==
  \A q, r \in Ranks :
    /\ Folded(q) = Folded(r) => tracker[q] = tracker[r]
    /\ Folded(q) = Folded(r) + 1 => tracker[q] = Updated(tracker[r])
    /\ U(q) = U(r) => mean[q] = mean[r]
    /\ U(q) = U(r) + 1 => mean[q] = Append(mean[r], Shards)

(* The passes of the split path.                                            *)
PassInv ==
  /\ DOMAIN passes = {"ordinary", "mean"}
  /\ \A r \in Ranks :
       /\ pc[r] = "ordinary" => IsAnchor(step[r])
       /\ pc[r] = "mean" =>
            passes.ordinary = IF IsAnchor(step[r]) THEN Pass(r) ELSE None
       /\ pc[r] = "split" =>
            passes.ordinary = IF IsAnchor(step[r]) THEN passes.mean ELSE None

(* What is saved of a rank is what it holds when all have stopped.          *)
SaveInv ==
  /\ \A r \in Ranks : pc[r] \in Over => bundle[r].rng = rng[r]
  /\ file # None => \A r \in Ranks :
       file.ranks[r].rng = IF SeededDraws THEN Len(file.mean) ELSE 2 * Len(file.mean)

(* With growing schedules the loop variable counts the updates.             *)
TrueModel(m) ==
  \A k \in 1 .. Len(m) : m[k] = {ShareOf(q, k, k - 1) : q \in Ranks}

GrowInv ==
  /\ \A r \in Ranks : /\ step[r] = U(r) + In(pc[r]) /\ step[r] <= Target
                      /\ TrueModel(mean[r])
  /\ file # None => /\ file.step = Len(file.mean) /\ file.step <= Target
                    /\ TrueModel(file.mean)

IInv ==
  /\ Typed /\ PathInv /\ ClockInv /\ RngInv /\ NoiseInv /\ ShardInv /\ AgreeInv
  /\ PassInv /\ SaveInv

-----------------------------------------------------------------------------
LEMMA SettingFacts ==
  ASSUME setting \in Settings
  PROVE  /\ World \in Nat /\ World > 0 /\ World <= BatchSize
         /\ Ranks = 1 .. World /\ Primary \in Ranks
         /\ Objective \in {"sampled", "split"}
         /\ Objective = "split" => Ranks = {1}
         /\ Schedule \in Schedules
         /\ \A k \in DOMAIN Schedule : Schedule[k] \in Nat /\ Schedule[k] > 0
<1>1. setting \in Setting /\ (setting.objective = "split" => setting.world = 1)
  BY TrainingConstants
<1>2. /\ World \in 1 .. BatchSize /\ Objective \in {"sampled", "split"}
      /\ Schedule \in Schedules /\ BatchSize \in Nat
  BY <1>1, TrainingConstants DEF Setting, World, Objective, Schedule
<1>3. \A k \in DOMAIN Schedule : Schedule[k] \in Nat \ {0}
  BY <1>2, TrainingConstants, LenProperties, ElementOfSeq
<1>4. World \in Nat /\ World > 0 /\ World <= BatchSize /\ Ranks = 1 .. World
  BY <1>2 DEF Ranks
<1>5. Objective = "split" => Ranks = {1}
  BY <1>1, <1>4 DEF Objective, World
<1>6. Primary \in Ranks
  BY <1>4 DEF Primary
<1> QED
  BY <1>2, <1>3, <1>4, <1>5, <1>6

LEMMA SettingKept ==
  ASSUME setting' = setting
  PROVE  /\ World' = World /\ Ranks' = Ranks /\ Objective' = Objective
         /\ Schedule' = Schedule /\ Duplicates' = Duplicates /\ SeededDraws' = SeededDraws
         /\ RefreshInterval' = RefreshInterval /\ LocalSize' = LocalSize
         /\ (run' = run => Target' = Target)
BY DEF World, Ranks, Objective, Schedule, Duplicates, SeededDraws, RefreshInterval,
       LocalSize, Target

LEMMA ModelLength ==
  ASSUME Typed, NEW r \in Ranks
  PROVE  mean[r] \in Models /\ U(r) \in Nat
BY LenProperties DEF Typed, RankTyped, Models, U

LEMMA TargetType ==
  ASSUME Typed
  PROVE  Target \in Nat /\ Target > 0
BY SettingFacts DEF Typed, Target

(* Rank r moves by a step in which it completes no more than it should.     *)
LEMMA ClockMoves ==
  ASSUME Typed, ClockInv, RankTyped', setting' = setting, NEW r \in Ranks,
         \A q \in Ranks \ {r} : /\ pc'[q] = pc[q] /\ step'[q] = step[q]
                                /\ calls'[q] = calls[q] /\ mean'[q] = mean[q],
         U(r)' \in Nat,
         step'[r] + U(r) + In(pc[r]) = step[r] + U(r)' + In(pc'[r]),
         calls'[r] + 2 * U(r) + Off(pc[r]) = calls[r] + 2 * U(r)' + Off(pc'[r]),
         calls'[r] = calls[r] \/ (calls'[r] = calls[r] + 1 /\ AllEntered(r)),
         pc'[r] \in Free => \A q \in Ranks : calls'[r] <= calls[q]
  PROVE  ClockInv'
<1>1. Ranks' = Ranks
  BY SettingKept
<1>2. \A q \in Ranks : U(q) \in Nat /\ calls[q] \in Nat /\ step[q] \in Nat
  BY ModelLength DEF Typed, RankTyped
<1>3. \A q \in Ranks : q # r => U(q)' = U(q)
  BY DEF U
<1>4. calls'[r] \in Nat /\ step'[r] \in Nat
  BY <1>1 DEF RankTyped
<1>5. \A x : In(x) \in {0, 1} /\ Off(x) \in {0, 1, 2}
  BY DEF In, Off
<1>6. ASSUME NEW q \in Ranks, NEW p \in Ranks
      PROVE  /\ step'[q] + U(p)' + In(pc'[p]) = step'[p] + U(q)' + In(pc'[q])
             /\ calls'[q] + 2 * U(p)' + Off(pc'[p]) = calls'[p] + 2 * U(q)' + Off(pc'[q])
  <2>1. CASE q = r /\ p = r
    BY <2>1
  <2>2. CASE q = r /\ p # r
    <3>1. /\ step[r] + U(p) + In(pc[p]) = step[p] + U(r) + In(pc[r])
          /\ calls[r] + 2 * U(p) + Off(pc[p]) = calls[p] + 2 * U(r) + Off(pc[r])
      BY DEF ClockInv
    <3> QED
      BY <1>2, <1>3, <1>4, <1>5, <2>2, <3>1
  <2>3. CASE q # r /\ p = r
    <3>1. /\ step[q] + U(r) + In(pc[r]) = step[r] + U(q) + In(pc[q])
          /\ calls[q] + 2 * U(r) + Off(pc[r]) = calls[r] + 2 * U(q) + Off(pc[q])
      BY DEF ClockInv
    <3> QED
      BY <1>2, <1>3, <1>4, <1>5, <2>3, <3>1
  <2>4. CASE q # r /\ p # r
    BY <1>3, <2>4 DEF ClockInv
  <2> QED
    BY <2>1, <2>2, <2>3, <2>4
<1>7. ASSUME NEW q \in Ranks, NEW p \in Ranks
      PROVE  /\ calls'[q] <= calls'[p] + 1
             /\ pc'[q] \in Free => calls'[q] <= calls'[p]
  <2>1. CASE q = r /\ p = r
    BY <1>4, <2>1
  <2>2. CASE q = r /\ p # r
    <3>1. calls[r] <= calls[p] + 1 /\ (AllEntered(r) => calls[r] <= calls[p])
      BY <1>2 DEF ClockInv, AllEntered
    <3> QED
      BY <1>2, <1>4, <2>2, <3>1
  <2>3. CASE q # r /\ p = r
    <3>1. calls[q] <= calls[r] + 1 /\ (pc[q] \in Free => calls[q] <= calls[r])
      BY DEF ClockInv
    <3> QED
      BY <1>2, <1>4, <2>3, <3>1
  <2>4. CASE q # r /\ p # r
    BY <2>4 DEF ClockInv
  <2> QED
    BY <2>1, <2>2, <2>3, <2>4
<1> QED
  BY <1>1, <1>6, <1>7 DEF ClockInv

-----------------------------------------------------------------------------
(* Where the other ranks are when one enters an update or leaves a          *)
(* collective.                                                              *)
LEMMA Labels ==
  \A x \in PCs :
    /\ In(x) \in {0, 1} /\ Off(x) \in {0, 1, 2}
    /\ In(x) = 1 <=> x \in Busy
    /\ Off(x) = 0 => x \in Free
    /\ Off(x) = 1 => x \in {"gather", "collect"}
    /\ Off(x) = 2 => x \in {"reduce", "barrier", "done"}
BY DEF In, Off, Busy, Free, PCs

LEMMA Attributes ==
  ASSUME Typed, NEW q \in Ranks
  PROVE  /\ U(q) \in Nat /\ step[q] \in Nat /\ calls[q] \in Nat /\ pc[q] \in PCs
         /\ rng[q] \in Nat
BY ModelLength DEF Typed, RankTyped

LEMMA Pair ==
  ASSUME Typed, ClockInv, NEW q \in Ranks, NEW r \in Ranks
  PROVE  /\ step[q] + U(r) + In(pc[r]) = step[r] + U(q) + In(pc[q])
         /\ calls[q] + 2 * U(r) + Off(pc[r]) = calls[r] + 2 * U(q) + Off(pc[q])
         /\ calls[q] <= calls[r] + 1 /\ calls[r] <= calls[q] + 1
         /\ pc[q] \in Free => calls[q] <= calls[r]
         /\ pc[r] \in Free => calls[r] <= calls[q]
         /\ U(q) \in Nat /\ step[q] \in Nat /\ calls[q] \in Nat /\ pc[q] \in PCs
         /\ U(r) \in Nat /\ step[r] \in Nat /\ calls[r] \in Nat /\ pc[r] \in PCs
BY Attributes DEF ClockInv

(* All have finished the same update.                                       *)
LEMMA AtForward ==
  ASSUME alive, Typed, PathInv, ClockInv, NEW r \in Ranks, pc[r] = "forward", NEW q \in Ranks
  PROVE  \/ U(q) = U(r) /\ pc[q] \notin {"reduce", "barrier", "done"}
         \/ U(q) + 1 = U(r) /\ pc[q] = "reduce"
<1>1. In(pc[r]) = 1 /\ Off(pc[r]) = 0 /\ pc[r] \in Free /\ step[r] <= Target /\ Target \in Nat
  BY TargetType DEF In, Off, Free, PCs, Busy, PathInv
<1>2. calls[q] = calls[r] \/ calls[q] = calls[r] + 1
  <2>1. /\ calls[r] <= calls[q] /\ calls[q] <= calls[r] + 1
        /\ calls[q] \in Nat /\ calls[r] \in Nat
    BY <1>1, Pair
  <2> QED
    BY <2>1
<1>3. 2 * U(q) + Off(pc[q]) = 2 * U(r) \/ 2 * U(q) + Off(pc[q]) = 2 * U(r) + 1
  BY <1>1, <1>2, Pair, Labels
<1>4. pc[q] \in {"barrier", "done"} => step[q] >= Target /\ In(pc[q]) = 0
  BY DEF PathInv, Over, In, Busy
<1>5. pc[q] \in {"barrier", "done"} => Off(pc[q]) = 2
  BY DEF Off
<1>6. pc[q] \notin {"barrier", "done"}
  BY <1>1, <1>3, <1>4, <1>5, Pair
<1>7. Off(pc[q]) \in {0, 1, 2} /\ (Off(pc[q]) = 2 => pc[q] = "reduce")
      /\ (pc[q] = "reduce" => Off(pc[q]) = 2)
  BY <1>6, Pair, Labels DEF Off
<1>8. U(q) \in Nat /\ U(r) \in Nat
  BY Pair
<1> QED
  BY <1>3, <1>6, <1>7, <1>8

(* All have contributed to the gather of the same update.                   *)
LEMMA AtGather ==
  ASSUME alive, Typed, PathInv, ClockInv, NEW r \in Ranks, pc[r] = "gather", AllEntered(r),
         NEW q \in Ranks
  PROVE  U(q) = U(r) /\ pc[q] \in {"gather", "reduce"} /\ step[q] = step[r]
         /\ (pc[q] = "gather" => calls[q] = calls[r])
         /\ (pc[q] = "reduce" => calls[q] = calls[r] + 1)
<1>1. In(pc[r]) = 1 /\ Off(pc[r]) = 1 /\ step[r] <= Target /\ Target \in Nat
  BY TargetType DEF In, Off, Busy, PathInv
<1>2. calls[q] >= calls[r]
  BY DEF AllEntered
<1>3. calls[q] = calls[r] \/ (calls[q] = calls[r] + 1 /\ pc[q] \notin Free)
  <2>1. /\ calls[q] <= calls[r] + 1 /\ calls[q] \in Nat /\ calls[r] \in Nat
        /\ pc[q] \in Free => calls[q] <= calls[r]
    BY Pair
  <2> QED
    BY <1>2, <2>1
<1>4. \/ 2 * U(q) + Off(pc[q]) = 2 * U(r) + 1
      \/ 2 * U(q) + Off(pc[q]) = 2 * U(r) + 2 /\ pc[q] \notin Free
  BY <1>1, <1>3, Pair, Labels
<1>5. Off(pc[q]) \in {1, 2} /\ U(q) = U(r)
  BY <1>4, Pair, Labels
<1>6. pc[q] \in {"gather", "collect", "reduce", "barrier", "done"}
  BY <1>5, Pair, Labels
<1>7. pc[q] \in {"collect", "barrier", "done"} => step[q] >= Target /\ In(pc[q]) = 0
  BY DEF PathInv, Over, In, Busy
<1>8. pc[q] \in {"gather", "reduce"}
  BY <1>1, <1>5, <1>6, <1>7, Pair
<1>9. In(pc[q]) = 1 /\ (pc[q] = "gather" => Off(pc[q]) = 1) /\ (pc[q] = "reduce" => Off(pc[q]) = 2)
  BY <1>8 DEF In, Off, Busy
<1>10. /\ step[q] + U(r) + 1 = step[r] + U(q) + 1 /\ step[q] \in Nat /\ step[r] \in Nat
       /\ calls[q] + 2 * U(r) + 1 = calls[r] + 2 * U(q) + Off(pc[q])
       /\ calls[q] \in Nat /\ calls[r] \in Nat /\ U(q) \in Nat /\ U(r) \in Nat
  BY <1>1, <1>9, Pair
<1> QED
  BY <1>5, <1>8, <1>9, <1>10

(* All have contributed to the sum of the same update.                      *)
LEMMA AtReduce ==
  ASSUME alive, Typed, PathInv, ClockInv, NEW r \in Ranks, pc[r] = "reduce", AllEntered(r),
         NEW q \in Ranks
  PROVE  \/ U(q) = U(r) /\ pc[q] = "reduce"
         \/ U(q) = U(r) + 1 /\ pc[q] \notin {"reduce", "barrier", "done"}
<1>1. In(pc[r]) = 1 /\ Off(pc[r]) = 2 /\ step[r] <= Target /\ Target \in Nat
  BY TargetType DEF In, Off, Busy, PathInv
<1>2. calls[q] >= calls[r]
  BY DEF AllEntered
<1>3. calls[q] = calls[r] \/ (calls[q] = calls[r] + 1 /\ pc[q] \notin Free)
  <2>1. /\ calls[q] <= calls[r] + 1 /\ calls[q] \in Nat /\ calls[r] \in Nat
        /\ pc[q] \in Free => calls[q] <= calls[r]
    BY Pair
  <2> QED
    BY <1>2, <2>1
<1>4. \/ 2 * U(q) + Off(pc[q]) = 2 * U(r) + 2
      \/ 2 * U(q) + Off(pc[q]) = 2 * U(r) + 3 /\ pc[q] \notin Free
  BY <1>1, <1>3, Pair, Labels
<1>5. pc[q] \in {"barrier", "done"} => step[q] >= Target /\ In(pc[q]) = 0 /\ Off(pc[q]) = 2
  BY DEF PathInv, Over, In, Off, Busy
<1>6. pc[q] \notin {"barrier", "done"}
  BY <1>1, <1>4, <1>5, Pair
<1>7. /\ Off(pc[q]) \in {0, 1, 2} /\ (Off(pc[q]) = 2 => pc[q] = "reduce")
      /\ (pc[q] = "reduce" => Off(pc[q]) = 2)
  BY <1>6, Pair, Labels DEF Off
<1> QED
  BY <1>4, <1>6, <1>7, Pair

(* All have left the loop after the same update.                            *)
LEMMA AtCollect ==
  ASSUME alive, Typed, PathInv, ClockInv, NEW r \in Ranks, pc[r] = "collect", AllEntered(r),
         NEW q \in Ranks
  PROVE  U(q) = U(r) /\ pc[q] \in {"collect", "barrier"}
<1>1. /\ In(pc[r]) = 0 /\ Off(pc[r]) = 1 /\ step[r] >= Target /\ Target \in Nat
  BY TargetType DEF In, Off, Busy, PathInv, Over
<1>2. calls[q] >= calls[r]
  BY DEF AllEntered
<1>3. calls[q] = calls[r] \/ (calls[q] = calls[r] + 1 /\ pc[q] \notin Free)
  <2>1. /\ calls[q] <= calls[r] + 1 /\ calls[q] \in Nat /\ calls[r] \in Nat
        /\ pc[q] \in Free => calls[q] <= calls[r]
    BY Pair
  <2> QED
    BY <1>2, <2>1
<1>4. \/ 2 * U(q) + Off(pc[q]) = 2 * U(r) + 1
      \/ 2 * U(q) + Off(pc[q]) = 2 * U(r) + 2 /\ pc[q] \notin Free
  BY <1>1, <1>3, Pair, Labels
<1>5. Off(pc[q]) \in {1, 2} /\ U(q) = U(r)
  BY <1>4, Pair, Labels
<1>6. pc[q] \in {"gather", "collect", "reduce", "barrier", "done"}
  BY <1>5, Pair, Labels
<1>7. pc[q] \in {"gather", "reduce"} => step[q] <= Target /\ In(pc[q]) = 1
  BY DEF PathInv, In, Busy
<1>8. pc[q] \notin {"gather", "reduce"}
  BY <1>1, <1>5, <1>7, Pair
<1>9. pc[q] # "done"
  BY <1>4, <1>5, Pair DEF Off, Free
<1> QED
  BY <1>5, <1>6, <1>8, <1>9

-----------------------------------------------------------------------------
LEMMA ShareTyped ==
  ASSUME setting \in Settings, NEW q \in Ranks, NEW n \in Nat, NEW m \in Nat
  PROVE  ShareOf(q, n, m) \in Share
<1>1. q \in Nat
  BY SettingFacts
<1>2. NoiseOf(n, m) \in Noises
  BY DEF NoiseOf, Noises
<1> QED
  BY <1>1, <1>2 DEF ShareOf, Share

(* The model after an update.                                               *)
LEMMA ModelGrows ==
  ASSUME Typed, NEW r \in Ranks, NEW S \in SUBSET Share, mean' = [mean EXCEPT ![r] = Append(@, S)]
  PROVE  /\ mean' \in [Ranks -> Models] /\ U(r)' = U(r) + 1
         /\ mean'[r] = Append(mean[r], S)
         /\ \A q \in Ranks : q # r => mean'[q] = mean[q] /\ U(q)' = U(q)
<1>1. mean \in [Ranks -> Models] /\ mean[r] \in Seq(SUBSET Share)
  BY DEF Typed, RankTyped, Models
<1>2. Append(mean[r], S) \in Models /\ Len(Append(mean[r], S)) = Len(mean[r]) + 1
  BY <1>1, AppendProperties DEF Models
<1>3. mean'[r] = Append(mean[r], S) /\ \A q \in Ranks : q # r => mean'[q] = mean[q]
  BY <1>1
<1>4. mean' \in [Ranks -> Models]
  BY <1>1, <1>2
<1> QED
  BY <1>2, <1>3, <1>4 DEF U

LEMMA SharesAtReduce ==
  ASSUME Typed, ShardInv, NEW r \in Ranks, pc[r] = "reduce", AllEntered(r)
  PROVE  /\ \A q \in Ranks : shard[q] = ShareOf(q, step[r], U(r))
         /\ Shards \in SUBSET Share
<1>1. \A q \in Ranks : shard[q] = ShareOf(q, step[r], U(r))
  BY DEF ShardInv, AllEntered
<1>2. \A q \in Ranks : ShareOf(q, step[r], U(r)) \in Share
  BY ShareTyped, Attributes DEF Typed
<1> QED
  BY <1>1, <1>2 DEF Shards

LEMMA GradientIs ==
  ASSUME Typed, NoiseInv, NEW r \in Ranks, pc[r] \in {"gather", "split"}
  PROVE  Gradient(r) = ShareOf(r, step[r], U(r)) /\ Gradient(r) \in Share
<1>1. Gradient(r) = ShareOf(r, step[r], U(r))
  BY DEF Gradient, NoiseInv, ShareOf, U
<1> QED
  BY <1>1, ShareTyped, Attributes DEF Typed

LEMMA FileKept ==
  ASSUME FileTyped, UNCHANGED <<file, setting>>
  PROVE  FileTyped'
BY SettingKept DEF FileTyped

(* A step of a rank leaves the setting and the run alone.                   *)
LEMMA SameTraining ==
  ASSUME NEW r \in Ranks, RankStep(r)
  PROVE  setting' = setting /\ run' = run /\ tape' = tape /\ alive' = alive
BY DEF RankStep, NextBatch, Forward, Gather, Reduce, SplitSample, OrdinaryPass, MeanPass,
       SplitUpdate, Finish, Collect, Leave, history

LEMMA TypedRankStep ==
  ASSUME Typed, PathInv, ClockInv, NoiseInv, ShardInv, SaveInv, NEW r \in Ranks, RankStep(r)
  PROVE  Typed'
<1> USE DEF Goto, Enter, history
<1>0. alive /\ alive'
  BY SameTraining DEF RankStep
<1>1. setting' \in Settings /\ run' \in DOMAIN Schedule' /\ Ranks' = Ranks
  BY SameTraining, SettingKept DEF Typed
<1>2. /\ pc \in [Ranks -> PCs] /\ step \in [Ranks -> Nat] /\ calls \in [Ranks -> Nat]
      /\ rng \in [Ranks -> Nat] /\ mean \in [Ranks -> Models]
      /\ DOMAIN tracker = Ranks /\ DOMAIN bundle = Ranks /\ DOMAIN shard = Ranks
      /\ DOMAIN noise = Ranks
  BY DEF Typed, RankTyped
<1>3. ASSUME NEW x \in PCs
      PROVE  [pc EXCEPT ![r] = x] \in [Ranks -> PCs]
  BY <1>2
<1>4. /\ [step EXCEPT ![r] = @ + 1] \in [Ranks -> Nat]
      /\ [calls EXCEPT ![r] = @ + 1] \in [Ranks -> Nat]
      /\ [rng EXCEPT ![r] = @ + 1] \in [Ranks -> Nat]
      /\ [rng EXCEPT ![r] = AfterNoise(r)] \in [Ranks -> Nat]
      /\ [rng EXCEPT ![r] = AfterNoise(r) + 1] \in [Ranks -> Nat]
  BY <1>2 DEF AfterNoise
<1>5. PCs = {"loop", "forward", "gather", "reduce", "ordinary", "mean", "split", "collect",
             "barrier", "done"}
  BY DEF PCs
<1>6. file' = file => FileTyped'
  BY FileKept, SameTraining DEF Typed
<1>7. CASE NextBatch(r)
  <2>1. RankTyped'
    BY <1>1, <1>2, <1>3, <1>4, <1>5, <1>7 DEF NextBatch, RankTyped
  <2> QED
    BY <1>1, <1>6, <1>7, <2>1 DEF NextBatch, Typed
<1>8. CASE Forward(r)
  <2>1. RankTyped'
    BY <1>1, <1>2, <1>3, <1>4, <1>5, <1>8 DEF Forward, RankTyped
  <2> QED
    BY <1>1, <1>6, <1>8, <2>1 DEF Forward, Typed
<1>9. CASE Gather(r)
  <2>1. RankTyped'
    BY <1>1, <1>2, <1>3, <1>4, <1>5, <1>9 DEF Gather, RankTyped
  <2> QED
    BY <1>1, <1>6, <1>9, <2>1 DEF Gather, Typed
<1>10. CASE Reduce(r)
  <2>1. mean' \in [Ranks -> Models]
    BY <1>10, ModelGrows, SharesAtReduce DEF Reduce, Shards
  <2>2. RankTyped'
    BY <1>1, <1>2, <1>3, <1>5, <1>10, <2>1 DEF Reduce, RankTyped
  <2> QED
    BY <1>1, <1>6, <1>10, <2>2 DEF Reduce, Typed
<1>11. CASE SplitSample(r)
  <2>1. pc' \in [Ranks -> PCs]
    BY <1>3, <1>5, <1>11 DEF SplitSample
  <2>2. RankTyped'
    BY <1>1, <1>2, <1>4, <1>11, <2>1 DEF SplitSample, RankTyped
  <2> QED
    BY <1>1, <1>6, <1>11, <2>2 DEF SplitSample, Typed
<1>12. CASE OrdinaryPass(r)
  <2>1. RankTyped'
    BY <1>1, <1>2, <1>3, <1>5, <1>12 DEF OrdinaryPass, RankTyped
  <2> QED
    BY <1>1, <1>6, <1>12, <2>1 DEF OrdinaryPass, Typed
<1>13. CASE MeanPass(r)
  <2>1. RankTyped'
    BY <1>1, <1>2, <1>3, <1>4, <1>5, <1>13 DEF MeanPass, RankTyped
  <2> QED
    BY <1>1, <1>6, <1>13, <2>1 DEF MeanPass, Typed
<1>14. CASE SplitUpdate(r)
  <2>1. {Gradient(r)} \in SUBSET Share
    BY <1>14, GradientIs DEF SplitUpdate
  <2>2. mean' \in [Ranks -> Models]
    BY <1>14, <2>1, ModelGrows DEF SplitUpdate
  <2>3. RankTyped'
    BY <1>1, <1>2, <1>3, <1>5, <1>14, <2>2 DEF SplitUpdate, RankTyped
  <2> QED
    BY <1>1, <1>6, <1>14, <2>3 DEF SplitUpdate, Typed
<1>15. CASE Finish(r)
  <2>1. RankTyped'
    BY <1>1, <1>2, <1>3, <1>4, <1>5, <1>15 DEF Finish, RankTyped
  <2> QED
    BY <1>1, <1>6, <1>15, <2>1 DEF Finish, Typed
<1>16. CASE Collect(r)
  <2>1. RankTyped'
    BY <1>1, <1>2, <1>3, <1>4, <1>5, <1>16 DEF Collect, RankTyped
  <2>2. CASE r = Primary
    <3>1. file' = Checkpoint
      BY <1>16, <2>2 DEF Collect
    <3>2. \A q \in Ranks : bundle[q].rng \in Nat
      BY <1>0, <1>2, <1>16, AtCollect DEF Collect, SaveInv, Over
    <3>3. Checkpoint.step \in Nat /\ Checkpoint.mean \in Models /\ Checkpoint.ranks = bundle
      BY <1>2, TargetType, SettingFacts DEF Checkpoint, Typed
    <3> QED
      BY <1>1, <2>1, <3>1, <3>2, <3>3 DEF Typed, FileTyped
  <2>3. CASE r # Primary
    BY <1>1, <1>6, <1>16, <2>1, <2>3 DEF Collect, Typed
  <2> QED
    BY <2>2, <2>3
<1>17. CASE Leave(r)
  <2>1. RankTyped'
    BY <1>1, <1>2, <1>3, <1>5, <1>17 DEF Leave, RankTyped
  <2> QED
    BY <1>1, <1>6, <1>17, <2>1 DEF Leave, Typed
<1> QED
  BY <1>7, <1>8, <1>9, <1>10, <1>11, <1>12, <1>13, <1>14, <1>15, <1>16, <1>17 DEF RankStep

-----------------------------------------------------------------------------
(* A step of a rank moves no other rank.                                    *)
LEMMA OthersKept ==
  ASSUME Typed, NEW r \in Ranks, RankStep(r), NEW q \in Ranks, q # r
  PROVE  /\ pc'[q] = pc[q] /\ step'[q] = step[q] /\ calls'[q] = calls[q] /\ rng'[q] = rng[q]
         /\ mean'[q] = mean[q] /\ U(q)' = U(q) /\ noise'[q] = noise[q]
         /\ shard'[q] = shard[q] /\ tracker'[q] = tracker[q] /\ bundle'[q] = bundle[q]
<1> USE DEF Goto, Enter, history
<1>1. /\ pc \in [Ranks -> PCs] /\ step \in [Ranks -> Nat] /\ calls \in [Ranks -> Nat]
      /\ rng \in [Ranks -> Nat] /\ mean \in [Ranks -> Models]
      /\ DOMAIN tracker = Ranks /\ DOMAIN bundle = Ranks /\ DOMAIN shard = Ranks
      /\ DOMAIN noise = Ranks
  BY DEF Typed, RankTyped
<1>2. CASE NextBatch(r) \/ Finish(r) \/ Leave(r)
  BY <1>1, <1>2 DEF NextBatch, Finish, Leave, U
<1>3. CASE Forward(r) \/ Gather(r)
  BY <1>1, <1>3 DEF Forward, Gather, U
<1>4. CASE Reduce(r) \/ SplitUpdate(r)
  BY <1>1, <1>4 DEF Reduce, SplitUpdate, U
<1>5. CASE SplitSample(r) \/ OrdinaryPass(r) \/ MeanPass(r)
  BY <1>1, <1>5 DEF SplitSample, OrdinaryPass, MeanPass, U
<1>6. CASE Collect(r)
  BY <1>1, <1>6 DEF Collect, U
<1> QED
  BY <1>2, <1>3, <1>4, <1>5, <1>6 DEF RankStep

(* What a step does to the clocks of the rank that takes it.                *)
Moves(r, from, to, steps, entered, updates) ==
  /\ pc[r] = from /\ pc'[r] = to
  /\ step'[r] = step[r] + steps /\ calls'[r] = calls[r] + entered
  /\ U(r)' = U(r) + updates

LEMMA RankMoves ==
  ASSUME Typed, PathInv, NoiseInv, ShardInv, NEW r \in Ranks, RankStep(r)
  PROVE  \/ NextBatch(r) /\ Moves(r, "loop", "forward", 1, 0, 0) /\ step[r] < Target
         \/ Forward(r) /\ Moves(r, "forward", "gather", 0, 1, 0)
         \/ Gather(r) /\ Moves(r, "gather", "reduce", 0, 1, 0) /\ AllEntered(r)
         \/ Reduce(r) /\ Moves(r, "reduce", "loop", 0, 0, 1) /\ AllEntered(r)
         \/ SplitSample(r) /\ (\E to \in {"ordinary", "mean"} : Moves(r, "forward", to, 0, 0, 0))
         \/ OrdinaryPass(r) /\ Moves(r, "ordinary", "mean", 0, 0, 0)
         \/ MeanPass(r) /\ Moves(r, "mean", "split", 0, 0, 0)
         \/ SplitUpdate(r) /\ Moves(r, "split", "loop", 0, 0, 1)
         \/ Finish(r) /\ Moves(r, "loop", "collect", 0, 1, 0) /\ step[r] >= Target
         \/ Collect(r) /\ Moves(r, "collect", "barrier", 0, 1, 0) /\ AllEntered(r)
         \/ Leave(r) /\ Moves(r, "barrier", "done", 0, 0, 0) /\ AllEntered(r)
<1> USE DEF Goto, Enter, history, Moves
<1>1. /\ pc \in [Ranks -> PCs] /\ step \in [Ranks -> Nat] /\ calls \in [Ranks -> Nat]
      /\ U(r) \in Nat
  BY Attributes DEF Typed, RankTyped
<1>2. CASE NextBatch(r)
  BY <1>1, <1>2 DEF NextBatch, U
<1>3. CASE Forward(r)
  BY <1>1, <1>3 DEF Forward, U
<1>4. CASE Gather(r)
  BY <1>1, <1>4 DEF Gather, U
<1>5. CASE Reduce(r)
  <2>1. U(r)' = U(r) + 1
    BY <1>5, ModelGrows, SharesAtReduce DEF Reduce, Shards
  <2> QED
    BY <1>1, <1>5, <2>1 DEF Reduce
<1>6. CASE SplitSample(r)
  BY <1>1, <1>6 DEF SplitSample, U
<1>7. CASE OrdinaryPass(r)
  BY <1>1, <1>7 DEF OrdinaryPass, U
<1>8. CASE MeanPass(r)
  BY <1>1, <1>8 DEF MeanPass, U
<1>9. CASE SplitUpdate(r)
  <2>1. {Gradient(r)} \in SUBSET Share
    BY <1>9, GradientIs DEF SplitUpdate
  <2>2. U(r)' = U(r) + 1
    BY <1>9, <2>1, ModelGrows DEF SplitUpdate
  <2> QED
    BY <1>1, <1>9, <2>2 DEF SplitUpdate
<1>10. CASE Finish(r)
  BY <1>1, <1>10 DEF Finish, U
<1>11. CASE Collect(r)
  BY <1>1, <1>11 DEF Collect, U
<1>12. CASE Leave(r)
  BY <1>1, <1>12 DEF Leave, U
<1> QED
  BY <1>2, <1>3, <1>4, <1>5, <1>6, <1>7, <1>8, <1>9, <1>10, <1>11, <1>12 DEF RankStep

LEMMA PathRankStep ==
  ASSUME Typed, PathInv, NoiseInv, ShardInv, NEW r \in Ranks, RankStep(r)
  PROVE  PathInv'
<1>0. alive /\ alive'
  BY SameTraining DEF RankStep
<1>1. /\ Ranks' = Ranks /\ Objective' = Objective /\ Target' = Target
  BY SameTraining, SettingKept
<1>2. /\ step[r] \in Nat /\ Target \in Nat /\ pc[r] \in PCs
  BY Attributes, TargetType
<1>3. /\ Objective = "sampled" => pc'[r] \notin {"ordinary", "mean", "split"}
      /\ Objective = "split" => pc'[r] \notin {"gather", "reduce"}
  <2>1. SplitSample(r) => Objective = "split"
    BY DEF SplitSample
  <2>2. Forward(r) => Objective = "sampled"
    BY DEF Forward
  <2> QED
    BY <2>1, <2>2, RankMoves DEF Moves, PathInv
<1>4. /\ pc'[r] \in Busy => step'[r] <= Target
      /\ pc'[r] \in Over => step'[r] >= Target
  BY <1>0, <1>2, RankMoves DEF Moves, PathInv, Busy, Over
<1>5. ASSUME NEW q \in Ranks
      PROVE  /\ Objective = "sampled" => pc'[q] \notin {"ordinary", "mean", "split"}
             /\ Objective = "split" => pc'[q] \notin {"gather", "reduce"}
             /\ alive' /\ pc'[q] \in Busy => step'[q] <= Target
             /\ alive' /\ pc'[q] \in Over => step'[q] >= Target
  <2>1. CASE q = r
    BY <1>3, <1>4, <2>1
  <2>2. CASE q # r
    BY <1>0, <2>2, OthersKept DEF PathInv
  <2> QED
    BY <2>1, <2>2
<1> QED
  BY <1>1, <1>5 DEF PathInv

(* A move that keeps step and collectives in proportion, waits if it leaves *)
(* a collective, and enters one if it counts one.                           *)
LEMMA ClockByMove ==
  ASSUME Typed, PathInv, ClockInv, NoiseInv, ShardInv, SaveInv, NEW r \in Ranks, RankStep(r),
         NEW from \in PCs, NEW to \in PCs, NEW n \in Nat, NEW e \in {0, 1}, NEW u \in Nat,
         Moves(r, from, to, n, e, u),
         n + In(from) = u + In(to), e + Off(from) = 2 * u + Off(to),
         from \notin Free => AllEntered(r),
         e = 1 => to \notin Free
  PROVE  ClockInv'
<1>1. /\ RankTyped' /\ setting' = setting
      /\ \A q \in Ranks \ {r} : /\ pc'[q] = pc[q] /\ step'[q] = step[q]
                                /\ calls'[q] = calls[q] /\ mean'[q] = mean[q]
  BY TypedRankStep, SameTraining, OthersKept DEF Typed
<1>2. U(r) \in Nat /\ step[r] \in Nat /\ calls[r] \in Nat
  BY Attributes
<1>3. \A q \in Ranks : calls[q] \in Nat /\ (pc[r] \in Free => calls[r] <= calls[q])
  BY Attributes DEF ClockInv
<1>4. /\ pc[r] = from /\ pc'[r] = to
      /\ step'[r] = step[r] + n /\ calls'[r] = calls[r] + e /\ U(r)' = U(r) + u
  BY DEF Moves
<1>5. /\ In(from) \in Nat /\ In(to) \in Nat /\ Off(from) \in Nat /\ Off(to) \in Nat
  BY Labels
<1>6. U(r)' \in Nat
  BY <1>2, <1>4
<1>7. PICK a, b, c, d : a = In(from) /\ b = In(to) /\ c = Off(from) /\ d = Off(to)
  OBVIOUS
<1>8. step'[r] + U(r) + In(pc[r]) = step[r] + U(r)' + In(pc'[r])
  <2>1. step[r] + n + U(r) + a = step[r] + (U(r) + u) + b
    BY <1>2, <1>5, <1>7
  <2> QED
    BY <1>4, <1>7, <2>1
<1>9. calls'[r] + 2 * U(r) + Off(pc[r]) = calls[r] + 2 * U(r)' + Off(pc'[r])
  <2>1. calls[r] + e + 2 * U(r) + c = calls[r] + 2 * (U(r) + u) + d
    BY <1>2, <1>5, <1>7
  <2> QED
    BY <1>4, <1>7, <2>1
<1>10. \A q \in Ranks : calls[r] <= calls[q]
  BY <1>3, <1>4 DEF AllEntered
<1>11. pc'[r] \in Free => \A q \in Ranks : calls'[r] <= calls[q]
  BY <1>2, <1>4, <1>10
<1>12. calls'[r] = calls[r] \/ (calls'[r] = calls[r] + 1 /\ AllEntered(r))
  BY <1>2, <1>4, <1>10 DEF AllEntered
<1> QED
  BY <1>1, <1>6, <1>8, <1>9, <1>11, <1>12, ClockMoves

LEMMA ClockRankStep ==
  ASSUME Typed, PathInv, ClockInv, NoiseInv, ShardInv, SaveInv, NEW r \in Ranks, RankStep(r)
  PROVE  ClockInv'
<1>1. CASE Objective = "sampled"
  <2>1. /\ In("loop") = 0 /\ In("forward") = 1 /\ In("gather") = 1 /\ In("reduce") = 1
        /\ In("collect") = 0 /\ In("barrier") = 0 /\ In("done") = 0
        /\ Off("loop") = 0 /\ Off("forward") = 0 /\ Off("gather") = 1 /\ Off("reduce") = 2
        /\ Off("collect") = 1 /\ Off("barrier") = 2 /\ Off("done") = 2
    BY DEF In, Off, Busy
  <2>2. /\ "loop" \in Free /\ "forward" \in Free /\ "done" \in Free
        /\ "gather" \notin Free /\ "reduce" \notin Free
        /\ "collect" \notin Free /\ "barrier" \notin Free
    BY DEF Free, PCs
  <2>3. /\ "loop" \in PCs /\ "forward" \in PCs /\ "gather" \in PCs /\ "reduce" \in PCs
        /\ "collect" \in PCs /\ "barrier" \in PCs /\ "done" \in PCs
    BY DEF PCs
  <2>4. ~SplitSample(r) /\ ~OrdinaryPass(r) /\ ~MeanPass(r) /\ ~SplitUpdate(r)
    BY <1>1 DEF SplitSample, OrdinaryPass, MeanPass, SplitUpdate, PathInv
  <2>5. CASE Moves(r, "loop", "forward", 1, 0, 0)
    BY <2>1, <2>2, <2>3, <2>5, ClockByMove
  <2>6. CASE Moves(r, "forward", "gather", 0, 1, 0)
    BY <2>1, <2>2, <2>3, <2>6, ClockByMove
  <2>7. CASE Moves(r, "gather", "reduce", 0, 1, 0) /\ AllEntered(r)
    BY <2>1, <2>2, <2>3, <2>7, ClockByMove
  <2>8. CASE Moves(r, "reduce", "loop", 0, 0, 1) /\ AllEntered(r)
    BY <2>1, <2>2, <2>3, <2>8, ClockByMove
  <2>9. CASE Moves(r, "loop", "collect", 0, 1, 0)
    BY <2>1, <2>2, <2>3, <2>9, ClockByMove
  <2>10. CASE Moves(r, "collect", "barrier", 0, 1, 0) /\ AllEntered(r)
    BY <2>1, <2>2, <2>3, <2>10, ClockByMove
  <2>11. CASE Moves(r, "barrier", "done", 0, 0, 0) /\ AllEntered(r)
    BY <2>1, <2>2, <2>3, <2>11, ClockByMove
  <2> QED
    BY <2>4, <2>5, <2>6, <2>7, <2>8, <2>9, <2>10, <2>11, RankMoves
<1>2. CASE Objective = "split"
  <2>1. Ranks' = {r} /\ Ranks = {r}
    BY <1>2, SameTraining, SettingFacts, SettingKept DEF Typed
  <2>2. step'[r] \in Nat /\ calls'[r] \in Nat /\ U(r)' \in Nat
    <3>1. U(r) \in Nat /\ step[r] \in Nat /\ calls[r] \in Nat
      BY Attributes
    <3> QED
      BY <3>1, RankMoves DEF Moves
  <2>3. In(pc'[r]) \in Nat /\ Off(pc'[r]) \in Nat
    BY DEF In, Off
  <2> QED
    BY <2>1, <2>2, <2>3 DEF ClockInv
<1> QED
  BY <1>1, <1>2, SettingFacts DEF Typed

LEMMA RngRankStep ==
  ASSUME Typed, PathInv, NoiseInv, ShardInv, RngInv, NEW r \in Ranks, RankStep(r)
  PROVE  RngInv'
<1>1. Ranks' = Ranks /\ SeededDraws' = SeededDraws
  BY SameTraining, SettingKept
<1>2. /\ U(r) \in Nat /\ rng \in [Ranks -> Nat] /\ rng[r] \in Nat
  BY Attributes DEF Typed, RankTyped
<1>3. rng[r] = IF SeededDraws THEN U(r) + Past(pc[r])
                              ELSE 2 * U(r) + 2 * Past(pc[r]) + Between(pc[r])
  BY DEF RngInv
<1>4. /\ Past("loop") = 0 /\ Past("forward") = 0 /\ Past("ordinary") = 0 /\ Past("mean") = 0
      /\ Past("gather") = 1 /\ Past("reduce") = 1 /\ Past("split") = 1
      /\ Past("collect") = 0 /\ Past("barrier") = 0 /\ Past("done") = 0
      /\ Between("loop") = 0 /\ Between("forward") = 0
      /\ Between("ordinary") = 1 /\ Between("mean") = 1
      /\ Between("gather") = 0 /\ Between("reduce") = 0 /\ Between("split") = 0
      /\ Between("collect") = 0 /\ Between("barrier") = 0 /\ Between("done") = 0
  BY DEF Past, Between
<1>5. rng'[r] = IF SeededDraws THEN U(r)' + Past(pc'[r])
                               ELSE 2 * U(r)' + 2 * Past(pc'[r]) + Between(pc'[r])
  <2> USE DEF Moves, history
  <2>1. CASE Forward(r) /\ Moves(r, "forward", "gather", 0, 1, 0)
    BY <1>2, <1>3, <1>4, <2>1 DEF Forward, AfterNoise
  <2>2. CASE SplitSample(r) /\ (\E to \in {"ordinary", "mean"} : Moves(r, "forward", to, 0, 0, 0))
    BY <1>2, <1>3, <1>4, <2>2 DEF SplitSample, AfterNoise
  <2>3. CASE MeanPass(r) /\ Moves(r, "mean", "split", 0, 0, 0)
    BY <1>2, <1>3, <1>4, <2>3 DEF MeanPass
  <2>4. CASE NextBatch(r) /\ Moves(r, "loop", "forward", 1, 0, 0)
    BY <1>2, <1>3, <1>4, <2>4 DEF NextBatch
  <2>5. CASE Gather(r) /\ Moves(r, "gather", "reduce", 0, 1, 0)
    BY <1>2, <1>3, <1>4, <2>5 DEF Gather
  <2>6. CASE Reduce(r) /\ Moves(r, "reduce", "loop", 0, 0, 1)
    BY <1>2, <1>3, <1>4, <2>6 DEF Reduce
  <2>7. CASE OrdinaryPass(r) /\ Moves(r, "ordinary", "mean", 0, 0, 0)
    BY <1>2, <1>3, <1>4, <2>7 DEF OrdinaryPass
  <2>8. CASE SplitUpdate(r) /\ Moves(r, "split", "loop", 0, 0, 1)
    BY <1>2, <1>3, <1>4, <2>8 DEF SplitUpdate
  <2>9. CASE Finish(r) /\ Moves(r, "loop", "collect", 0, 1, 0)
    BY <1>2, <1>3, <1>4, <2>9 DEF Finish
  <2>10. CASE Collect(r) /\ Moves(r, "collect", "barrier", 0, 1, 0)
    BY <1>2, <1>3, <1>4, <2>10 DEF Collect
  <2>11. CASE Leave(r) /\ Moves(r, "barrier", "done", 0, 0, 0)
    BY <1>2, <1>3, <1>4, <2>11 DEF Leave
  <2> HIDE DEF Moves
  <2> QED
    BY <2>1, <2>2, <2>3, <2>4, <2>5, <2>6, <2>7, <2>8, <2>9, <2>10, <2>11, RankMoves
<1>6. ASSUME NEW q \in Ranks, q # r
      PROVE  rng'[q] = IF SeededDraws THEN U(q)' + Past(pc'[q])
                       ELSE 2 * U(q)' + 2 * Past(pc'[q]) + Between(pc'[q])
  BY <1>6, OthersKept DEF RngInv
<1> QED
  BY <1>1, <1>5, <1>6 DEF RngInv

(* The draw is the one of the step, whatever the rank.                      *)
LEMMA NextNoiseIs ==
  ASSUME Typed, RngInv, NEW r \in Ranks, pc[r] = "forward"
  PROVE  NextNoise(r) = NoiseOf(step[r], U(r))
<1>1. U(r) \in Nat /\ Past(pc[r]) = 0 /\ Between(pc[r]) = 0
  BY Attributes DEF Past, Between
<1>2. ~SeededDraws => rng[r] = 2 * U(r)
  BY <1>1 DEF RngInv
<1> QED
  BY <1>2 DEF NextNoise, NoiseOf

LEMMA NoiseRankStep ==
  ASSUME Typed, PathInv, ShardInv, RngInv, NoiseInv, NEW r \in Ranks, RankStep(r)
  PROVE  NoiseInv'
<1>1. Ranks' = Ranks /\ SeededDraws' = SeededDraws
  BY SameTraining, SettingKept
<1>2. U(r) \in Nat /\ step[r] \in Nat /\ DOMAIN noise = Ranks
  BY Attributes DEF Typed, RankTyped
<1>3. pc[r] \in {"gather", "reduce", "ordinary", "mean", "split"} =>
        noise[r] = NoiseOf(step[r], U(r))
  BY DEF NoiseInv
<1>4. pc'[r] \in {"gather", "reduce", "ordinary", "mean", "split"} =>
        noise'[r] = NoiseOf(step'[r], U(r)')
  <2> USE DEF Moves, history
  <2>1. CASE Forward(r) /\ Moves(r, "forward", "gather", 0, 1, 0)
    <3>1. noise'[r] = NoiseOf(step[r], U(r))
      BY <1>2, <2>1, NextNoiseIs DEF Forward
    <3> QED
      BY <1>2, <2>1, <3>1
  <2>2. CASE SplitSample(r) /\ (\E to \in {"ordinary", "mean"} : Moves(r, "forward", to, 0, 0, 0))
    <3>1. noise'[r] = NoiseOf(step[r], U(r))
      BY <1>2, <2>2, NextNoiseIs DEF SplitSample
    <3> QED
      BY <1>2, <2>2, <3>1
  <2>3. CASE MeanPass(r) /\ Moves(r, "mean", "split", 0, 0, 0)
    BY <1>2, <1>3, <2>3 DEF MeanPass
  <2>4. CASE Gather(r) /\ Moves(r, "gather", "reduce", 0, 1, 0)
    BY <1>2, <1>3, <2>4 DEF Gather
  <2>5. CASE OrdinaryPass(r) /\ Moves(r, "ordinary", "mean", 0, 0, 0)
    BY <1>2, <1>3, <2>5 DEF OrdinaryPass
  <2>6. CASE pc'[r] \notin {"gather", "reduce", "ordinary", "mean", "split"}
    BY <2>6
  <2> QED
    BY <2>1, <2>2, <2>3, <2>4, <2>5, <2>6, RankMoves
<1>5. ASSUME NEW q \in Ranks, q # r,
             pc'[q] \in {"gather", "reduce", "ordinary", "mean", "split"}
      PROVE  noise'[q] = NoiseOf(step'[q], U(q)')
  BY <1>5, OthersKept DEF NoiseInv
<1>6. ASSUME NEW q \in Ranks, pc'[q] \in {"gather", "reduce", "ordinary", "mean", "split"}
      PROVE  noise'[q] = NoiseOf(step[q], U(q))'
  <2>1. noise'[q] = NoiseOf(step'[q], U(q)')
    BY <1>4, <1>5, <1>6
  <2> QED
    BY <1>1, <2>1 DEF NoiseOf
<1> QED
  BY <1>1, <1>6 DEF NoiseInv

LEMMA ShardRankStep ==
  ASSUME Typed, PathInv, ClockInv, NoiseInv, ShardInv, NEW p \in Ranks, RankStep(p)
  PROVE  ShardInv'
<1>0. alive /\ alive'
  BY SameTraining DEF RankStep
<1>1. Ranks' = Ranks /\ SeededDraws' = SeededDraws
  BY SameTraining, SettingKept
<1>2. /\ DOMAIN shard = Ranks
      /\ \A q \in Ranks : U(q) \in Nat /\ step[q] \in Nat /\ calls[q] \in Nat
  BY Attributes DEF Typed, RankTyped
<1>3. CASE Gather(p) /\ Moves(p, "gather", "reduce", 0, 1, 0) /\ AllEntered(p)
  <2>1. /\ pc[p] = "gather" /\ step'[p] = step[p] /\ U(p)' = U(p)
        /\ calls'[p] = calls[p] + 1
    BY <1>2, <1>3 DEF Moves
  <2>2. shard'[p] = ShareOf(p, step[p], U(p))
    BY <1>2, <1>3, <2>1, GradientIs DEF Gather
  <2>3. ASSUME NEW q \in Ranks, NEW r \in Ranks, pc'[r] = "reduce", calls'[q] >= calls'[r]
        PROVE  shard'[q] = ShareOf(q, step'[r], U(r)')
    <3>1. step'[r] = step[p] /\ U(r)' = U(p)
      BY <1>0, <1>3, <2>1, <2>3, AtGather, OthersKept
    <3>2. CASE q = p
      BY <2>2, <3>1, <3>2
    <3>3. CASE q # p
      <4>1. shard'[q] = shard[q] /\ calls'[q] = calls[q] /\ pc'[q] = pc[q]
        BY <3>3, OthersKept
      <4>2. /\ step[q] = step[p] /\ U(q) = U(p)
            /\ (pc[q] = "gather" => calls[q] = calls[p])
            /\ (pc[q] = "reduce" => calls[q] = calls[p] + 1)
            /\ pc[q] \in {"gather", "reduce"}
        BY <1>0, <1>3, <2>1, AtGather
      <4>3. pc[q] = "reduce" => shard[q] = ShareOf(q, step[q], U(q))
        BY <1>2 DEF ShardInv
      <4>4. pc[q] = "gather" => FALSE
        <5>1. CASE r = p
          BY <1>2, <2>1, <2>3, <4>1, <4>2, <5>1
        <5>2. CASE r # p
          <6>1. calls'[r] = calls[r] /\ pc'[r] = pc[r]
            BY <5>2, OthersKept
          <6>2. calls[r] = calls[p] + 1
            BY <1>0, <1>3, <2>1, <2>3, <6>1, AtGather
          <6> QED
            BY <1>2, <2>1, <2>3, <4>1, <4>2, <6>1, <6>2
        <5> QED
          BY <5>1, <5>2
      <4> QED
        BY <3>1, <4>1, <4>2, <4>3, <4>4
    <3> QED
      BY <3>2, <3>3
  <2> QED
    BY <1>1, <2>3 DEF ShardInv, ShareOf, NoiseOf
<1>4. CASE pc[p] # "gather"
  <2>1. shard' = shard /\ pc'[p] # "reduce"
    BY <1>4, RankMoves DEF Moves, RankStep, NextBatch, Forward, Gather, Reduce, SplitSample,
       OrdinaryPass, MeanPass, SplitUpdate, Finish, Collect, Leave
  <2>2. ASSUME NEW q \in Ranks, NEW r \in Ranks, pc'[r] = "reduce", calls'[q] >= calls'[r]
        PROVE  shard'[q] = ShareOf(q, step'[r], U(r)')
    <3>1. r # p
      BY <2>1, <2>2
    <3>2. pc[r] = "reduce" /\ step'[r] = step[r] /\ U(r)' = U(r) /\ calls'[r] = calls[r]
      BY <2>2, <3>1, OthersKept
    <3>3. calls[q] >= calls[r] => shard'[q] = ShareOf(q, step'[r], U(r)')
      BY <2>1, <3>2 DEF ShardInv
    <3>4. CASE q # p
      BY <2>2, <3>2, <3>3, <3>4, OthersKept
    <3>5. CASE q = p /\ calls'[p] = calls[p]
      BY <2>2, <3>2, <3>3, <3>5
    <3>6. CASE q = p /\ calls'[p] # calls[p]
      <4>1. \/ pc[p] \in {"forward", "loop"} /\ calls'[p] = calls[p] + 1
            \/ pc[p] = "collect" /\ calls'[p] = calls[p] + 1 /\ AllEntered(p)
        <5>1. calls[p] \in Nat
          BY <1>2
        <5> QED
          BY <1>4, <3>6, <5>1, RankMoves DEF Moves
      <4>2. CASE pc[p] \in {"forward", "loop"}
        <5>1. Off(pc[p]) = 0 /\ Off(pc[r]) = 2
          BY <3>2, <4>2 DEF Off
        <5>2. calls[p] + 2 * U(r) + 2 = calls[r] + 2 * U(p)
          BY <1>2, <5>1, Pair
        <5> QED
          BY <1>2, <2>2, <3>2, <3>3, <3>6, <4>1, <4>2, <5>2
      <4>3. CASE pc[p] = "collect" /\ AllEntered(p)
        BY <1>0, <3>2, <4>3, AtCollect
      <4> QED
        BY <4>1, <4>2, <4>3
    <3> QED
      BY <3>4, <3>5, <3>6
  <2> QED
    BY <1>1, <2>2 DEF ShardInv, ShareOf, NoiseOf
<1> QED
  BY <1>3, <1>4, RankMoves DEF Moves

LEMMA PassRankStep ==
  ASSUME Typed, PathInv, NoiseInv, ShardInv, PassInv, NEW r \in Ranks, RankStep(r)
  PROVE  PassInv'
<1>1. Ranks' = Ranks /\ RefreshInterval' = RefreshInterval
  BY SameTraining, SettingKept
<1>2. CASE Objective = "sampled"
  <2>1. passes' = passes
    BY <1>2 DEF RankStep, NextBatch, Forward, Gather, Reduce, SplitSample, OrdinaryPass,
       MeanPass, SplitUpdate, Finish, Collect, Leave, PathInv
  <2>2. PathInv' /\ Objective' = Objective
    BY PathRankStep, SameTraining, SettingKept
  <2>3. \A q \in Ranks : pc'[q] \notin {"ordinary", "mean", "split"}
    BY <1>1, <1>2, <2>2 DEF PathInv
  <2> QED
    BY <1>1, <2>1, <2>3 DEF PassInv
<1>3. CASE Objective = "split"
  <2>1. Ranks' = {r} /\ Ranks = {r}
    BY <1>1, <1>3, SettingFacts DEF Typed
  <2>2. DOMAIN passes = {"ordinary", "mean"}
    BY DEF PassInv
  <2>3. /\ pc[r] = "ordinary" => IsAnchor(step[r])
        /\ pc[r] = "mean" =>
             passes.ordinary = IF IsAnchor(step[r]) THEN Pass(r) ELSE None
        /\ pc[r] = "split" =>
             passes.ordinary = IF IsAnchor(step[r]) THEN passes.mean ELSE None
    BY DEF PassInv
  <2>4. PassInv'  <=>
          /\ DOMAIN passes' = {"ordinary", "mean"}
          /\ pc'[r] = "ordinary" => IsAnchor(step'[r])
          /\ pc'[r] = "mean" =>
               passes'.ordinary = IF IsAnchor(step'[r]) THEN Pass(r)' ELSE None
          /\ pc'[r] = "split" =>
               passes'.ordinary = IF IsAnchor(step'[r]) THEN passes'.mean ELSE None
    BY <1>1, <2>1 DEF PassInv, IsAnchor
  <2>5. CASE SplitSample(r) /\ (\E to \in {"ordinary", "mean"} : Moves(r, "forward", to, 0, 0, 0))
    <3>1. /\ passes' = NoPasses /\ step'[r] = step[r]
          /\ pc'[r] = IF IsAnchor(step[r]) THEN "ordinary" ELSE "mean"
      BY <2>5 DEF SplitSample, Goto, Typed, RankTyped
    <3> QED
      BY <2>4, <3>1 DEF NoPasses
  <2>6. CASE OrdinaryPass(r) /\ Moves(r, "ordinary", "mean", 0, 0, 0)
    <3>1. /\ passes' = [passes EXCEPT !.ordinary = Pass(r)] /\ step'[r] = step[r]
          /\ noise' = noise /\ rng' = rng /\ mean' = mean /\ pc'[r] = "mean"
      BY <2>6 DEF OrdinaryPass, Moves
    <3>2. Pass(r)' = Pass(r) /\ IsAnchor(step[r])
      BY <2>3, <2>6, <3>1 DEF Pass, OrdinaryPass
    <3> QED
      BY <2>2, <2>4, <3>1, <3>2
  <2>7. CASE MeanPass(r) /\ Moves(r, "mean", "split", 0, 0, 0)
    <3>1. /\ passes' = [passes EXCEPT !.mean = Pass(r)] /\ step'[r] = step[r]
          /\ pc[r] = "mean" /\ pc'[r] = "split"
      BY <2>7 DEF MeanPass, Moves
    <3> QED
      BY <2>2, <2>3, <2>4, <3>1
  <2>8. CASE passes' = passes /\ pc'[r] \notin {"ordinary", "mean", "split"}
    BY <2>2, <2>4, <2>8
  <2>9. pc'[r] \in {"ordinary", "mean", "split"} \/ passes' = passes
    BY RankMoves DEF Moves, NextBatch, Forward, Gather, Reduce, SplitUpdate, Finish, Collect,
       Leave
  <2> QED
    BY <2>5, <2>6, <2>7, <2>8, <2>9, RankMoves DEF Moves
<1> QED
  BY <1>2, <1>3, SettingFacts DEF Typed

LEMMA SaveRankStep ==
  ASSUME Typed, PathInv, ClockInv, NoiseInv, ShardInv, RngInv, SaveInv,
         NEW r \in Ranks, RankStep(r)
  PROVE  SaveInv'
<1>0. alive /\ alive'
  BY SameTraining DEF RankStep
<1>1. Ranks' = Ranks /\ SeededDraws' = SeededDraws
  BY SameTraining, SettingKept
<1>2. DOMAIN bundle = Ranks /\ rng \in [Ranks -> Nat]
  BY DEF Typed, RankTyped
<1>3. pc'[r] \in Over => bundle'[r].rng = rng'[r]
  <2>1. CASE Finish(r)
    BY <1>2, <2>1 DEF Finish
  <2>2. CASE Collect(r) \/ Leave(r)
    BY <2>2 DEF Collect, Leave, SaveInv, Over, history
  <2>3. CASE pc'[r] \notin Over
    BY <2>3
  <2> QED
    BY <2>1, <2>2, <2>3, RankMoves DEF Moves, Over
<1>4. \A q \in Ranks : pc'[q] \in Over => bundle'[q].rng = rng'[q]
  BY <1>3, OthersKept DEF SaveInv
<1>5. file' # None => \A q \in Ranks :
        file'.ranks[q].rng = IF SeededDraws THEN Len(file'.mean) ELSE 2 * Len(file'.mean)
  <2>1. CASE file' = file
    BY <2>1 DEF SaveInv
  <2>2. CASE Collect(r) /\ r = Primary /\ AllEntered(r)
    <3>1. file'.mean = mean[r] /\ file'.ranks = bundle
      BY <2>2 DEF Collect, Checkpoint
    <3>2. ASSUME NEW q \in Ranks
          PROVE  bundle[q].rng = IF SeededDraws THEN U(r) ELSE 2 * U(r)
      <4>1. U(q) = U(r) /\ pc[q] \in {"collect", "barrier"} /\ U(q) \in Nat
        BY <1>0, <2>2, AtCollect, Attributes DEF Collect
      <4>2. bundle[q].rng = rng[q] /\ Past(pc[q]) = 0 /\ Between(pc[q]) = 0
        BY <4>1 DEF SaveInv, Over, Past, Between
      <4> QED
        BY <4>1, <4>2 DEF RngInv
    <3> QED
      BY <3>1, <3>2 DEF U
  <2> QED
    BY <2>1, <2>2 DEF RankStep, NextBatch, Forward, Gather, Reduce, SplitSample, OrdinaryPass,
       MeanPass, SplitUpdate, Finish, Collect, Leave, history
<1> QED
  BY <1>1, <1>4, <1>5 DEF SaveInv

-----------------------------------------------------------------------------
(* Agreement.  Where the collectives let a rank act, all have folded in the *)
(* same updates, or are one apart.                                          *)
LEMMA FoldedIs ==
  ASSUME NEW r \in Ranks
  PROVE  /\ pc[r] = "reduce" => Folded(r) = U(r) + 1
         /\ (pc[r] # "reduce" /\ U(r) \in Nat) => Folded(r) = U(r)
         /\ pc'[r] = "reduce" => Folded(r)' = U(r)' + 1
         /\ (pc'[r] # "reduce" /\ U(r)' \in Nat) => Folded(r)' = U(r)'
<1>1. /\ Folded(r) = U(r) + (IF pc[r] = "reduce" THEN 1 ELSE 0)
      /\ Folded(r)' = U(r)' + (IF pc'[r] = "reduce" THEN 1 ELSE 0)
  BY DEF Folded, U
<1> QED
  BY <1>1

LEMMA FoldedAtForward ==
  ASSUME alive, Typed, PathInv, ClockInv, NEW r \in Ranks, pc[r] = "forward", NEW q \in Ranks
  PROVE  Folded(q) = U(r)
<1>1. U(q) \in Nat /\ U(r) \in Nat
  BY Attributes
<1> QED
  BY <1>1, AtForward, FoldedIs

LEMMA FoldedAtReduce ==
  ASSUME alive, Typed, PathInv, ClockInv, NEW r \in Ranks, pc[r] = "reduce", AllEntered(r),
         NEW q \in Ranks
  PROVE  Folded(q) = U(r) + 1
<1>1. U(q) \in Nat /\ U(r) \in Nat
  BY Attributes
<1> QED
  BY <1>1, AtReduce, FoldedIs

(* What the contributions are folded into does not change them.             *)
LEMMA UpdatedKept ==
  ASSUME UNCHANGED <<sent, setting>>, NEW r
  PROVE  Updated(tracker[r])' = Updated(tracker'[r])
BY SettingKept DEF Updated, Duplicates

LEMMA AgreeForward ==
  ASSUME Typed, PathInv, ClockInv, NoiseInv, ShardInv, AgreeInv, NEW p \in Ranks,
         RankStep(p), Forward(p)
  PROVE  AgreeInv'
<1>0. alive /\ alive'
  BY SameTraining DEF RankStep
<1>1. /\ Ranks' = Ranks /\ pc[p] = "forward" /\ mean' = mean /\ tracker' = tracker
      /\ shard' = shard /\ pc'[p] = "gather"
  BY SameTraining, SettingKept DEF Forward, Goto, Typed, RankTyped
<1>2. \A q \in Ranks : Folded(q)' = U(p) /\ U(q)' = U(q) /\ U(q) \in Nat
  <2>1. \A q \in Ranks : Folded(q) = U(p) /\ U(q) \in Nat
    BY <1>0, <1>1, FoldedAtForward, Attributes
  <2>2. \A q \in Ranks : Folded(q)' = Folded(q) /\ U(q)' = U(q)
    BY <1>1, OthersKept DEF Folded, U
  <2> QED
    BY <2>1, <2>2
<1>3. \A q, r \in Ranks : tracker[q] = tracker[r]
  BY <1>0, <1>1, FoldedAtForward DEF AgreeInv
<1>4. Shards' = Shards
  BY <1>1 DEF Shards
<1>5. ASSUME NEW q \in Ranks, NEW r \in Ranks
      PROVE  /\ tracker'[q] = tracker'[r]
             /\ Folded(q)' # Folded(r)' + 1
             /\ U(q)' = U(r)' => mean'[q] = mean'[r]
             /\ U(q)' = U(r)' + 1 => mean'[q] = Append(mean'[r], Shards')
  BY <1>1, <1>2, <1>3, <1>4 DEF AgreeInv
<1> QED
  BY <1>1, <1>5 DEF AgreeInv

LEMMA AgreeGather ==
  ASSUME Typed, PathInv, ClockInv, NoiseInv, ShardInv, AgreeInv, NEW p \in Ranks,
         RankStep(p), Gather(p)
  PROVE  AgreeInv'
<1>0. alive /\ alive'
  BY SameTraining DEF RankStep
<1>1. /\ Ranks' = Ranks /\ pc[p] = "gather" /\ AllEntered(p) /\ pc'[p] = "reduce"
      /\ mean' = mean /\ sent' = sent /\ setting' = setting
      /\ tracker'[p] = Updated(tracker[p])
      /\ \A q \in Ranks : q # p => tracker'[q] = tracker[q]
  BY SameTraining, SettingKept, OthersKept DEF Gather, Goto, Typed, RankTyped
<1>2. \A q \in Ranks : U(q)' = U(p) /\ U(q) = U(p) /\ U(p) \in Nat
  BY <1>0, <1>1, AtGather, Attributes DEF U
<1>3. /\ Folded(p) = U(p) /\ Folded(p)' = U(p) + 1
      /\ \A q \in Ranks : q # p => Folded(q)' = Folded(q) /\ Folded(q) \in {U(p), U(p) + 1}
  <2>1. Folded(p) = U(p) /\ Folded(p)' = U(p) + 1
    BY <1>1, <1>2, FoldedIs
  <2>2. \A q \in Ranks : q # p => Folded(q)' = Folded(q)
    BY <1>1, OthersKept DEF Folded
  <2>3. \A q \in Ranks : Folded(q) \in {U(p), U(p) + 1}
    BY <1>2, FoldedIs
  <2> QED
    BY <2>1, <2>2, <2>3
<1>4. ASSUME NEW q \in Ranks, NEW r \in Ranks
      PROVE  /\ Folded(q)' = Folded(r)' => tracker'[q] = tracker'[r]
             /\ Folded(q)' = Folded(r)' + 1 => tracker'[q] = Updated(tracker[r])'
             /\ mean'[q] = mean'[r]
             /\ U(q)' # U(r)' + 1
  <2>1. Updated(tracker[r])' = Updated(tracker'[r])
    BY <1>1, UpdatedKept
  <2>2. mean'[q] = mean'[r] /\ U(q)' # U(r)' + 1
    BY <1>1, <1>2 DEF AgreeInv
  <2>3. CASE q = p /\ r = p
    BY <1>2, <1>3, <2>2, <2>3
  <2>4. CASE q = p /\ r # p
    BY <1>1, <1>2, <1>3, <2>1, <2>2, <2>4 DEF AgreeInv
  <2>5. CASE q # p /\ r = p
    BY <1>1, <1>2, <1>3, <2>1, <2>2, <2>5 DEF AgreeInv
  <2>6. CASE q # p /\ r # p
    BY <1>1, <1>2, <1>3, <2>1, <2>2, <2>6 DEF AgreeInv
  <2> QED
    BY <2>3, <2>4, <2>5, <2>6
<1> QED
  BY <1>1, <1>4 DEF AgreeInv

LEMMA AgreeReduce ==
  ASSUME Typed, PathInv, ClockInv, NoiseInv, ShardInv, AgreeInv, NEW p \in Ranks,
         RankStep(p), Reduce(p)
  PROVE  AgreeInv'
<1>0. alive /\ alive'
  BY SameTraining DEF RankStep
<1>1. /\ Ranks' = Ranks /\ pc[p] = "reduce" /\ AllEntered(p) /\ pc'[p] = "loop"
      /\ tracker' = tracker /\ shard' = shard
      /\ mean' = [mean EXCEPT ![p] = Append(@, Shards)]
  BY SameTraining, SettingKept DEF Reduce, Goto, Typed, RankTyped, Shards
<1>2. Shards \in SUBSET Share
  BY <1>1, SharesAtReduce
<1>3. /\ U(p)' = U(p) + 1 /\ mean'[p] = Append(mean[p], Shards)
      /\ \A q \in Ranks : q # p => mean'[q] = mean[q] /\ U(q)' = U(q)
  BY <1>1, <1>2, ModelGrows
<1>4. \A q \in Ranks : U(q) \in Nat /\ U(q) \in {U(p), U(p) + 1}
  BY <1>0, <1>1, AtReduce, Attributes
<1>5. \A q \in Ranks : Folded(q) = U(p) + 1 /\ Folded(q)' = U(p) + 1
  <2>1. \A q \in Ranks : Folded(q) = U(p) + 1
    BY <1>0, <1>1, FoldedAtReduce
  <2>2. Folded(p)' = U(p) + 1
    BY <1>1, <1>3, <1>4, FoldedIs
  <2>3. \A q \in Ranks : q # p => Folded(q)' = Folded(q)
    BY <1>1, OthersKept DEF Folded
  <2> QED
    BY <2>1, <2>2, <2>3
<1>6. Shards' = Shards
  BY <1>1 DEF Shards
<1>7. ASSUME NEW q \in Ranks, NEW r \in Ranks
      PROVE  /\ tracker'[q] = tracker'[r]
             /\ Folded(q)' # Folded(r)' + 1
             /\ U(q)' = U(r)' => mean'[q] = mean'[r]
             /\ U(q)' = U(r)' + 1 => mean'[q] = Append(mean'[r], Shards')
  <2>1. tracker'[q] = tracker'[r] /\ Folded(q)' # Folded(r)' + 1
    BY <1>1, <1>4, <1>5 DEF AgreeInv
  <2>2. /\ U(q) \in Nat /\ U(r) \in Nat /\ U(p) \in Nat
        /\ U(q) \in {U(p), U(p) + 1} /\ U(r) \in {U(p), U(p) + 1}
    BY <1>4
  <2>3. CASE q = p /\ r = p
    BY <1>3, <2>1, <2>2, <2>3
  <2>4. CASE q = p /\ r # p
    <3>1. /\ U(r) = U(p) => mean[r] = mean[p]
          /\ U(r) = U(p) + 1 => mean[r] = Append(mean[p], Shards)
      BY DEF AgreeInv
    <3>2. /\ U(q)' = U(p) + 1 /\ U(r)' = U(r) /\ mean'[r] = mean[r]
          /\ mean'[q] = Append(mean[p], Shards) /\ Shards' = Shards
      BY <1>3, <1>6, <2>4
    <3>3. U(p) + 1 = U(r) => mean'[q] = mean[r]
      BY <3>1, <3>2
    <3>4. U(p) + 1 = U(r) + 1 => mean'[q] = Append(mean[r], Shards)
      <4>1. \A x, y \in Nat : x + 1 = y + 1 => y = x
        OBVIOUS
      <4>2. U(p) + 1 = U(r) + 1 => U(r) = U(p)
        BY <2>2, <4>1
      <4> QED
        BY <3>1, <3>2, <4>2
    <3> QED
      BY <2>1, <3>2, <3>3, <3>4, Zenon
  <2>5. CASE q # p /\ r = p
    <3>1. /\ U(q) = U(p) => mean[q] = mean[p]
          /\ U(q) = U(p) + 1 => mean[q] = Append(mean[p], Shards)
      BY DEF AgreeInv
    <3>2. /\ U(q)' = U(q) /\ U(r)' = U(p) + 1 /\ mean'[q] = mean[q]
          /\ mean'[r] = Append(mean[p], Shards)
      BY <1>3, <2>5
    <3>3. \A x, y \in Nat : x \in {y, y + 1} => (x = y + 1 <=> x # y) /\ x # (y + 1) + 1
      OBVIOUS
    <3>4. /\ U(q) = U(p) + 1 <=> U(q) # U(p)
          /\ U(q) # (U(p) + 1) + 1
      BY <2>2, <3>3
    <3> QED
      BY <2>1, <3>1, <3>2, <3>4, Zenon
  <2>6. CASE q # p /\ r # p
    <3>1. /\ U(q) = U(r) => mean[q] = mean[r]
          /\ U(q) = U(r) + 1 => mean[q] = Append(mean[r], Shards)
      BY DEF AgreeInv
    <3>2. /\ U(q)' = U(q) /\ U(r)' = U(r) /\ mean'[q] = mean[q] /\ mean'[r] = mean[r]
      BY <1>3, <2>6
    <3> QED
      BY <1>6, <2>1, <3>1, <3>2
  <2> QED
    BY <2>3, <2>4, <2>5, <2>6
<1> QED
  BY <1>1, <1>7 DEF AgreeInv

(* One rank agrees with itself.                                             *)
LEMMA AgreeAlone ==
  ASSUME NEW p, Ranks' = {p}, U(p)' \in Nat
  PROVE  AgreeInv'
<1>1. U(p)' # U(p)' + 1
  OBVIOUS
<1>2. Folded(p)' \in Nat
  <2>1. Folded(p)' = U(p)' + (IF pc'[p] = "reduce" THEN 1 ELSE 0)
    BY DEF Folded, U
  <2> QED
    BY <2>1
<1>3. Folded(p)' # Folded(p)' + 1
  BY <1>2
<1> QED
  BY <1>1, <1>3 DEF AgreeInv

(* The steps that neither contribute to a collective nor take from one.     *)
LEMMA AgreeStays ==
  ASSUME Typed, AgreeInv, UNCHANGED <<sent, setting, mean, tracker, shard>>,
         \A q \in Ranks : (pc'[q] = "reduce") <=> (pc[q] = "reduce")
  PROVE  AgreeInv'
<1>1. Ranks' = Ranks /\ Shards' = Shards /\ \A q \in Ranks : U(q)' = U(q)
  BY SettingKept DEF Shards, U
<1>2. \A q \in Ranks : Folded(q)' = Folded(q)
  BY DEF Folded
<1>3. \A q \in Ranks : Updated(tracker[q])' = Updated(tracker[q])
  BY UpdatedKept
<1> QED
  BY <1>1, <1>2, <1>3 DEF AgreeInv

LEMMA AgreeRankStep ==
  ASSUME Typed, PathInv, ClockInv, NoiseInv, ShardInv, AgreeInv, NEW p \in Ranks, RankStep(p)
  PROVE  AgreeInv'
<1>1. CASE Objective = "split"
  <2>1. Ranks' = {p}
    BY <1>1, SameTraining, SettingFacts, SettingKept DEF Typed
  <2>2. U(p)' \in Nat
    <3>1. U(p) \in Nat
      BY Attributes
    <3> QED
      BY <3>1, RankMoves DEF Moves
  <2> QED
    BY <2>1, <2>2, AgreeAlone
<1>2. CASE Objective = "sampled"
  <2>1. CASE Forward(p) \/ Gather(p) \/ Reduce(p)
    BY <2>1, AgreeForward, AgreeGather, AgreeReduce
  <2>2. CASE NextBatch(p) \/ Finish(p) \/ Collect(p) \/ Leave(p)
    <3>1. UNCHANGED <<sent, setting, mean, tracker, shard>>
      BY <2>2, SameTraining DEF NextBatch, Finish, Collect, Leave
    <3>2. pc[p] # "reduce" /\ pc'[p] # "reduce"
      BY <2>2 DEF NextBatch, Finish, Collect, Leave, Goto, Typed, RankTyped
    <3> QED
      BY <3>1, <3>2, AgreeStays, OthersKept
  <2>3. ~SplitSample(p) /\ ~OrdinaryPass(p) /\ ~MeanPass(p) /\ ~SplitUpdate(p)
    BY <1>2 DEF SplitSample, OrdinaryPass, MeanPass, SplitUpdate, PathInv
  <2> QED
    BY <2>1, <2>2, <2>3 DEF RankStep
<1> QED
  BY <1>1, <1>2, SettingFacts DEF Typed

-----------------------------------------------------------------------------
(* The runs.                                                                *)
LEMMA InitHolds ==
  ASSUME Init
  PROVE  IInv
<1>1. setting \in Settings /\ run = 1 /\ file = None /\ Ranks = 1 .. World
  BY SettingFacts DEF Init
<1>2. run \in DOMAIN Schedule
  <2>1. Schedule \in Seq(Nat \ {0}) /\ Schedule # <<>>
    BY <1>1, SettingFacts, TrainingConstants
  <2>2. Len(Schedule) \in Nat /\ Len(Schedule) # 0 /\ DOMAIN Schedule = 1 .. Len(Schedule)
    BY <2>1, LenProperties, EmptySeq
  <2> QED
    BY <1>1, <2>2
<1>3. <<>> \in Models /\ Len(<<>>) = 0
  BY EmptySeq DEF Models
<1>4. \A r \in Ranks : /\ pc[r] = "loop" /\ step[r] = 0 /\ calls[r] = 0 /\ rng[r] = 0
                       /\ mean[r] = <<>> /\ tracker[r] = FreshTracker
                       /\ U(r) = 0
  BY <1>3 DEF Init, Everywhere, U
<1>5. Typed
  BY <1>1, <1>2, <1>3 DEF Typed, RankTyped, FileTyped, Init, Everywhere, PCs
<1>6. PathInv
  BY <1>4 DEF PathInv, Busy, Over
<1>7. ClockInv
  BY <1>4 DEF ClockInv
<1>8. RngInv
  BY <1>4 DEF RngInv, Past, Between
<1>9. NoiseInv /\ ShardInv
  BY <1>4 DEF NoiseInv, ShardInv
<1>10. AgreeInv
  <2>1. \A r \in Ranks : Folded(r) = 0
    BY <1>4, FoldedIs
  <2> QED
    BY <1>4, <2>1 DEF AgreeInv
<1>11. PassInv
  BY <1>4 DEF PassInv, Init, NoPasses
<1>12. SaveInv
  BY <1>1, <1>4 DEF SaveInv, Over
<1> QED
  BY <1>5, <1>6, <1>7, <1>8, <1>9, <1>10, <1>11, <1>12 DEF IInv

(* Nothing moves; the run may end, or another be refused.                   *)
LEMMA Rests ==
  ASSUME IInv, UNCHANGED <<setting, pc, step, calls, sent, rng, noise, passes, shard, mean,
                           tracker, bundle, file>>,
         run' \in DOMAIN Schedule, alive' => alive /\ run' = run
  PROVE  IInv'
<1>1. /\ Ranks' = Ranks /\ SeededDraws' = SeededDraws /\ Schedule' = Schedule
      /\ RefreshInterval' = RefreshInterval /\ Objective' = Objective
      /\ alive' => Target' = Target
  BY SettingKept
<1>2. \A r \in Ranks : U(r)' = U(r) /\ Pass(r)' = Pass(r)
  BY DEF U, Pass
<1>3. Typed'
  BY <1>1 DEF IInv, Typed, RankTyped, FileTyped
<1>4. PathInv'
  BY <1>1 DEF IInv, PathInv
<1>5. ClockInv'
  BY <1>1, <1>2 DEF IInv, ClockInv
<1>6. RngInv'
  BY <1>1, <1>2 DEF IInv, RngInv
<1>7. NoiseInv' /\ ShardInv'
  BY <1>1, <1>2 DEF IInv, NoiseInv, ShardInv, ShareOf, NoiseOf
<1>8. AgreeInv'
  BY AgreeStays DEF IInv
<1>9. PassInv'
  BY <1>1, <1>2 DEF IInv, PassInv, IsAnchor
<1>10. SaveInv'
  BY <1>1 DEF IInv, SaveInv
<1> QED
  BY <1>3, <1>4, <1>5, <1>6, <1>7, <1>8, <1>9, <1>10 DEF IInv

LEMMA RunInDomain ==
  ASSUME Typed, NewRun
  PROVE  run' \in DOMAIN Schedule /\ run' = run + 1 /\ setting' = setting /\ file' = file
         /\ Schedule' = Schedule
<1>1. Schedule \in Seq(Nat \ {0})
  BY SettingFacts, TrainingConstants DEF Typed
<1>2. Len(Schedule) \in Nat /\ DOMAIN Schedule = 1 .. Len(Schedule)
  BY <1>1, LenProperties
<1> QED
  BY <1>2, SettingKept DEF Typed, NewRun

(* New processes that start from one model, one tracker and one step.       *)
LEMMA StartsTogether ==
  ASSUME IInv, NewProcesses, NEW n \in Nat, NEW m \in Models, NEW t,
         step' = Everywhere(n), mean' = Everywhere(m), tracker' = Everywhere(t),
         rng' \in [Ranks -> Nat],
         \A r \in Ranks : rng'[r] = IF SeededDraws THEN Len(m) ELSE 2 * Len(m)
  PROVE  IInv'
<1>1. run' \in DOMAIN Schedule /\ setting' = setting /\ file' = file
  BY RunInDomain DEF NewProcesses, IInv
<1>2. /\ Ranks' = Ranks /\ SeededDraws' = SeededDraws /\ Schedule' = Schedule
      /\ Objective' = Objective
  BY <1>1, SettingKept
<1>3. \A r \in Ranks : /\ pc'[r] = "loop" /\ step'[r] = n /\ calls'[r] = 0
                       /\ mean'[r] = m /\ tracker'[r] = t /\ U(r)' = Len(m)
  BY DEF NewProcesses, Everywhere, U
<1>4. Len(m) \in Nat
  BY LenProperties DEF Models
<1>5. Typed'
  <2>1. RankTyped'
    BY <1>2 DEF RankTyped, NewProcesses, Everywhere, PCs
  <2>2. FileTyped'
    BY <1>1, FileKept DEF IInv, Typed
  <2> QED
    BY <1>1, <1>2, <2>1, <2>2 DEF Typed, IInv
<1>6. PathInv'
  BY <1>2, <1>3 DEF PathInv, Busy, Over
<1>7. ClockInv'
  BY <1>2, <1>3, <1>4 DEF ClockInv
<1>8. RngInv'
  <2>1. Past("loop") = 0 /\ Between("loop") = 0
    BY DEF Past, Between
  <2> QED
    BY <1>2, <1>3, <1>4, <2>1 DEF RngInv
<1>9. NoiseInv' /\ ShardInv'
  BY <1>2, <1>3 DEF NoiseInv, ShardInv
<1>10. AgreeInv'
  <2>1. \A r \in Ranks : Folded(r)' = Len(m)
    BY <1>3, <1>4, FoldedIs
  <2> QED
    BY <1>2, <1>3, <1>4, <2>1 DEF AgreeInv
<1>11. PassInv'
  BY <1>2, <1>3 DEF PassInv, NewProcesses, NoPasses
<1>12. SaveInv'
  BY <1>1, <1>2, <1>3 DEF SaveInv, Over, IInv
<1> QED
  BY <1>5, <1>6, <1>7, <1>8, <1>9, <1>10, <1>11, <1>12 DEF IInv

LEMMA StepHolds ==
  ASSUME IInv, [Next]_vars
  PROVE  IInv'
<1>1. ASSUME NEW r \in Ranks, RankStep(r)
      PROVE  IInv'
  BY <1>1, TypedRankStep, PathRankStep, ClockRankStep, RngRankStep, NoiseRankStep,
     ShardRankStep, AgreeRankStep, PassRankStep, SaveRankStep DEF IInv
<1>2. CASE Crash
  BY <1>2, SettingKept, Rests DEF Crash, IInv, Typed
<1>3. CASE StartFresh
  <2>1. <<>> \in Models /\ Len(<<>>) = 0
    BY EmptySeq DEF Models
  <2>2. \A r \in Ranks : rng'[r] = 0
    BY <1>3 DEF StartFresh, Everywhere
  <2>3. rng' \in [Ranks -> Nat]
    BY <1>3 DEF StartFresh, Everywhere
  <2> QED
    BY <1>3, <2>1, <2>2, <2>3, StartsTogether DEF StartFresh
<1>4. CASE Resume
  <2>1. file # None /\ file.step \in Nat /\ file.mean \in Models
        /\ (\A r \in Ranks : file.ranks[r].rng \in Nat)
    BY <1>4 DEF Resume, IInv, Typed, FileTyped
  <2>2. \A r \in Ranks :
          rng'[r] = IF SeededDraws THEN Len(file.mean) ELSE 2 * Len(file.mean)
    BY <1>4, <2>1 DEF Resume, IInv, SaveInv
  <2>3. rng' \in [Ranks -> Nat]
    BY <1>4, <2>1 DEF Resume
  <2> QED
    BY <1>4, <2>1, <2>2, <2>3, StartsTogether DEF Resume
<1>5. CASE RefuseResume
  BY <1>5, RunInDomain, Rests DEF RefuseResume, IInv
<1>6. CASE UNCHANGED vars
  BY <1>6, SettingKept, Rests DEF vars, IInv, Typed
<1> QED
  BY <1>1, <1>2, <1>3, <1>4, <1>5, <1>6 DEF Next

LEMMA Invariant == Spec => []IInv
<1>1. Init => IInv
  BY InitHolds
<1>2. IInv /\ [Next]_vars => IInv'
  BY StepHolds
<1> QED
  BY <1>1, <1>2, PTL DEF Spec

(* Two ranks that reach the same step hold the same model, failure          *)
(* estimates and place in the random stream, whatever the number of ranks,  *)
(* the sequence of runs and where they crash (train.py:1119-1132).          *)
THEOREM RanksAlwaysAgree == Spec => []RanksAgree
<1>1. ASSUME IInv, NEW q \in Ranks, NEW r \in Ranks,
             pc[q] = "loop", pc[r] = "loop", step[q] = step[r]
      PROVE  mean[q] = mean[r] /\ tracker[q] = tracker[r] /\ rng[q] = rng[r]
  <2>1. U(q) = U(r) /\ U(q) \in Nat
    <3>1. In("loop") = 0
      BY DEF In, Busy
    <3>2. /\ step[q] + U(r) + In(pc[r]) = step[r] + U(q) + In(pc[q])
          /\ U(q) \in Nat /\ U(r) \in Nat /\ step[r] \in Nat
      BY <1>1, Pair DEF IInv
    <3> QED
      BY <1>1, <3>1, <3>2
  <2>2. Folded(q) = Folded(r)
    BY <1>1, <2>1, FoldedIs
  <2>3. Past("loop") = 0 /\ Between("loop") = 0
    BY DEF Past, Between
  <2>4. rng[q] = rng[r]
    BY <1>1, <2>1, <2>3 DEF IInv, RngInv
  <2> QED
    BY <1>1, <2>1, <2>2, <2>4 DEF IInv, AgreeInv
<1>2. IInv => RanksAgree
  BY <1>1 DEF RanksAgree
<1> QED
  BY <1>2, Invariant, PTL

-----------------------------------------------------------------------------
(* With growing schedules the loop variable counts the updates, and every   *)
(* update is known.                                                         *)
LEMMA ModelContinues ==
  ASSUME NEW m \in Models, TrueModel(m), NEW S,
         S = {ShareOf(q, Len(m) + 1, Len(m)) : q \in Ranks}
  PROVE  TrueModel(Append(m, S))
<1>1. m \in Seq(SUBSET Share) /\ Len(m) \in Nat
  BY LenProperties DEF Models
<1>2. m \in Seq(SUBSET Share \cup {S})
  BY <1>1
<1>3. /\ Len(Append(m, S)) = Len(m) + 1
      /\ Append(m, S)[Len(m) + 1] = S
      /\ \A k \in 1 .. Len(m) : Append(m, S)[k] = m[k]
  BY <1>1, <1>2, AppendProperties
<1>4. ASSUME NEW k \in 1 .. Len(Append(m, S))
      PROVE  Append(m, S)[k] = {ShareOf(q, k, k - 1) : q \in Ranks}
  <2>1. CASE k = Len(m) + 1
    <3>1. k - 1 = Len(m)
      BY <1>1, <2>1
    <3> QED
      BY <1>3, <2>1, <3>1
  <2>2. CASE k # Len(m) + 1
    <3>1. k \in 1 .. Len(m)
      BY <1>1, <1>3, <2>2
    <3> QED
      BY <1>3, <3>1 DEF TrueModel
  <2> QED
    BY <2>1, <2>2
<1> QED
  BY <1>4 DEF TrueModel

LEMMA TrueModelKept ==
  ASSUME setting' = setting, NEW r
  PROVE  TrueModel(mean[r])' <=> TrueModel(mean'[r])
BY SettingKept DEF TrueModel, ShareOf, NoiseOf

LEMMA FileModelKept ==
  ASSUME setting' = setting
  PROVE  TrueModel(file.mean)' <=> TrueModel(file'.mean)
BY SettingKept DEF TrueModel, ShareOf, NoiseOf

(* What a rank appends to its model is the one gradient of the step.        *)
LEMMA UpdateIs ==
  ASSUME IInv, GrowInv, NEW r \in Ranks, RankStep(r),
         NEW S, mean' = [mean EXCEPT ![r] = Append(@, S)],
         \/ Reduce(r) /\ S = Shards
         \/ SplitUpdate(r) /\ S = {Gradient(r)}
  PROVE  TrueModel(mean'[r])
<1>1. mean \in [Ranks -> Models] /\ mean[r] \in Models /\ U(r) \in Nat /\ step[r] \in Nat
  BY Attributes DEF IInv, Typed, RankTyped
<1>2. mean'[r] = Append(mean[r], S)
  BY <1>1
<1>3. step[r] = U(r) + 1
  BY <1>1 DEF GrowInv, In, Busy, Reduce, SplitUpdate
<1>4. S = {ShareOf(q, U(r) + 1, U(r)) : q \in Ranks}
  <2>1. CASE Reduce(r) /\ S = Shards
    <3>1. \A q \in Ranks : shard[q] = ShareOf(q, step[r], U(r))
      BY <2>1, SharesAtReduce DEF Reduce, IInv
    <3> QED
      BY <1>3, <2>1, <3>1 DEF Shards
  <2>2. CASE SplitUpdate(r) /\ S = {Gradient(r)}
    <3>1. Gradient(r) = ShareOf(r, step[r], U(r))
      BY <2>2, GradientIs DEF SplitUpdate, IInv
    <3>2. Objective = "split"
      BY <2>2, SettingFacts DEF SplitUpdate, IInv, PathInv, Typed
    <3>3. Ranks = {r}
      BY <3>2, SettingFacts DEF IInv, Typed
    <3> QED
      BY <1>3, <2>2, <3>1, <3>3
  <2> QED
    BY <2>1, <2>2
<1>5. TrueModel(mean[r])
  BY DEF GrowInv
<1>6. TrueModel(Append(mean[r], S))
  BY <1>1, <1>4, <1>5, ModelContinues DEF U
<1> QED
  BY <1>2, <1>6

LEMMA GrowRankStep ==
  ASSUME IInv, GrowInv, NEW r \in Ranks, RankStep(r)
  PROVE  GrowInv'
<1>1. /\ Ranks' = Ranks /\ Target' = Target /\ setting' = setting
  BY SameTraining, SettingKept
<1>2. /\ U(r) \in Nat /\ step[r] \in Nat /\ Target \in Nat
      /\ step[r] = U(r) + In(pc[r]) /\ step[r] <= Target /\ TrueModel(mean[r])
  BY Attributes, TargetType DEF IInv, GrowInv
<1>3. /\ In("loop") = 0 /\ In("forward") = 1 /\ In("gather") = 1 /\ In("reduce") = 1
      /\ In("ordinary") = 1 /\ In("mean") = 1 /\ In("split") = 1
      /\ In("collect") = 0 /\ In("barrier") = 0 /\ In("done") = 0
  BY DEF In, Busy
<1>4. step'[r] = U(r)' + In(pc'[r]) /\ step'[r] <= Target
  BY <1>2, <1>3, RankMoves DEF Moves, IInv
<1>5. TrueModel(mean'[r])
  <2>1. CASE Reduce(r) \/ SplitUpdate(r)
    BY <2>1, UpdateIs DEF Reduce, SplitUpdate, Shards
  <2>2. CASE mean' = mean
    BY <1>2, <2>2
  <2> QED
    BY <2>1, <2>2 DEF RankStep, NextBatch, Forward, Gather, SplitSample, OrdinaryPass,
       MeanPass, Finish, Collect, Leave
<1>6. \A q \in Ranks : /\ step'[q] = U(q)' + In(pc'[q]) /\ step'[q] <= Target
                       /\ TrueModel(mean'[q])
  <2>1. \A q \in Ranks : q # r =>
           /\ step'[q] = U(q)' + In(pc'[q]) /\ step'[q] <= Target /\ TrueModel(mean'[q])
    BY OthersKept DEF GrowInv, IInv
  <2> QED
    BY <1>4, <1>5, <2>1
<1>7. file' # None => /\ file'.step = Len(file'.mean) /\ file'.step <= Target
                      /\ TrueModel(file'.mean)
  <2>1. CASE file' = file
    BY <2>1 DEF GrowInv
  <2>2. CASE Collect(r) /\ r = Primary
    <3>1. file'.step = Target /\ file'.mean = mean[r]
      BY <2>2 DEF Collect, Checkpoint
    <3>2. step[r] >= Target
      BY <2>2 DEF Collect, IInv, PathInv, Over, RankStep
    <3>3. step[r] = U(r)
      BY <1>2, <1>3, <2>2 DEF Collect
    <3> QED
      BY <1>2, <3>1, <3>2, <3>3 DEF U
  <2> QED
    BY <2>1, <2>2 DEF RankStep, NextBatch, Forward, Gather, Reduce, SplitSample, OrdinaryPass,
       MeanPass, SplitUpdate, Finish, Collect, Leave, history
<1>8. (TrueModel(file.mean)' <=> TrueModel(file'.mean))
      /\ \A q \in Ranks : TrueModel(mean[q])' <=> TrueModel(mean'[q])
  BY <1>1, TrueModelKept, FileModelKept
<1> QED
  BY <1>1, <1>6, <1>7, <1>8 DEF GrowInv

LEMMA GrowNewRun ==
  ASSUME GrowingSchedules, IInv, GrowInv, NewRun
  PROVE  Target <= Target' /\ Target \in Nat /\ Target' \in Nat
<1>1. /\ run' \in DOMAIN Schedule /\ run' = run + 1 /\ setting' = setting
      /\ Schedule' = Schedule
  BY RunInDomain DEF IInv
<1>2. Schedule \in Schedules /\ Schedule \in Seq(Nat \ {0}) /\ run \in DOMAIN Schedule
  BY SettingFacts, TrainingConstants DEF IInv, Typed
<1>3. Len(Schedule) \in Nat /\ DOMAIN Schedule = 1 .. Len(Schedule)
  BY <1>2, LenProperties
<1>4. run \in 1 .. Len(Schedule) - 1
  BY <1>1, <1>2, <1>3
<1>5. Schedule[run] <= Schedule[run + 1]
  BY <1>2, <1>4 DEF GrowingSchedules
<1>6. Schedule[run] \in Nat /\ Schedule[run + 1] \in Nat
  BY <1>1, <1>2, SettingFacts DEF IInv, Typed
<1> QED
  BY <1>1, <1>5, <1>6 DEF Target

(* New processes that start where the file or the initializer stands.       *)
LEMMA GrowTogether ==
  ASSUME GrowingSchedules, IInv, GrowInv, NewProcesses, NEW m \in Models, TrueModel(m),
         Len(m) <= Target, step' = Everywhere(Len(m)), mean' = Everywhere(m)
  PROVE  GrowInv'
<1>1. setting' = setting /\ file' = file
  BY DEF NewProcesses, NewRun
<1>2. Ranks' = Ranks
  BY <1>1, SettingKept
<1>3. Len(m) \in Nat /\ In("loop") = 0
  BY LenProperties DEF Models, In, Busy
<1>4. Target <= Target' /\ Target \in Nat /\ Target' \in Nat
  BY GrowNewRun DEF NewProcesses
<1>5. \A r \in Ranks : /\ pc'[r] = "loop" /\ step'[r] = Len(m) /\ mean'[r] = m
                       /\ U(r)' = Len(m)
  BY DEF NewProcesses, Everywhere, U
<1>6. \A r \in Ranks : /\ step'[r] = U(r)' + In(pc'[r]) /\ step'[r] <= Target'
                       /\ TrueModel(mean'[r])
  BY <1>3, <1>4, <1>5
<1>7. (TrueModel(file.mean)' <=> TrueModel(file'.mean))
      /\ \A q \in Ranks : TrueModel(mean[q])' <=> TrueModel(mean'[q])
  BY <1>1, TrueModelKept, FileModelKept
<1>8. file' # None => /\ file'.step = Len(file'.mean) /\ file'.step <= Target'
                      /\ TrueModel(file'.mean)
  <2>1. file # None => file.step \in Nat
    BY DEF IInv, Typed, FileTyped
  <2> QED
    BY <1>1, <1>4, <2>1 DEF GrowInv
<1> QED
  BY <1>2, <1>6, <1>7, <1>8 DEF GrowInv

LEMMA GrowRests ==
  ASSUME IInv, GrowInv, UNCHANGED <<setting, pc, step, mean, file>>,
         Target <= Target', Target \in Nat, Target' \in Nat
  PROVE  GrowInv'
<1>1. Ranks' = Ranks /\ \A q \in Ranks : U(q)' = U(q) /\ step[q] \in Nat
  BY SettingKept, Attributes DEF U, IInv
<1>2. (TrueModel(file.mean)' <=> TrueModel(file'.mean))
      /\ \A q \in Ranks : TrueModel(mean[q])' <=> TrueModel(mean'[q])
  BY TrueModelKept, FileModelKept
<1>3. file # None => file.step \in Nat
  BY DEF IInv, Typed, FileTyped
<1> QED
  BY <1>1, <1>2, <1>3 DEF GrowInv

LEMMA GrowStep ==
  ASSUME GrowingSchedules, IInv, GrowInv, [Next]_vars
  PROVE  GrowInv'
<1>1. ASSUME NEW r \in Ranks, RankStep(r)
      PROVE  GrowInv'
  BY <1>1, GrowRankStep
<1>2. CASE Crash \/ UNCHANGED vars
  <2>1. Target' = Target /\ Target \in Nat
    BY <1>2, SettingKept, TargetType DEF Crash, vars, IInv
  <2> QED
    BY <1>2, <2>1, GrowRests DEF Crash, vars
<1>3. CASE StartFresh
  <2>1. <<>> \in Models /\ Len(<<>>) = 0 /\ Target \in Nat
    BY EmptySeq, TargetType DEF Models, IInv
  <2>2. TrueModel(<<>>)
    BY <2>1 DEF TrueModel
  <2> QED
    BY <1>3, <2>1, <2>2, GrowTogether DEF StartFresh
<1>4. CASE Resume
  <2>1. file.mean \in Models /\ file.step = Len(file.mean) /\ file.step <= Target
        /\ TrueModel(file.mean)
    BY <1>4 DEF Resume, IInv, Typed, FileTyped, GrowInv
  <2> QED
    BY <1>4, <2>1, GrowTogether DEF Resume
<1>5. CASE RefuseResume
  <2>1. UNCHANGED <<setting, pc, step, mean, file>>
    BY <1>5 DEF RefuseResume, NewRun
  <2> QED
    BY <1>5, <2>1, GrowNewRun, GrowRests DEF RefuseResume
<1> QED
  BY <1>1, <1>2, <1>3, <1>4, <1>5 DEF Next

LEMMA GrowInvariant ==
  ASSUME GrowingSchedules
  PROVE  Spec => [](IInv /\ GrowInv)
<1>1. Init => IInv /\ GrowInv
  <2>1. ASSUME Init
        PROVE  GrowInv
    <3>1. IInv /\ Target \in Nat /\ Len(<<>>) = 0 /\ <<>> \in Models
      BY <2>1, InitHolds, TargetType, EmptySeq DEF IInv, Models
    <3>2. \A r \in Ranks : pc[r] = "loop" /\ step[r] = 0 /\ mean[r] = <<>> /\ U(r) = 0
      BY <2>1, <3>1 DEF Init, Everywhere, U
    <3>3. In("loop") = 0 /\ TrueModel(<<>>)
      BY <3>1 DEF In, Busy, TrueModel
    <3>4. file = None
      BY <2>1 DEF Init
    <3> QED
      BY <3>1, <3>2, <3>3, <3>4 DEF GrowInv
  <2> QED
    BY <2>1, InitHolds
<1>2. IInv /\ GrowInv /\ [Next]_vars => (IInv /\ GrowInv)'
  BY StepHolds, GrowStep
<1> QED
  BY <1>1, <1>2, PTL DEF Spec

(* Every update applies one gradient of the whole batch, a share of every   *)
(* rank, all of the same step, model and draw, also in the runs that resume *)
(* (train.py:1194-1199), as long as no run is started for fewer updates.    *)
THEOREM OneGradientPerUpdate ==
  ASSUME GrowingSchedules
  PROVE  Spec => []OneGradient
<1>1. ASSUME IInv, GrowInv, NEW r \in Ranks, NEW k \in DOMAIN mean[r]
      PROVE  /\ {g.rank : g \in mean[r][k]} = Ranks
             /\ \A g, h \in mean[r][k] : g.noise = h.noise /\ g.base = h.base
             /\ \A g \in mean[r][k] : g.base = k - 1 /\ g.step = k
  <2>1. DOMAIN mean[r] = 1 .. Len(mean[r])
    BY <1>1, LenProperties DEF IInv, Typed, RankTyped, Models
  <2>2. mean[r][k] = {ShareOf(q, k, k - 1) : q \in Ranks}
    BY <1>1, <2>1 DEF GrowInv, TrueModel
  <2>3. \A q : LET g == ShareOf(q, k, k - 1)
               IN  /\ g.rank = q /\ g.step = k /\ g.base = k - 1
                   /\ g.noise = NoiseOf(k, k - 1)
    BY DEF ShareOf
  <2>4. \A g \in mean[r][k] : /\ g.step = k /\ g.base = k - 1
                               /\ g.noise = NoiseOf(k, k - 1) /\ g.rank \in Ranks
    BY <2>2, <2>3
  <2>5. \A q \in Ranks : q \in {g.rank : g \in mean[r][k]}
    BY <2>2, <2>3
  <2>6. {g.rank : g \in mean[r][k]} = Ranks
    BY <2>4, <2>5
  <2> QED
    BY <2>4, <2>6
<1>2. IInv /\ GrowInv => OneGradient
  BY <1>1 DEF OneGradient
<1> QED
  BY <1>2, GrowInvariant, PTL

(* The randomness consumed is a function of the step, also after a refresh  *)
(* of the curvature and in a run that resumes; the two passes of a refresh  *)
(* are made at the same parameters with the same randomness.                *)
THEOREM RandomnessIsStep ==
  ASSUME GrowingSchedules
  PROVE  Spec => []RandomnessFollowsSteps
<1>1. ASSUME IInv, GrowInv, NEW r \in Ranks, pc[r] = "loop"
      PROVE  rng[r] = (IF SeededDraws THEN 1 ELSE 2) * step[r]
  <2>1. In("loop") = 0 /\ Past("loop") = 0 /\ Between("loop") = 0
    BY DEF In, Past, Between, Busy
  <2>2. U(r) \in Nat /\ step[r] = U(r)
    BY <1>1, <2>1, Attributes DEF IInv, GrowInv
  <2> QED
    BY <1>1, <2>1, <2>2 DEF IInv, RngInv
<1>2. IInv /\ GrowInv => RandomnessFollowsSteps
  BY <1>1 DEF RandomnessFollowsSteps, IInv, PassInv
<1> QED
  BY <1>2, GrowInvariant, PTL

-----------------------------------------------------------------------------
(* The refinement.  It needs to know besides that the stream is as far as   *)
(* the updates, also in a run that resumes, and that a rank saves what it   *)
(* holds.                                                                   *)
StreamInv ==
  /\ dealt \in [Ranks -> Nat]
  /\ \A r \in Ranks :
       /\ dealt[r] = U(r) + In(pc[r])
       /\ pc[r] \in Over => /\ bundle[r].dealt = dealt[r]
                            /\ \A s \in LocalSlots(r) : bundle[r].carry[s] = carry[s]
  /\ file # None => \A r \in Ranks : file.ranks[r].dealt = Len(file.mean)

(* What a slot contributes is about the example it works on, until its rank *)
(* has applied the update.                                                  *)
Contribution(s, n) ==
  [group |-> GroupOf(s), failure |-> [step |-> n, slot |-> s, row |-> RowOf(s)]]

SentInv ==
  \A s \in Slots : pc[Owner(s)] \in {"gather", "reduce", "split"} =>
    /\ \E h \in BOOLEAN : out[s] = [row |-> RowOf(s), halted |-> h]
    /\ sent[s] = Contribution(s, step[Owner(s)])

(* No rank has folded in more than the leader.                              *)
LeaderInv == Leader \in Ranks /\ \A q \in Ranks : Folded(q) <= Folded(Leader)


(* Every slot belongs to a rank: the ranks divide the batch.                *)
LEMMA Quotient ==
  ASSUME NEW n \in Nat, NEW w \in Nat, w > 0, n > 0, n % w = 0
  PROVE  n = w * (n \div w) /\ n \div w \in Nat /\ n \div w > 0
OBVIOUS

LEMMA QuotientBelow ==
  ASSUME NEW l \in Nat, NEW w \in Nat, l > 0, NEW x \in Nat, x < w * l
  PROVE  x \div l \in Nat /\ x \div l < w
OBVIOUS

LEMMA OwnerIs ==
  ASSUME setting \in Settings, NEW s \in Slots
  PROVE  Owner(s) \in Ranks /\ s \in LocalSlots(Owner(s))
<1>1. setting \in Setting /\ BatchSize \in Nat /\ BatchSize > 0
  BY TrainingConstants
<1>2. World \in Nat /\ World > 0 /\ BatchSize % World = 0 /\ Ranks = 1 .. World
  BY <1>1, SettingFacts DEF Setting, World
<1>3. PICK l, w, x : l = LocalSize /\ w = World /\ x = s - 1
  OBVIOUS
<1>4. BatchSize = w * l /\ l \in Nat /\ l > 0 /\ w \in Nat
  BY <1>1, <1>2, <1>3, Quotient DEF LocalSize
<1>5. x \in Nat /\ x < w * l
  BY <1>1, <1>3, <1>4 DEF Slots
<1>6. x \div l \in Nat /\ x \div l < w
  BY <1>4, <1>5, QuotientBelow
<1>7. (x \div l) + 1 \in 1 .. w
  BY <1>4, <1>6
<1>8. Owner(s) \in Ranks
  BY <1>2, <1>3, <1>7 DEF Owner
<1> QED
  BY <1>8 DEF LocalSlots

LEMMA OwnerKept ==
  ASSUME setting' = setting
  PROVE  /\ \A s : Owner(s)' = Owner(s)
         /\ \A r : LocalSlots(r)' = LocalSlots(r)
BY SettingKept DEF Owner, LocalSlots

(* How far the ranks can be apart, and the leader.                          *)
LEMMA FoldedPair ==
  ASSUME Typed, ClockInv, NEW q \in Ranks, NEW r \in Ranks
  PROVE  Folded(q) \in Nat /\ Folded(q) <= Folded(r) + 1
<1>1. /\ U(q) \in Nat /\ U(r) \in Nat /\ pc[q] \in PCs /\ pc[r] \in PCs
      /\ calls[q] \in Nat /\ calls[r] \in Nat /\ calls[q] <= calls[r] + 1
      /\ calls[q] + 2 * U(r) + Off(pc[r]) = calls[r] + 2 * U(q) + Off(pc[q])
  BY Pair
<1>2. /\ Folded(q) = U(q) + (IF pc[q] = "reduce" THEN 1 ELSE 0)
      /\ Folded(r) = U(r) + (IF pc[r] = "reduce" THEN 1 ELSE 0)
  BY DEF Folded, U
<1>3. PICK i, j : i = Off(pc[q]) /\ j = Off(pc[r])
  OBVIOUS
<1>4. /\ i \in {0, 1, 2} /\ j \in {0, 1, 2}
      /\ pc[q] = "reduce" => i = 2
      /\ pc[r] = "reduce" => j = 2
  BY <1>1, <1>3, Labels DEF Off
<1>5. 2 * U(q) + i <= 2 * U(r) + j + 1
  BY <1>1, <1>3, <1>4
<1>6. U(q) <= U(r) + 1
  BY <1>1, <1>4, <1>5
<1>7. pc[q] = "reduce" => U(q) <= U(r)
  BY <1>1, <1>4, <1>5
<1> QED
  BY <1>1, <1>2, <1>6, <1>7

LEMMA LeaderHolds ==
  ASSUME IInv
  PROVE  LeaderInv
<1>1. \A q, r \in Ranks : Folded(q) \in Nat /\ Folded(q) <= Folded(r) + 1
  BY FoldedPair DEF IInv
<1>2. Primary \in Ranks
  BY SettingFacts DEF IInv, Typed
<1>3. \E r \in Ranks : \A q \in Ranks : Folded(q) <= Folded(r)
  <2>1. CASE \A q \in Ranks : Folded(q) <= Folded(Primary)
    BY <1>2, <2>1
  <2>2. CASE \E q \in Ranks : ~(Folded(q) <= Folded(Primary))
    <3>1. PICK q \in Ranks : ~(Folded(q) <= Folded(Primary))
      BY <2>2
    <3>2. Folded(q) = Folded(Primary) + 1
      BY <1>1, <1>2, <3>1
    <3> QED
      BY <1>1, <1>2, <3>2
  <2> QED
    BY <2>1, <2>2
<1> QED
  BY <1>3 DEF LeaderInv, Leader

-----------------------------------------------------------------------------
(* A step of a rank deals a batch to it, or none.                           *)
LEMMA DealtMoves ==
  ASSUME StreamInv, Typed, NEW r \in Ranks, RankStep(r)
  PROVE  /\ dealt' \in [Ranks -> Nat]
         /\ \A q \in Ranks : q # r => dealt'[q] = dealt[q]
         /\ NextBatch(r) => dealt'[r] = dealt[r] + 1
         /\ ~NextBatch(r) => dealt' = dealt
<1>1. dealt \in [Ranks -> Nat]
  BY DEF StreamInv
<1>2. CASE NextBatch(r)
  BY <1>1, <1>2 DEF NextBatch
<1>3. CASE ~NextBatch(r)
  BY <1>1, <1>3 DEF RankStep, Forward, Gather, Reduce, SplitSample, OrdinaryPass, MeanPass,
     SplitUpdate, Finish, Collect, Leave
<1> QED
  BY <1>2, <1>3

(* It writes the file only when all have left the loop.                     *)
LEMMA FileMoves ==
  ASSUME NEW r \in Ranks, RankStep(r)
  PROVE  \/ file' = file
         \/ /\ Collect(r) /\ r = Primary /\ AllEntered(r) /\ pc[r] = "collect"
            /\ file' = Checkpoint
BY DEF RankStep, NextBatch, Forward, Gather, Reduce, SplitSample, OrdinaryPass, MeanPass,
   SplitUpdate, Finish, Collect, Leave, history

(* A slot's example is touched by its owner only.                           *)
LEMMA SlotMoves ==
  ASSUME Typed, PathInv, NEW r \in Ranks, RankStep(r), NEW s \in Slots, Owner(s) # r
  PROVE  carry'[s] = carry[s] /\ out'[s] = out[s] /\ sent'[s] = sent[s]
<1>1. Owner(s) \in Ranks
  BY OwnerIs DEF Typed
<1>2. CASE NextBatch(r) \/ Gather(r) \/ SplitSample(r) \/ OrdinaryPass(r)
  BY <1>2 DEF NextBatch, Gather, SplitSample, OrdinaryPass
<1>3. CASE Finish(r) \/ Collect(r) \/ Leave(r)
  BY <1>3 DEF Finish, Collect, Leave
<1>4. CASE Forward(r)
  BY <1>4 DEF Forward, ForwardAndLoss
<1>5. CASE Reduce(r)
  BY <1>5 DEF Reduce
<1>6. CASE MeanPass(r) \/ SplitUpdate(r)
  <2>1. Objective = "split"
    BY <1>6, SettingFacts DEF MeanPass, SplitUpdate, PathInv, Typed
  <2> QED
    BY <1>1, <2>1, SettingFacts DEF Typed
<1> QED
  BY <1>2, <1>3, <1>4, <1>5, <1>6 DEF RankStep

LEMMA StreamRankStep ==
  ASSUME IInv, StreamInv, NEW r \in Ranks, RankStep(r)
  PROVE  StreamInv'
<1>0. alive /\ alive' /\ setting' = setting
  BY SameTraining DEF RankStep
<1>1. Ranks' = Ranks /\ \A q : LocalSlots(q)' = LocalSlots(q)
  BY <1>0, SettingKept, OwnerKept
<1>2. /\ DOMAIN bundle = Ranks /\ dealt \in [Ranks -> Nat] /\ U(r) \in Nat
      /\ Typed /\ PathInv
  BY Attributes DEF IInv, Typed, RankTyped, StreamInv
<1>3. /\ In("loop") = 0 /\ In("forward") = 1 /\ In("gather") = 1 /\ In("reduce") = 1
      /\ In("ordinary") = 1 /\ In("mean") = 1 /\ In("split") = 1
      /\ In("collect") = 0 /\ In("barrier") = 0 /\ In("done") = 0
  BY DEF In, Busy
<1>4. dealt'[r] = U(r)' + In(pc'[r])
  <2>1. dealt[r] = U(r) + In(pc[r])
    BY DEF StreamInv
  <2>2. CASE NextBatch(r)
    <3>1. U(r)' = U(r) /\ In(pc[r]) = 0 /\ In(pc'[r]) = 1 /\ dealt'[r] = dealt[r] + 1
      <4>1. Moves(r, "loop", "forward", 1, 0, 0)
        <5>1. mean' = mean /\ pc[r] = "loop" /\ pc'[r] = "forward"
          BY <1>2, <2>2 DEF NextBatch, Goto, Typed, RankTyped
        <5> QED
          BY <1>2, <2>2, <5>1 DEF NextBatch, Moves, U, Typed, RankTyped
      <4> QED
        BY <1>2, <1>3, <2>2, <4>1, DealtMoves DEF Moves
    <3> QED
      BY <1>2, <2>1, <3>1
  <2>3. CASE ~NextBatch(r)
    <3>1. dealt'[r] = dealt[r]
      BY <1>2, <2>3, DealtMoves
    <3>2. U(r)' + In(pc'[r]) = U(r) + In(pc[r])
      BY <1>2, <1>3, <2>3, RankMoves DEF Moves, IInv
    <3> QED
      BY <2>1, <3>1, <3>2
  <2> QED
    BY <2>2, <2>3
<1>5. pc'[r] \in Over => /\ bundle'[r].dealt = dealt'[r]
                         /\ \A s \in LocalSlots(r) : bundle'[r].carry[s] = carry'[s]
  <2>1. CASE Finish(r)
    BY <1>2, <2>1 DEF Finish
  <2>2. CASE Collect(r) \/ Leave(r)
    BY <2>2 DEF Collect, Leave, StreamInv, Over, history
  <2>3. CASE pc'[r] \notin Over
    BY <2>3
  <2> QED
    BY <2>1, <2>2, <2>3, RankMoves DEF Moves, Over, IInv
<1>6. ASSUME NEW q \in Ranks, q # r
      PROVE  /\ dealt'[q] = U(q)' + In(pc'[q])
             /\ pc'[q] \in Over => /\ bundle'[q].dealt = dealt'[q]
                                   /\ \A s \in LocalSlots(q) : bundle'[q].carry[s] = carry'[s]
  <2>1. /\ pc'[q] = pc[q] /\ U(q)' = U(q) /\ bundle'[q] = bundle[q] /\ dealt'[q] = dealt[q]
    BY <1>2, <1>6, OthersKept, DealtMoves
  <2>2. \A s \in LocalSlots(q) : carry'[s] = carry[s]
    BY <1>2, <1>6, SlotMoves DEF LocalSlots
  <2> QED
    BY <2>1, <2>2 DEF StreamInv
<1>7. file' # None => \A q \in Ranks : file'.ranks[q].dealt = Len(file'.mean)
  <2>1. CASE file' = file
    BY <2>1 DEF StreamInv
  <2>2. CASE Collect(r) /\ r = Primary /\ AllEntered(r) /\ pc[r] = "collect"
             /\ file' = Checkpoint
    <3>1. file'.mean = mean[r] /\ file'.ranks = bundle
      BY <2>2 DEF Checkpoint
    <3>2. ASSUME NEW q \in Ranks
          PROVE  bundle[q].dealt = U(r)
      <4>1. U(q) = U(r) /\ pc[q] \in {"collect", "barrier"} /\ U(q) \in Nat
        BY <1>0, <1>2, <2>2, AtCollect, Attributes DEF IInv
      <4>2. bundle[q].dealt = dealt[q] /\ In(pc[q]) = 0 /\ dealt[q] = U(q) + In(pc[q])
        BY <1>3, <4>1 DEF StreamInv, Over
      <4> QED
        BY <4>1, <4>2
    <3> QED
      BY <3>1, <3>2 DEF U
  <2> QED
    BY <2>1, <2>2, FileMoves
<1>8. dealt' \in [Ranks -> Nat]
  BY <1>2, DealtMoves
<1> QED
  BY <1>1, <1>4, <1>5, <1>6, <1>7, <1>8 DEF StreamInv

(* What a slot contributes is settled by the pass and kept by the gather.   *)
LEMMA ContributionKept ==
  ASSUME UNCHANGED <<setting, tape>>, NEW s, carry'[s] = carry[s],
         dealt'[Owner(s)] = dealt[Owner(s)]
  PROVE  RowOf(s)' = RowOf(s) /\ GroupOf(s)' = GroupOf(s)
<1>1. Owner(s)' = Owner(s)
  BY OwnerKept
<1>2. RowOf(s)' = RowOf(s)
  BY <1>1 DEF RowOf
<1>3. GroupOf(s)' = GroupOf(s)
  BY <1>2 DEF GroupOf
<1> QED
  BY <1>2, <1>3

LEMMA PassSends ==
  ASSUME NEW r \in Ranks, NEW s \in Slots, Owner(s) = r, ForwardAndLoss(r)
  PROVE  /\ \E h \in BOOLEAN : out'[s] = [row |-> RowOf(s), halted |-> h]
         /\ sent'[s] = Contribution(s, step[r])
<1>1. \E halts \in [LocalSlots(r) -> BOOLEAN] :
        out'[s] = [row |-> RowOf(s), halted |-> halts[s]]
  BY DEF ForwardAndLoss
<1>2. s \in LocalSlots(r)
  BY DEF LocalSlots
<1>3. \E h \in BOOLEAN : out'[s] = [row |-> RowOf(s), halted |-> h]
  BY <1>1, <1>2
<1>4. sent'[s] = Contribution(s, step[r])
  BY DEF ForwardAndLoss, Contribution
<1> QED
  BY <1>3, <1>4

LEMMA SentRankStep ==
  ASSUME IInv, StreamInv, SentInv, NEW r \in Ranks, RankStep(r)
  PROVE  SentInv'
<1>1. /\ setting' = setting /\ tape' = tape /\ Typed /\ PathInv
      /\ \A s : Owner(s)' = Owner(s)
  BY SameTraining, OwnerKept DEF IInv
<1>2. ASSUME NEW s \in Slots, Owner(s) # r, pc'[Owner(s)] \in {"gather", "reduce", "split"}
      PROVE  /\ \E h \in BOOLEAN : out'[s] = [row |-> RowOf(s), halted |-> h]
             /\ sent'[s] = Contribution(s, step'[Owner(s)])
             /\ RowOf(s)' = RowOf(s) /\ GroupOf(s)' = GroupOf(s)
  <2>1. Owner(s) \in Ranks
    BY <1>1, OwnerIs DEF Typed
  <2>2. /\ pc'[Owner(s)] = pc[Owner(s)] /\ step'[Owner(s)] = step[Owner(s)]
        /\ dealt'[Owner(s)] = dealt[Owner(s)]
    BY <1>1, <1>2, <2>1, OthersKept, DealtMoves
  <2>3. carry'[s] = carry[s] /\ out'[s] = out[s] /\ sent'[s] = sent[s]
    BY <1>1, <1>2, SlotMoves
  <2>4. RowOf(s)' = RowOf(s) /\ GroupOf(s)' = GroupOf(s)
    BY <1>1, <2>2, <2>3, ContributionKept
  <2>5. /\ \E h \in BOOLEAN : out[s] = [row |-> RowOf(s), halted |-> h]
        /\ sent[s] = Contribution(s, step[Owner(s)])
    BY <1>2, <2>2 DEF SentInv
  <2> QED
    BY <2>2, <2>3, <2>4, <2>5
<1>3. ASSUME NEW s \in Slots, Owner(s) = r, pc'[r] \in {"gather", "reduce", "split"}
      PROVE  /\ \E h \in BOOLEAN : out'[s] = [row |-> RowOf(s), halted |-> h]
             /\ sent'[s] = Contribution(s, step'[r])
             /\ RowOf(s)' = RowOf(s) /\ GroupOf(s)' = GroupOf(s)
  <2>1. CASE Forward(r) \/ MeanPass(r)
    <3>1. ForwardAndLoss(r) /\ UNCHANGED <<carry, dealt, step>>
      BY <2>1 DEF Forward, MeanPass
    <3>2. RowOf(s)' = RowOf(s) /\ GroupOf(s)' = GroupOf(s)
      BY <1>1, <3>1, ContributionKept
    <3>3. /\ \E h \in BOOLEAN : out'[s] = [row |-> RowOf(s), halted |-> h]
          /\ sent'[s] = Contribution(s, step[r])
      BY <1>3, <3>1, PassSends
    <3> QED
      BY <3>1, <3>2, <3>3
  <2>2. CASE Gather(r)
    <3>1. pc[r] = "gather" /\ UNCHANGED <<carry, dealt, step, out, sent>>
      BY <2>2 DEF Gather
    <3>2. RowOf(s)' = RowOf(s) /\ GroupOf(s)' = GroupOf(s)
      BY <1>1, <3>1, ContributionKept
    <3>3. /\ \E h \in BOOLEAN : out[s] = [row |-> RowOf(s), halted |-> h]
          /\ sent[s] = Contribution(s, step[r])
      BY <1>3, <3>1 DEF SentInv
    <3> QED
      BY <3>1, <3>2, <3>3
  <2>3. CASE ~Forward(r) /\ ~MeanPass(r) /\ ~Gather(r)
    <3>1. pc'[r] \notin {"gather", "reduce", "split"}
      BY <2>3, RankMoves DEF Moves, IInv
    <3> QED
      BY <1>3, <3>1
  <2> QED
    BY <2>1, <2>2, <2>3
<1>4. ASSUME NEW s \in Slots, pc'[Owner(s)] \in {"gather", "reduce", "split"}
      PROVE  /\ \E h \in BOOLEAN : out'[s] = [row |-> RowOf(s)', halted |-> h]
             /\ sent'[s] = [group |-> GroupOf(s)',
                            failure |-> [step |-> step'[Owner(s)], slot |-> s,
                                         row |-> RowOf(s)']]
  <2>1. CASE Owner(s) = r
    BY <1>3, <1>4, <2>1 DEF Contribution
  <2>2. CASE Owner(s) # r
    BY <1>2, <1>4, <2>2 DEF Contribution
  <2> QED
    BY <2>1, <2>2
<1> QED
  BY <1>1, <1>4 DEF SentInv, Contribution

-----------------------------------------------------------------------------
(* Nothing moves, or all start together.                                    *)
LEMMA StreamSentRests ==
  ASSUME IInv, StreamInv, SentInv,
         UNCHANGED <<tape, setting, pc, step, dealt, carry, out, sent, mean, bundle, file>>
  PROVE  StreamInv' /\ SentInv'
<1>1. /\ Ranks' = Ranks /\ \A s : Owner(s)' = Owner(s)
      /\ \A r : LocalSlots(r)' = LocalSlots(r)
  BY SettingKept, OwnerKept
<1>2. \A s : RowOf(s)' = RowOf(s) /\ GroupOf(s)' = GroupOf(s)
  BY ContributionKept
<1>3. StreamInv'
  BY <1>1 DEF StreamInv, U
<1>4. SentInv'
  BY <1>1, <1>2 DEF SentInv, Contribution
<1> QED
  BY <1>3, <1>4

LEMMA StreamSentStart ==
  ASSUME IInv, StreamInv, NewProcesses, NEW m \in Models, mean' = Everywhere(m),
         dealt' = Everywhere(Len(m))
  PROVE  StreamInv' /\ SentInv'
<1>1. setting' = setting /\ file' = file
  BY DEF NewProcesses, NewRun
<1>2. /\ Ranks' = Ranks /\ \A s : Owner(s)' = Owner(s) /\ setting \in Settings
  BY <1>1, SettingKept, OwnerKept DEF IInv, Typed
<1>3. Len(m) \in Nat /\ In("loop") = 0
  BY LenProperties DEF Models, In, Busy
<1>4. \A r \in Ranks : pc'[r] = "loop" /\ U(r)' = Len(m) /\ dealt'[r] = Len(m)
  BY DEF NewProcesses, Everywhere, U
<1>5. dealt' \in [Ranks -> Nat]
  BY <1>3 DEF Everywhere
<1>6. StreamInv'
  BY <1>1, <1>2, <1>3, <1>4, <1>5 DEF StreamInv, Over
<1>7. SentInv'
  BY <1>2, <1>4, OwnerIs DEF SentInv
<1> QED
  BY <1>6, <1>7

LEMMA StreamSentStep ==
  ASSUME IInv, StreamInv, SentInv, [Next]_vars
  PROVE  StreamInv' /\ SentInv'
<1>1. ASSUME NEW r \in Ranks, RankStep(r)
      PROVE  StreamInv' /\ SentInv'
  BY <1>1, StreamRankStep, SentRankStep
<1>2. CASE Crash \/ RefuseResume \/ UNCHANGED vars
  BY <1>2, StreamSentRests DEF Crash, RefuseResume, NewRun, vars
<1>3. CASE StartFresh
  <2>1. <<>> \in Models /\ Len(<<>>) = 0
    BY EmptySeq DEF Models
  <2>2. NewProcesses /\ mean' = Everywhere(<<>>) /\ dealt' = Everywhere(Len(<<>>))
    BY <1>3, <2>1 DEF StartFresh
  <2> QED
    BY <2>1, <2>2, StreamSentStart
<1>4. CASE Resume
  <2>1. file # None /\ file.mean \in Models
    BY <1>4 DEF Resume, IInv, Typed, FileTyped
  <2>2. dealt' = Everywhere(Len(file.mean))
    BY <1>4, <2>1 DEF Resume, StreamInv, Everywhere
  <2> QED
    BY <1>4, <2>1, <2>2, StreamSentStart DEF Resume
<1> QED
  BY <1>1, <1>2, <1>3, <1>4 DEF Next

ReferenceInv == IInv /\ GrowInv /\ StreamInv /\ SentInv

LEMMA ReferenceInvariant ==
  ASSUME GrowingSchedules
  PROVE  Spec => []ReferenceInv
<1>1. ASSUME Init
      PROVE  ReferenceInv
  <2>1. IInv /\ Len(<<>>) = 0 /\ In("loop") = 0
    BY <1>1, InitHolds, EmptySeq DEF In, Busy
  <2>2. \A r \in Ranks : /\ pc[r] = "loop" /\ step[r] = 0 /\ mean[r] = <<>>
                         /\ U(r) = 0 /\ dealt[r] = 0
    BY <1>1, <2>1 DEF Init, Everywhere, U
  <2>3. file = None /\ dealt \in [Ranks -> Nat]
    BY <1>1 DEF Init, Everywhere
  <2>4. StreamInv
    BY <2>1, <2>2, <2>3 DEF StreamInv, Over
  <2>5. SentInv
    BY <2>1, <2>2, OwnerIs DEF SentInv, IInv, Typed
  <2>6. GrowInv
    <3>1. Target \in Nat /\ TrueModel(<<>>)
      BY <2>1, TargetType DEF IInv, TrueModel
    <3> QED
      BY <2>1, <2>2, <2>3, <3>1 DEF GrowInv
  <2> QED
    BY <2>1, <2>4, <2>5, <2>6 DEF ReferenceInv
<1>2. ReferenceInv /\ [Next]_vars => ReferenceInv'
  BY StepHolds, GrowStep, StreamSentStep DEF ReferenceInv
<1> QED
  BY <1>1, <1>2, PTL DEF Spec

-----------------------------------------------------------------------------
(* The one process the ranks stand for: its model is as old as that of a    *)
(* rank that nobody is ahead of, and so are its estimates.                  *)
LEMMA LeaderIs ==
  ASSUME IInv, LeaderInv, NEW l \in Ranks, \A q \in Ranks : Folded(q) <= Folded(l)
  PROVE  Folded(Leader) = Folded(l) /\ tracker[Leader] = tracker[l] /\ Folded(l) \in Nat
<1>1. Leader \in Ranks /\ Folded(Leader) \in Nat /\ Folded(l) \in Nat
  BY FoldedPair DEF LeaderInv, IInv
<1>2. Folded(Leader) = Folded(l)
  BY <1>1 DEF LeaderInv
<1> QED
  BY <1>1, <1>2 DEF IInv, AgreeInv

LEMMA NextLeaderIs ==
  ASSUME IInv', LeaderInv', setting' = setting, NEW l \in Ranks,
         \A q \in Ranks : Folded(q)' <= Folded(l)', \A q \in Ranks : Folded(q)' \in Nat
  PROVE  Folded(Leader)' = Folded(l)' /\ (tracker[Leader])' = tracker'[l]
<1>1. Ranks' = Ranks
  BY SettingKept
<1>2. Leader' \in Ranks /\ \A q \in Ranks : Folded(q)' <= Folded(Leader)'
  BY <1>1 DEF LeaderInv
<1>3. Folded(Leader)' \in Nat /\ Folded(Leader)' <= Folded(l)'
  BY <1>2
<1>4. Folded(Leader)' = Folded(l)'
  BY <1>2, <1>3
<1>5. tracker'[Leader'] = tracker'[l]
  BY <1>1, <1>2, <1>4 DEF IInv, AgreeInv
<1> QED
  BY <1>4, <1>5

LEMMA SavedKept ==
  ASSUME setting' = setting, file' = file
  PROVE  SavedState' = SavedState
BY OwnerKept DEF SavedState

LEMMA StartingCarry ==
  ASSUME setting \in Settings
  PROVE  /\ Reference!Fresh = [updates |-> 0, carried |-> NewCarry, estimate |-> FreshTracker]
         /\ Duplicates \in {"sequential", "group_mean"}
BY TrainingConstants DEF Reference!Fresh, Reference!FreshTracker, NewCarry, FreshTracker,
   Duplicates, Setting

(* Nobody gets ahead of the leader, and every slot works on what it did.    *)
LEMMA SameState ==
  ASSUME IInv, IInv', LeaderInv, LeaderInv', setting' = setting,
         NEW l \in Ranks,
         \A q \in Ranks : Folded(q) <= Folded(l) /\ Folded(q)' <= Folded(l)'
                          /\ Folded(q)' \in Nat,
         Folded(l)' = Folded(l), tracker'[l] = tracker[l],
         \A s \in Slots :
           (IF U(Owner(s))' = Folded(l) THEN carry'[s] ELSE out'[s])
             = (IF U(Owner(s)) = Folded(l) THEN carry[s] ELSE out[s])
  PROVE  /\ Folded(Leader)' = Folded(Leader) /\ GlobalCarry' = GlobalCarry
         /\ (tracker[Leader])' = tracker[Leader]
<1>1. /\ Folded(Leader) = Folded(l) /\ tracker[Leader] = tracker[l]
      /\ Folded(Leader)' = Folded(l)' /\ (tracker[Leader])' = tracker'[l]
  BY LeaderIs, NextLeaderIs
<1>2. \A s : Owner(s)' = Owner(s)
  BY OwnerKept
<1>3. GlobalCarry' = GlobalCarry
  BY <1>1, <1>2 DEF GlobalCarry, U
<1> QED
  BY <1>1, <1>3

LEMMA Stutters ==
  ASSUME UNCHANGED <<setting, tape, SavedState>>,
         Folded(Leader)' = Folded(Leader), GlobalCarry' = GlobalCarry,
         (tracker[Leader])' = tracker[Leader]
  PROVE  UNCHANGED Reference!refvars
BY SettingKept DEF Reference!refvars

(* A step that folds in nothing, applies nothing and saves nothing.         *)
LEMMA QuietStep ==
  ASSUME IInv, IInv', LeaderInv, LeaderInv',
         UNCHANGED <<setting, tape, file, mean, tracker, carry>>,
         \A q \in Ranks : (pc'[q] = "reduce") <=> (pc[q] = "reduce"),
         \A s \in Slots : out'[s] = out[s] \/ U(Owner(s)) = Folded(Leader)
  PROVE  UNCHANGED Reference!refvars
<1>1. Leader \in Ranks /\ \A q \in Ranks : Folded(q) <= Folded(Leader)
  BY DEF LeaderInv
<1>2. \A q \in Ranks : Folded(q) \in Nat
  BY FoldedPair DEF IInv
<1>3. \A q : U(q)' = U(q)
  BY DEF U
<1>4. \A q \in Ranks : Folded(q)' = Folded(q)
  BY <1>3 DEF Folded, U
<1>5. PICK l \in Ranks : l = Leader
  BY <1>1
<1>6. \A q \in Ranks : Folded(q) <= Folded(l) /\ Folded(q)' <= Folded(l)' /\ Folded(q)' \in Nat
  BY <1>1, <1>2, <1>4, <1>5
<1>7. \A s \in Slots :
        (IF U(Owner(s))' = Folded(l) THEN carry'[s] ELSE out'[s])
          = (IF U(Owner(s)) = Folded(l) THEN carry[s] ELSE out[s])
  <2>1. \A s : U(Owner(s))' = U(Owner(s))
    BY OwnerKept DEF U
  <2> QED
    BY <1>5, <2>1
<1>8. Folded(l)' = Folded(l) /\ tracker'[l] = tracker[l]
  BY <1>4
<1>9. /\ Folded(Leader)' = Folded(Leader) /\ GlobalCarry' = GlobalCarry
      /\ (tracker[Leader])' = tracker[Leader]
  BY <1>6, <1>7, <1>8, SameState
<1>10. SavedState' = SavedState
  BY SavedKept
<1> QED
  BY <1>9, <1>10, Stutters

(* The pass of a rank whose slots have not left the last update.            *)
LEMMA PassStutters ==
  ASSUME IInv, IInv', LeaderInv, LeaderInv', NEW r \in Ranks, RankStep(r),
         Forward(r) \/ MeanPass(r)
  PROVE  UNCHANGED Reference!refvars
<1>1. /\ UNCHANGED <<setting, tape, file, mean, tracker, carry>> /\ alive
      /\ Typed /\ PathInv /\ ClockInv /\ U(r) \in Nat
  BY SameTraining, Attributes DEF Forward, MeanPass, history, RankStep, IInv
<1>2. \A q \in Ranks : (pc'[q] = "reduce") <=> (pc[q] = "reduce")
  <2>1. pc[r] \in {"forward", "mean"} /\ pc'[r] \in {"gather", "split"}
    BY <1>1 DEF Forward, MeanPass, Goto, Typed, RankTyped
  <2> QED
    BY <1>1, <2>1, OthersKept
<1>3. ASSUME NEW s \in Slots, Owner(s) = r
      PROVE  U(r) = Folded(Leader)
  <2>1. CASE Forward(r)
    BY <1>1, <2>1, FoldedAtForward DEF LeaderInv, Forward
  <2>2. CASE MeanPass(r)
    <3>1. Ranks = {r}
      BY <1>1, <2>2, SettingFacts DEF MeanPass, PathInv, Typed
    <3>2. Folded(r) = U(r)
      BY <1>1, <2>2, FoldedIs DEF MeanPass
    <3> QED
      BY <3>1, <3>2 DEF LeaderInv
  <2> QED
    BY <2>1, <2>2
<1>4. \A s \in Slots : Owner(s) # r => out'[s] = out[s]
  BY <1>1, SlotMoves
<1>5. \A s \in Slots : out'[s] = out[s] \/ U(Owner(s)) = Folded(Leader)
  BY <1>3, <1>4
<1> QED
  BY <1>1, <1>2, <1>5, QuietStep

(* The gradient sum returns: the slots of the rank have left the update.    *)
LEMMA ReduceStutters ==
  ASSUME IInv, IInv', LeaderInv, LeaderInv', NEW r \in Ranks, RankStep(r), Reduce(r)
  PROVE  UNCHANGED Reference!refvars
<1>1. /\ UNCHANGED <<setting, tape, file, tracker, out>> /\ alive
      /\ Typed /\ PathInv /\ ClockInv /\ NoiseInv /\ ShardInv /\ U(r) \in Nat
      /\ pc[r] = "reduce" /\ AllEntered(r)
  BY SameTraining, Attributes DEF Reduce, history, RankStep, IInv
<1>2. \A q \in Ranks : Folded(q) = U(r) + 1
  BY <1>1, FoldedAtReduce
<1>3. pc'[r] = "loop" /\ U(r)' = U(r) + 1
  <2>1. Moves(r, "reduce", "loop", 0, 0, 1)
    BY <1>1, RankMoves DEF Moves, Reduce
  <2> QED
    BY <2>1 DEF Moves
<1>4. Folded(r)' = U(r) + 1
  BY <1>1, <1>3, FoldedIs
<1>5. \A q \in Ranks : q # r => U(q)' = U(q) /\ pc'[q] = pc[q]
  BY <1>1, OthersKept
<1>6. \A q \in Ranks : q # r => Folded(q)' = Folded(q)
  BY <1>5 DEF Folded, U
<1>7. \A q \in Ranks : Folded(q)' = U(r) + 1
  BY <1>2, <1>4, <1>6
<1>8. \A q \in Ranks : Folded(q) <= Folded(r) /\ Folded(q)' <= Folded(r)' /\ Folded(q)' \in Nat
  BY <1>1, <1>2, <1>7
<1>9. ASSUME NEW s \in Slots
      PROVE  (IF U(Owner(s))' = Folded(r) THEN carry'[s] ELSE out'[s])
               = (IF U(Owner(s)) = Folded(r) THEN carry[s] ELSE out[s])
  <2>1. Owner(s)' = Owner(s) /\ Owner(s) \in Ranks
    BY <1>1, OwnerKept, OwnerIs DEF Typed
  <2>2. CASE Owner(s) = r
    <3>1. U(Owner(s))' = U(r)' /\ U(Owner(s)) = U(r)
      BY <2>1, <2>2
    <3>2. carry'[s] = out[s]
      BY <2>2 DEF Reduce
    <3> QED
      BY <1>1, <1>2, <1>3, <3>1, <3>2
  <2>3. CASE Owner(s) # r
    <3>1. U(Owner(s))' = U(Owner(s)) /\ carry'[s] = carry[s]
      BY <1>1, <1>5, <2>1, <2>3, SlotMoves
    <3> QED
      BY <1>1, <3>1
  <2> QED
    BY <2>2, <2>3
<1>10. /\ Folded(Leader)' = Folded(Leader) /\ GlobalCarry' = GlobalCarry
       /\ (tracker[Leader])' = tracker[Leader]
  BY <1>1, <1>2, <1>4, <1>8, <1>9, SameState
<1>11. SavedState' = SavedState
  BY <1>1, SavedKept
<1> QED
  BY <1>1, <1>10, <1>11, Stutters

-----------------------------------------------------------------------------
(* An update: all slots have made their pass on the same model and nobody   *)
(* has folded in what they send, until the first one does.                  *)
LEMMA SameTracker ==
  ASSUME NEW t, NEW ids, NEW failures, NEW d
  PROVE  Reference!TrackerUpdate(t, ids, failures, d) = TrackerUpdate(t, ids, failures, d)
BY DEF TrackerUpdate, SequentialUpdate, GroupMeanUpdate,
   Reference!TrackerUpdate, Reference!SequentialUpdate, Reference!GroupMeanUpdate

LEMMA UpdateMaps ==
  ASSUME IInv, GrowInv, StreamInv, SentInv, UNCHANGED <<setting, tape, file>>,
         NEW n \in Nat, Folded(Leader) = n, Folded(Leader)' = n + 1,
         \A q \in Ranks : pc[q] \in {"gather", "split"} /\ U(q) = n,
         (tracker[Leader])' = Updated(tracker[Leader]),
         GlobalCarry' = [s \in Slots |-> out[s]]
  PROVE  Reference!TrainStep
<1>1. \A s \in Slots : Owner(s) \in Ranks
  BY OwnerIs DEF IInv, Typed
<1>2. ASSUME NEW s \in Slots
      PROVE  /\ GlobalCarry[s] = carry[s] /\ Reference!RowIn(s) = RowOf(s)
             /\ step[Owner(s)] = n + 1
  <2>1. /\ pc[Owner(s)] \in {"gather", "split"} /\ U(Owner(s)) = n
    BY <1>1
  <2>2. In(pc[Owner(s)]) = 1
    BY <2>1 DEF In, Busy
  <2>3. GlobalCarry[s] = carry[s]
    BY <2>1 DEF GlobalCarry, U
  <2>4. dealt[Owner(s)] = n + 1 /\ step[Owner(s)] = n + 1
    BY <1>1, <2>1, <2>2 DEF StreamInv, GrowInv
  <2> QED
    BY <2>3, <2>4 DEF RowOf, Reference!RowIn
<1>3. ASSUME NEW s \in Slots
      PROVE  /\ \E h \in BOOLEAN : out[s] = [row |-> RowOf(s), halted |-> h]
             /\ sent[s].group = tape[Reference!RowIn(s)][s]
             /\ sent[s].failure = [step |-> n + 1, slot |-> s, row |-> Reference!RowIn(s)]
  <2>1. /\ \E h \in BOOLEAN : out[s] = [row |-> RowOf(s), halted |-> h]
        /\ sent[s] = Contribution(s, step[Owner(s)])
    BY <1>1 DEF SentInv
  <2> QED
    BY <1>2, <2>1 DEF Contribution, GroupOf
<1>4. \E halts \in [Slots -> BOOLEAN] :
        GlobalCarry' = [s \in Slots |-> [row |-> Reference!RowIn(s), halted |-> halts[s]]]
  <2>1. PICK halts : halts = [s \in Slots |-> out[s].halted]
    OBVIOUS
  <2>2. ASSUME NEW s \in Slots
        PROVE  out[s].halted \in BOOLEAN /\ out[s] = [row |-> RowOf(s), halted |-> out[s].halted]
    <3>1. PICK h \in BOOLEAN : out[s] = [row |-> RowOf(s), halted |-> h]
      BY <1>3
    <3>2. out[s].halted = h
      BY <3>1
    <3> QED
      BY <3>1, <3>2
  <2>3. halts \in [Slots -> BOOLEAN]
    BY <2>1, <2>2
  <2>4. \A s \in Slots : out[s] = [row |-> Reference!RowIn(s), halted |-> halts[s]]
    BY <1>2, <2>1, <2>2
  <2>5. GlobalCarry' = [s \in Slots |-> [row |-> Reference!RowIn(s), halted |-> halts[s]]]
    BY <2>4
  <2> QED
    BY <2>3, <2>5
<1>5. (tracker[Leader])' =
        Reference!TrackerUpdate(tracker[Leader],
          [s \in Slots |-> tape[Reference!RowIn(s)][s]],
          [s \in Slots |-> [step |-> n + 1, slot |-> s, row |-> Reference!RowIn(s)]],
          Duplicates)
  <2>1. [s \in Slots |-> sent[s].group] = [s \in Slots |-> tape[Reference!RowIn(s)][s]]
    BY <1>3
  <2>2. [s \in Slots |-> sent[s].failure]
          = [s \in Slots |-> [step |-> n + 1, slot |-> s, row |-> Reference!RowIn(s)]]
    BY <1>3
  <2> QED
    BY <2>1, <2>2, SameTracker DEF Updated
<1>6. Duplicates' = Duplicates /\ SavedState' = SavedState
  BY SettingKept, SavedKept
<1> QED
  BY <1>4, <1>5, <1>6 DEF Reference!TrainStep

(* The first rank that leaves the gather makes the update; the others do    *)
(* what it did.                                                             *)
LEMMA GatherMaps ==
  ASSUME IInv, GrowInv, StreamInv, SentInv, IInv', LeaderInv, LeaderInv',
         NEW r \in Ranks, RankStep(r), Gather(r)
  PROVE  Reference!TrainStep \/ UNCHANGED Reference!refvars
<1>1. /\ UNCHANGED <<setting, tape, file, mean, carry, out>> /\ alive
      /\ Typed /\ PathInv /\ ClockInv /\ NoiseInv /\ ShardInv /\ U(r) \in Nat
      /\ pc[r] = "gather" /\ AllEntered(r)
  BY SameTraining, Attributes DEF Gather, history, RankStep, IInv
<1>2. pc'[r] = "reduce" /\ tracker'[r] = Updated(tracker[r])
  BY <1>1 DEF Gather, Goto, Typed, RankTyped
<1>3. \A q \in Ranks : U(q) = U(r) /\ pc[q] \in {"gather", "reduce"}
  BY <1>1, AtGather
<1>4. \A q \in Ranks : U(q)' = U(r)
  BY <1>1, <1>3 DEF U
<1>5. Folded(r) = U(r) /\ Folded(r)' = U(r) + 1
  BY <1>1, <1>2, <1>4, FoldedIs
<1>6. \A q \in Ranks : q # r => pc'[q] = pc[q] /\ tracker'[q] = tracker[q]
  BY <1>1, OthersKept
<1>7. \A q \in Ranks : Folded(q)' \in Nat /\ Folded(q)' <= U(r) + 1
  <2>1. \A q \in Ranks : Folded(q)' = U(r) \/ Folded(q)' = U(r) + 1
    BY <1>1, <1>4, FoldedIs
  <2> QED
    BY <1>1, <2>1
<1>8. Folded(Leader)' = U(r) + 1 /\ (tracker[Leader])' = tracker'[r]
  BY <1>1, <1>5, <1>7, NextLeaderIs
<1>9. GlobalCarry' = [s \in Slots |-> out[s]]
  <2>1. \A s \in Slots : Owner(s)' = Owner(s) /\ U(Owner(s))' = U(r)
    BY <1>1, <1>4, OwnerKept, OwnerIs DEF Typed
  <2>2. \A s \in Slots : Len(mean'[Owner(s)']) # Folded(Leader)'
    BY <1>1, <1>8, <2>1 DEF U
  <2> QED
    BY <1>1, <2>2 DEF GlobalCarry
<1>10. CASE \A q \in Ranks : pc[q] = "gather"
  <2>1. \A q \in Ranks : Folded(q) = U(r)
    BY <1>1, <1>3, <1>10, FoldedIs
  <2>2. Folded(Leader) = U(r) /\ tracker[Leader] = tracker[r]
    BY <1>1, <2>1, LeaderIs
  <2>3. (tracker[Leader])' = Updated(tracker[Leader])
    BY <1>2, <1>8, <2>2
  <2> QED
    BY <1>1, <1>3, <1>8, <1>9, <1>10, <2>2, <2>3, UpdateMaps
<1>11. CASE \E q \in Ranks : pc[q] # "gather"
  <2>1. PICK q \in Ranks : pc[q] = "reduce"
    BY <1>3, <1>11
  <2>2. q # r /\ Folded(q) = U(r) + 1 /\ Folded(q)' = U(r) + 1
    BY <1>1, <1>3, <1>4, <1>6, <2>1, FoldedIs
  <2>3. \A p \in Ranks : Folded(p) <= U(r) + 1
    BY <1>1, <1>5, FoldedPair
  <2>4. \A p \in Ranks : Folded(p) <= Folded(q) /\ Folded(p)' <= Folded(q)' /\ Folded(p)' \in Nat
    BY <1>7, <2>2, <2>3
  <2>5. tracker'[q] = tracker[q] /\ Folded(q)' = Folded(q)
    BY <1>6, <2>2
  <2>6. \A s \in Slots :
          (IF U(Owner(s))' = Folded(q) THEN carry'[s] ELSE out'[s])
            = (IF U(Owner(s)) = Folded(q) THEN carry[s] ELSE out[s])
    <3>1. \A s \in Slots : U(Owner(s))' = U(Owner(s))
      BY <1>1, OwnerKept DEF U
    <3> QED
      BY <1>1, <3>1
  <2>7. /\ Folded(Leader)' = Folded(Leader) /\ GlobalCarry' = GlobalCarry
        /\ (tracker[Leader])' = tracker[Leader]
    BY <1>1, <2>4, <2>5, <2>6, SameState
  <2>8. SavedState' = SavedState
    BY <1>1, SavedKept
  <2> QED
    BY <1>1, <2>7, <2>8, Stutters
<1> QED
  BY <1>10, <1>11

LEMMA SplitUpdateMaps ==
  ASSUME IInv, GrowInv, StreamInv, SentInv, IInv', LeaderInv, LeaderInv',
         NEW r \in Ranks, RankStep(r), SplitUpdate(r)
  PROVE  Reference!TrainStep
<1>1. /\ UNCHANGED <<setting, tape, file, out>> /\ carry' = out
      /\ Typed /\ PathInv /\ NoiseInv /\ ShardInv /\ U(r) \in Nat /\ pc[r] = "split"
  BY SameTraining, Attributes DEF SplitUpdate, history, IInv
<1>2. Ranks = {r}
  BY <1>1, SettingFacts DEF PathInv, Typed
<1>3. U(r)' = U(r) + 1 /\ pc'[r] = "loop"
  <2>1. Moves(r, "split", "loop", 0, 0, 1)
    BY <1>1, RankMoves DEF Moves, SplitUpdate
  <2> QED
    BY <2>1 DEF Moves
<1>4. Folded(r) = U(r) /\ Folded(r)' = U(r) + 1
  BY <1>1, <1>3, FoldedIs
<1>5. tracker'[r] = Updated(tracker[r])
  BY <1>1 DEF SplitUpdate, Typed, RankTyped
<1>6. Folded(Leader) = U(r) /\ tracker[Leader] = tracker[r]
  BY <1>1, <1>2, <1>4, LeaderIs
<1>7. Folded(Leader)' = U(r) + 1 /\ (tracker[Leader])' = tracker'[r]
  <2>1. \A q \in Ranks : Folded(q)' <= Folded(r)' /\ Folded(q)' \in Nat
    BY <1>1, <1>2, <1>4
  <2> QED
    BY <1>1, <1>4, <2>1, NextLeaderIs
<1>8. GlobalCarry' = [s \in Slots |-> out[s]]
  BY <1>1 DEF GlobalCarry
<1> QED
  BY <1>1, <1>2, <1>5, <1>6, <1>7, <1>8, UpdateMaps

-----------------------------------------------------------------------------
(* What is saved is the state of the one process; None is no checkpoint.    *)
NoneIsNoFile ==
  \A n \in Nat : \A m \in Models : \A t, b :
    None # [step |-> n, mean |-> m, tracker |-> t, ranks |-> b]

LEMMA CollectMaps ==
  ASSUME NoneIsNoFile, IInv, StreamInv, IInv', LeaderInv, LeaderInv',
         NEW r \in Ranks, RankStep(r), Collect(r)
  PROVE  Reference!MakeCheckpoint \/ UNCHANGED Reference!refvars
<1>1. /\ UNCHANGED <<setting, tape, mean, tracker, carry, out>> /\ alive
      /\ Typed /\ PathInv /\ ClockInv /\ pc[r] = "collect" /\ AllEntered(r)
      /\ U(r) \in Nat /\ Target \in Nat /\ mean[r] \in Models
  BY Attributes, ModelLength, TargetType DEF Collect, RankStep, IInv
<1>2. \A q \in Ranks : U(q) = U(r) /\ pc[q] \in {"collect", "barrier"}
  BY <1>1, AtCollect
<1>3. \A q \in Ranks : pc'[q] # "reduce"
  <2>1. pc'[r] = "barrier"
    BY <1>1 DEF Collect, Goto, Typed, RankTyped
  <2> QED
    BY <1>1, <1>2, <2>1, OthersKept
<1>4. \A q : U(q)' = U(q)
  BY <1>1 DEF U
<1>5. \A q \in Ranks : Folded(q) = U(r) /\ Folded(q)' = U(r)
  BY <1>1, <1>2, <1>3, <1>4, FoldedIs
<1>6. \A s \in Slots : Owner(s) \in Ranks /\ Owner(s)' = Owner(s) /\ s \in LocalSlots(Owner(s))
  BY <1>1, OwnerIs, OwnerKept DEF Typed
<1>7. /\ Folded(Leader)' = Folded(Leader) /\ GlobalCarry' = GlobalCarry
      /\ (tracker[Leader])' = tracker[Leader]
  <2>1. \A s \in Slots :
          (IF U(Owner(s))' = Folded(r) THEN carry'[s] ELSE out'[s])
            = (IF U(Owner(s)) = Folded(r) THEN carry[s] ELSE out[s])
    BY <1>1, <1>4, <1>6
  <2>2. \A q \in Ranks : Folded(q) <= Folded(r) /\ Folded(q)' <= Folded(r)' /\ Folded(q)' \in Nat
    BY <1>1, <1>5
  <2> QED
    BY <1>1, <1>5, <2>1, <2>2, SameState
<1>8. CASE r # Primary
  <2>1. file' = file
    BY <1>8 DEF Collect
  <2> QED
    BY <1>1, <1>7, <2>1, SavedKept, Stutters
<1>9. CASE r = Primary
  <2>1. file' = Checkpoint /\ file' # None
    BY <1>1, <1>9 DEF Collect, Checkpoint, NoneIsNoFile
  <2>2. Folded(Leader) = U(r) /\ tracker[Leader] = tracker[r]
    BY <1>1, <1>5, LeaderIs
  <2>3. ASSUME NEW s \in Slots
        PROVE  file'.ranks[Owner(s)'].carry[s] = GlobalCarry[s]
    <3>1. bundle[Owner(s)].carry[s] = carry[s]
      BY <1>2, <1>6 DEF StreamInv, Over
    <3>2. GlobalCarry[s] = carry[s]
      BY <1>2, <1>6, <2>2 DEF GlobalCarry, U
    <3> QED
      BY <1>6, <2>1, <3>1, <3>2 DEF Checkpoint
  <2>4. Len(file'.mean) = Folded(Leader) /\ file'.tracker = tracker[Leader]
    BY <1>9, <2>1, <2>2 DEF Checkpoint, U
  <2>5. GlobalCarry = [s \in Slots |-> file'.ranks[Owner(s)'].carry[s]]
    BY <2>3 DEF GlobalCarry
  <2>6. SavedState' = Reference!State
    BY <2>1, <2>4, <2>5 DEF SavedState, Reference!State
  <2> QED
    BY <1>1, <1>7, <2>6, SettingKept DEF Reference!MakeCheckpoint
<1> QED
  BY <1>8, <1>9

(* New processes start from what the file says, or from nothing.            *)
LEMMA StartMaps ==
  ASSUME IInv, IInv', LeaderInv', NewProcesses, tape' = tape, NEW m \in Models, NEW t,
         mean' = Everywhere(m), tracker' = Everywhere(t),
         [updates |-> Len(m), carried |-> [s \in Slots |-> carry'[s]], estimate |-> t]
           \in {SavedState, Reference!Fresh}
  PROVE  Reference!StartRun
<1>1. setting' = setting /\ file' = file
  BY DEF NewProcesses, NewRun
<1>2. Ranks' = Ranks /\ Primary \in Ranks /\ setting \in Settings
  BY <1>1, SettingKept, SettingFacts DEF IInv, Typed
<1>3. \A r \in Ranks : pc'[r] = "loop" /\ U(r)' = Len(m) /\ tracker'[r] = t
  BY DEF NewProcesses, Everywhere, U
<1>4. Len(m) \in Nat
  BY LenProperties DEF Models
<1>5. \A r \in Ranks : Folded(r)' = Len(m)
  BY <1>3, <1>4, FoldedIs
<1>6. Folded(Leader)' = Len(m) /\ (tracker[Leader])' = t
  BY <1>1, <1>2, <1>3, <1>4, <1>5, NextLeaderIs
<1>7. GlobalCarry' = [s \in Slots |-> carry'[s]]
  <2>1. \A s \in Slots : Owner(s)' \in Ranks
    BY <1>1, <1>2, OwnerIs, OwnerKept
  <2>2. \A s \in Slots : Len(mean'[Owner(s)']) = Folded(Leader)'
    BY <1>3, <1>6, <2>1 DEF U
  <2> QED
    BY <2>2 DEF GlobalCarry
<1>8. Reference!State' =
        [updates |-> Len(m), carried |-> [s \in Slots |-> carry'[s]], estimate |-> t]
  BY <1>6, <1>7 DEF Reference!State
<1>9. Duplicates' = Duplicates /\ SavedState' = SavedState
  BY <1>1, SettingKept, SavedKept
<1> QED
  BY <1>8, <1>9 DEF Reference!StartRun

LEMMA StepMaps ==
  ASSUME NoneIsNoFile, ReferenceInv, ReferenceInv', LeaderInv, LeaderInv', [Next]_vars
  PROVE  Reference!ReferenceNext \/ UNCHANGED Reference!refvars
<1> USE DEF ReferenceInv, Reference!ReferenceNext
<1>1. ASSUME NEW r \in Ranks, RankStep(r)
      PROVE  Reference!ReferenceNext \/ UNCHANGED Reference!refvars
  <2>1. UNCHANGED <<setting, tape>> /\ Typed /\ PathInv /\ NoiseInv /\ ShardInv
    BY <1>1, SameTraining DEF IInv
  <2>2. CASE NextBatch(r) \/ SplitSample(r) \/ OrdinaryPass(r) \/ Finish(r) \/ Leave(r)
    <3>1. UNCHANGED <<file, mean, tracker, carry, out>>
      BY <2>2 DEF NextBatch, SplitSample, OrdinaryPass, Finish, Leave, history
    <3>2. pc[r] # "reduce" /\ pc'[r] # "reduce"
      BY <2>1, <2>2 DEF NextBatch, SplitSample, OrdinaryPass, Finish, Leave, Goto,
         Typed, RankTyped
    <3>3. \A q \in Ranks : (pc'[q] = "reduce") <=> (pc[q] = "reduce")
      BY <1>1, <2>1, <3>2, OthersKept
    <3> QED
      BY <2>1, <3>1, <3>3, QuietStep
  <2>3. CASE Forward(r) \/ MeanPass(r)
    BY <1>1, <2>3, PassStutters
  <2>4. CASE Gather(r)
    BY <1>1, <2>4, GatherMaps
  <2>5. CASE Reduce(r)
    BY <1>1, <2>5, ReduceStutters
  <2>6. CASE SplitUpdate(r)
    BY <1>1, <2>6, SplitUpdateMaps
  <2>7. CASE Collect(r)
    BY <1>1, <2>7, CollectMaps
  <2> QED
    BY <1>1, <2>2, <2>3, <2>4, <2>5, <2>6, <2>7 DEF RankStep
<1>2. CASE Crash \/ RefuseResume \/ UNCHANGED vars
  <2>1. UNCHANGED <<setting, tape, file, mean, tracker, carry, out, pc>>
    BY <1>2 DEF Crash, RefuseResume, NewRun, vars
  <2> QED
    BY <2>1, QuietStep
<1>3. CASE StartFresh
  <2>1. NewProcesses /\ tape' = tape /\ mean' = Everywhere(<<>>)
        /\ tracker' = Everywhere(FreshTracker) /\ carry' = NewCarry
    BY <1>3 DEF StartFresh, NewProcesses, NewRun
  <2>2. <<>> \in Models /\ Len(<<>>) = 0
    BY EmptySeq DEF Models
  <2>3. [updates |-> Len(<<>>), carried |-> [s \in Slots |-> carry'[s]],
         estimate |-> FreshTracker] = Reference!Fresh
    <3>1. [s \in Slots |-> carry'[s]] = NewCarry
      BY <2>1 DEF NewCarry
    <3> QED
      BY <2>2, <3>1, StartingCarry DEF IInv, Typed
  <2> QED
    BY <2>1, <2>2, <2>3, StartMaps
<1>4. CASE Resume
  <2>1. /\ NewProcesses /\ tape' = tape /\ mean' = Everywhere(file.mean)
        /\ tracker' = Everywhere(file.tracker) /\ file # None
        /\ carry' = [s \in Slots |-> file.ranks[Owner(s)].carry[s]]
    BY <1>4 DEF Resume, NewProcesses, NewRun
  <2>2. file.mean \in Models
    BY <2>1 DEF IInv, Typed, FileTyped
  <2>3. [updates |-> Len(file.mean), carried |-> [s \in Slots |-> carry'[s]],
         estimate |-> file.tracker] = SavedState
    <3>1. [s \in Slots |-> carry'[s]] = [s \in Slots |-> file.ranks[Owner(s)].carry[s]]
      BY <2>1
    <3> QED
      BY <2>1, <3>1 DEF SavedState
  <2> QED
    BY <2>1, <2>2, <2>3, StartMaps
<1> QED
  BY <1>1, <1>2, <1>3, <1>4 DEF Next

LEMMA InitMaps ==
  ASSUME Init, IInv, LeaderInv
  PROVE  Reference!ReferenceInit
<1>1. setting \in Settings /\ Leader \in Ranks /\ Len(<<>>) = 0
  BY EmptySeq DEF IInv, Typed, LeaderInv
<1>2. \A r \in Ranks : mean[r] = <<>> /\ pc[r] = "loop" /\ tracker[r] = FreshTracker
  BY DEF Init, Everywhere
<1>3. Folded(Leader) = 0 /\ tracker[Leader] = FreshTracker
  <2>1. \A r \in Ranks : U(r) = 0
    BY <1>1, <1>2 DEF U
  <2>2. \A r \in Ranks : Folded(r) = 0
    BY <1>2, <2>1, FoldedIs
  <2> QED
    BY <1>1, <1>2, <2>2
<1>4. GlobalCarry = NewCarry
  <2>1. \A s \in Slots : Owner(s) \in Ranks
    BY <1>1, OwnerIs
  <2>2. \A s \in Slots : GlobalCarry[s] = carry[s]
    BY <1>1, <1>2, <1>3, <2>1 DEF GlobalCarry
  <2> QED
    BY <2>2 DEF GlobalCarry, NewCarry, Init
<1>5. SavedState = Reference!Fresh /\ Reference!State = Reference!Fresh
  BY <1>1, <1>3, <1>4, StartingCarry DEF SavedState, Reference!State, Init
<1> QED
  BY <1>1, <1>5, StartingCarry DEF Reference!ReferenceInit

(* However many ranks train, in whatever order they move, crash and are     *)
(* resumed, the training is the one of a single process over the global     *)
(* batch: its failure estimates fold in every slot once per update and in   *)
(* batch order (train.py:1119-1132, fbi.py:316-323), and a run that is      *)
(* resumed continues it.  No run may be started for fewer updates than the  *)
(* one before it.                                                           *)
THEOREM TrainingImplementsReference ==
  ASSUME GrowingSchedules, NoneIsNoFile
  PROVE  Spec => ImplementsReference
<1>1. Init /\ ReferenceInv /\ LeaderInv => Reference!ReferenceInit
  BY InitMaps DEF ReferenceInv
<1>2. ReferenceInv => LeaderInv
  BY LeaderHolds DEF ReferenceInv
<1>3. ReferenceInv /\ ReferenceInv' /\ LeaderInv /\ LeaderInv' /\ [Next]_vars
        => [Reference!ReferenceNext]_(Reference!refvars)
  BY StepMaps
<1>4. Spec => []ReferenceInv
  BY ReferenceInvariant
<1> QED
  BY <1>1, <1>2, <1>3, <1>4, PTL DEF Spec, ImplementsReference, Reference!ReferenceSpec

-----------------------------------------------------------------------------
(* What an update does to the estimates: induction over the loop of the     *)
(* update (fbi.py:319-323).  The principle is stated for a set of numbers,   *)
(* since the provers cannot instantiate one that is stated for a predicate.  *)
(*                                                                          *)
(* Every set of numbers that is not empty has a least element.               *)
LEMMA LeastElement ==
  ASSUME NEW T \in SUBSET Nat, T # {}
  PROVE  \E n \in T : \A m \in T : n <= m
<1> DEFINE Below == OpToRel(<, Nat)
<1>1. IsWellFoundedOn(Below, Nat)
  BY NatLessThanWellFounded
<1>2. Below = {p \in Nat \X Nat : p[1] < p[2]}
  BY DEF OpToRel
<1> HIDE DEF Below
<1>3. PICK n \in T : \A m \in T : ~ (<<m, n>> \in Below)
  BY <1>1, WFMin
<1>4. \A m \in T : ~ (m < n)
  BY <1>2, <1>3
<1> QED
  BY <1>4

(* Induction, over the set of the numbers of which something is true.       *)
LEMMA InductionOverSet ==
  ASSUME NEW T \in SUBSET Nat, 0 \in T, \A n \in T : n + 1 \in T
  PROVE  T = Nat
<1> SUFFICES ASSUME Nat \ T # {}
             PROVE  FALSE
  OBVIOUS
<1>1. PICK n \in Nat \ T : \A m \in Nat \ T : n <= m
  BY LeastElement
<1>2. n - 1 \in Nat /\ n - 1 \notin Nat \ T
  BY <1>1
<1> QED
  BY <1>1, <1>2

(* What new estimates have that the old ones had not are observations, each *)
(* of some of the failures F.                                               *)
Grown(old, new, F) ==
  /\ Len(old) <= Len(new)
  /\ \A k \in 1 .. Len(old) : new[k] = old[k]
  /\ \A k \in Len(old) + 1 .. Len(new) : new[k] # {} /\ new[k] \subseteq F

LEMMA GrownStays ==
  ASSUME NEW A, NEW old \in Seq(A), NEW F
  PROVE  Grown(old, old, F)
<1>1. Len(old) \in Nat
  BY LenProperties
<1> QED
  BY <1>1 DEF Grown

LEMMA GrownOnce ==
  ASSUME NEW A, NEW old \in Seq(A), NEW new \in Seq(A), NEW F, Grown(old, new, F),
         NEW x \in A, x # {}, x \subseteq F
  PROVE  Append(new, x) \in Seq(A) /\ Grown(old, Append(new, x), F)
<1>1. Len(old) \in Nat /\ Len(new) \in Nat /\ Append(new, x) \in Seq(A)
  BY LenProperties
<1>2. /\ Len(Append(new, x)) = Len(new) + 1
      /\ \A k \in 1 .. Len(new) : Append(new, x)[k] = new[k]
      /\ Append(new, x)[Len(new) + 1] = x
  BY AppendProperties
<1> QED
  BY <1>1, <1>2 DEF Grown

-----------------------------------------------------------------------------
(* The loop of an update, turn by turn.                                     *)
Turn(t, id, failure) == [t EXCEPT ![id] = Append(@, {failure})]

Turns(after, t, n, ids, failures) ==
  after = [i \in 0 .. n |->
             IF i = 0 THEN t ELSE Turn(after[i - 1], ids[i], failures[i])]

LEMMA LoopRuns ==
  ASSUME NEW t, NEW n \in Nat, NEW ids, NEW failures
  PROVE  \E after : Turns(after, t, n, ids, failures)
<1> DEFINE T == {m \in Nat : \E after : Turns(after, t, m, ids, failures)}
<1>1. 0 \in T
  <2> DEFINE start == [i \in 0 .. 0 |-> t]
  <2>1. start = [i \in 0 .. 0 |->
                   IF i = 0 THEN t ELSE Turn(start[i - 1], ids[i], failures[i])]
    OBVIOUS
  <2>2. Turns(start, t, 0, ids, failures)
    BY <2>1 DEF Turns
  <2> QED
    BY <2>2
<1>2. ASSUME NEW m \in T
      PROVE  m + 1 \in T
  <2>1. PICK before : Turns(before, t, m, ids, failures)
    OBVIOUS
  <2> DEFINE after == [i \in 0 .. m + 1 |->
                         IF i <= m THEN before[i]
                         ELSE Turn(before[m], ids[m + 1], failures[m + 1])]
  <2>2. ASSUME NEW i \in 0 .. m + 1
        PROVE  after[i] = IF i = 0 THEN t ELSE Turn(after[i - 1], ids[i], failures[i])
    <3>1. CASE i = m + 1
      <4>1. after[i - 1] = before[m] /\ i # 0
        BY <3>1
      <4>2. after[i] = Turn(before[m], ids[m + 1], failures[m + 1])
        BY <3>1
      <4> QED
        BY <3>1, <4>1, <4>2
    <3>2. CASE i \in 1 .. m
      <4>1. after[i - 1] = before[i - 1] /\ after[i] = before[i]
        BY <3>2
      <4>2. before[i] = Turn(before[i - 1], ids[i], failures[i])
        BY <2>1, <3>2 DEF Turns
      <4> HIDE DEF after
      <4> QED
        BY <3>2, <4>1, <4>2
    <3>3. CASE i = 0
      BY <2>1, <3>3 DEF Turns
    <3> QED
      BY <3>1, <3>2, <3>3
  <2>3. DOMAIN after = 0 .. m + 1 /\ after = [i \in 0 .. m + 1 |-> after[i]]
    OBVIOUS
  <2> HIDE DEF after
  <2>4. Turns(after, t, m + 1, ids, failures)
    BY <2>2, <2>3 DEF Turns
  <2> QED
    BY <2>4
<1> HIDE DEF T
<1>3. T = Nat
  <2>1. T \in SUBSET Nat
    BY DEF T
  <2> QED
    BY <1>1, <1>2, <2>1, InductionOverSet
<1> QED
  BY <1>3 DEF T

LEMMA SequentialIs ==
  ASSUME NEW t, NEW ids, NEW failures, Len(ids) \in Nat
  PROVE  \E after : /\ Turns(after, t, Len(ids), ids, failures)
                    /\ SequentialUpdate(t, ids, failures) = after[Len(ids)]
<1> DEFINE Loop(after) == Turns(after, t, Len(ids), ids, failures)
<1>1. SequentialUpdate(t, ids, failures) = (CHOOSE after : Loop(after))[Len(ids)]
  BY DEF SequentialUpdate, Turns, Turn
<1>2. \E after : Loop(after)
  BY LoopRuns
<1> HIDE DEF Loop
<1>3. Loop(CHOOSE after : Loop(after))
  BY <1>2
<1> QED
  BY <1>1, <1>3 DEF Loop

(* The failures of the slots that visit group g.                            *)
Visits(g, n, ids, failures) == {failures[i] : i \in {j \in 1 .. n : ids[j] = g}}

LEMMA SequentialGrows ==
  ASSUME NEW A, NEW t \in [Groups -> Seq(SUBSET A)], NEW ids \in Seq(Groups),
         NEW failures \in [1 .. Len(ids) -> A]
  PROVE  /\ SequentialUpdate(t, ids, failures) \in [Groups -> Seq(SUBSET A)]
         /\ \A g \in Groups :
              Grown(t[g], SequentialUpdate(t, ids, failures)[g],
                    Visits(g, Len(ids), ids, failures))
<1>1. Len(ids) \in Nat /\ DOMAIN ids = 1 .. Len(ids)
  BY LenProperties
<1>2. PICK n \in Nat : n = Len(ids)
  BY <1>1
<1>3. PICK after : Turns(after, t, n, ids, failures)
                   /\ SequentialUpdate(t, ids, failures) = after[n]
  BY <1>1, <1>2, SequentialIs
<1> DEFINE Good(x) == /\ x \in [Groups -> Seq(SUBSET A)]
                      /\ \A g \in Groups : Grown(t[g], x[g], Visits(g, n, ids, failures))
           T == {m \in Nat : m <= n => Good(after[m])}
<1>4. after[0] = t
  BY <1>2, <1>3 DEF Turns
<1>5. Good(t)
  BY GrownStays
<1>6. ASSUME NEW m \in Nat, m + 1 <= n, Good(after[m])
      PROVE  Good(after[m + 1])
  <2>1. after[m + 1] = Turn(after[m], ids[m + 1], failures[m + 1])
    BY <1>3, <1>6 DEF Turns
  <2>2. ids[m + 1] \in Groups /\ failures[m + 1] \in A
    BY <1>1, <1>2, <1>6
  <2>3. PICK x, id, f : x = after[m] /\ id = ids[m + 1] /\ f = failures[m + 1]
    OBVIOUS
  <2>4. /\ x \in [Groups -> Seq(SUBSET A)] /\ id \in Groups /\ f \in A
        /\ Grown(t[id], x[id], Visits(id, n, ids, failures))
    BY <1>6, <2>2, <2>3
  <2>5. f \in Visits(id, n, ids, failures)
    <3>1. m + 1 \in {j \in 1 .. n : ids[j] = id}
      BY <1>6, <2>3
    <3> QED
      BY <2>3, <3>1 DEF Visits
  <2>6. /\ Append(x[id], {f}) \in Seq(SUBSET A)
        /\ Grown(t[id], Append(x[id], {f}), Visits(id, n, ids, failures))
    <3>1. {f} \in SUBSET A /\ {f} # {} /\ {f} \subseteq Visits(id, n, ids, failures)
          /\ t[id] \in Seq(SUBSET A) /\ x[id] \in Seq(SUBSET A)
      BY <2>4, <2>5
    <3> QED
      BY <2>4, <3>1, GrownOnce
  <2>7. after[m + 1] = [x EXCEPT ![id] = Append(x[id], {f})]
    BY <2>1, <2>3 DEF Turn
  <2>8. after[m + 1] \in [Groups -> Seq(SUBSET A)]
    BY <2>4, <2>6, <2>7
  <2>9. ASSUME NEW g \in Groups
        PROVE  Grown(t[g], after[m + 1][g], Visits(g, n, ids, failures))
    <3>1. CASE g = id
      BY <2>4, <2>6, <2>7, <3>1
    <3>2. CASE g # id
      BY <1>6, <2>3, <2>4, <2>7, <3>2
    <3> QED
      BY <3>1, <3>2
  <2> QED
    BY <2>8, <2>9
<1> HIDE DEF Good
<1>7. T = Nat
  <2>1. T \in SUBSET Nat /\ 0 \in T
    BY <1>4, <1>5
  <2>2. \A m \in T : m + 1 \in T
    BY <1>6
  <2> HIDE DEF T
  <2> QED
    BY <2>1, <2>2, InductionOverSet
<1>8. Good(after[n])
  BY <1>7
<1> QED
  BY <1>2, <1>3, <1>8 DEF Good

LEMMA GroupMeanGrows ==
  ASSUME NEW A, NEW t \in [Groups -> Seq(SUBSET A)], NEW ids \in Seq(Groups),
         NEW failures \in [1 .. Len(ids) -> A]
  PROVE  /\ GroupMeanUpdate(t, ids, failures) \in [Groups -> Seq(SUBSET A)]
         /\ \A g \in Groups :
              Grown(t[g], GroupMeanUpdate(t, ids, failures)[g],
                    Visits(g, Len(ids), ids, failures))
<1>1. DOMAIN ids = 1 .. Len(ids)
  BY LenProperties
<1>2. ASSUME NEW g \in Groups
      PROVE  /\ GroupMeanUpdate(t, ids, failures)[g] \in Seq(SUBSET A)
             /\ Grown(t[g], GroupMeanUpdate(t, ids, failures)[g],
                      Visits(g, Len(ids), ids, failures))
  <2>1. PICK V : V = Visits(g, Len(ids), ids, failures)
    OBVIOUS
  <2>2. V = {failures[i] : i \in {j \in DOMAIN ids : ids[j] = g}}
    BY <1>1, <2>1 DEF Visits
  <2>3. GroupMeanUpdate(t, ids, failures)[g] = IF V = {} THEN t[g] ELSE Append(t[g], V)
    BY <2>2 DEF GroupMeanUpdate
  <2>4. V \in SUBSET A /\ t[g] \in Seq(SUBSET A)
    BY <1>1, <2>2
  <2>5. Grown(t[g], t[g], V)
    BY <2>4, GrownStays
  <2>6. V # {} => Append(t[g], V) \in Seq(SUBSET A) /\ Grown(t[g], Append(t[g], V), V)
    BY <2>4, <2>5, GrownOnce
  <2> QED
    BY <2>1, <2>3, <2>4, <2>5, <2>6
<1> QED
  BY <1>2 DEF GroupMeanUpdate

LEMMA TrackerGrows ==
  ASSUME NEW A, NEW t \in [Groups -> Seq(SUBSET A)], NEW ids \in Seq(Groups),
         NEW failures \in [1 .. Len(ids) -> A], NEW d
  PROVE  /\ TrackerUpdate(t, ids, failures, d) \in [Groups -> Seq(SUBSET A)]
         /\ \A g \in Groups :
              Grown(t[g], TrackerUpdate(t, ids, failures, d)[g],
                    Visits(g, Len(ids), ids, failures))
<1>1. CASE d = "group_mean"
  BY <1>1, GroupMeanGrows DEF TrackerUpdate
<1>2. CASE d # "group_mean"
  BY <1>2, SequentialGrows DEF TrackerUpdate
<1> QED
  BY <1>1, <1>2

(* A batch that visits no group twice adds one observation to each group it *)
(* visits.                                                                  *)
FoldedOnce(x, A, t, m, ids, failures) ==
  /\ x \in [Groups -> Seq(SUBSET A)]
  /\ \A i \in 1 .. m : x[ids[i]] = Append(t[ids[i]], {failures[i]})
  /\ \A g \in Groups : (\A i \in 1 .. m : ids[i] # g) => x[g] = t[g]

LEMMA TurnsWithoutDuplicates ==
  ASSUME NEW A, NEW t \in [Groups -> Seq(SUBSET A)], NEW ids \in Seq(Groups),
         NEW failures \in [1 .. Len(ids) -> A],
         \A i, j \in 1 .. Len(ids) : ids[i] = ids[j] => i = j,
         NEW after, Turns(after, t, Len(ids), ids, failures)
  PROVE  FoldedOnce(after[Len(ids)], A, t, Len(ids), ids, failures)
<1>1. Len(ids) \in Nat /\ DOMAIN ids = 1 .. Len(ids) /\ \A i \in 1 .. Len(ids) : ids[i] \in Groups
  BY LenProperties, ElementOfSeq
<1>2. PICK n \in Nat : n = Len(ids) /\ Turns(after, t, n, ids, failures)
  BY <1>1
<1> DEFINE Good(m) ==
             /\ after[m] \in [Groups -> Seq(SUBSET A)]
             /\ \A i \in 1 .. m : after[m][ids[i]] = Append(t[ids[i]], {failures[i]})
             /\ \A g \in Groups : (\A i \in 1 .. m : ids[i] # g) => after[m][g] = t[g]
           T == {m \in Nat : m <= n => Good(m)}
<1>3. Good(0)
  <2>1. after[0] = t
    BY <1>2 DEF Turns
  <2> QED
    BY <2>1
<1>4. ASSUME NEW m \in Nat, m + 1 <= n, Good(m)
      PROVE  Good(m + 1)
  <2>1. after[m + 1] = Turn(after[m], ids[m + 1], failures[m + 1])
    BY <1>2, <1>4 DEF Turns
  <2>2. PICK x, id, f : x = after[m] /\ id = ids[m + 1] /\ f = failures[m + 1]
    OBVIOUS
  <2>3. id \in Groups /\ x \in [Groups -> Seq(SUBSET A)] /\ {f} \in SUBSET A
    <3>1. m + 1 \in 1 .. Len(ids)
      BY <1>2, <1>4
    <3>2. id \in Groups /\ f \in A
      BY <1>1, <2>2, <3>1
    <3> QED
      BY <1>4, <2>2, <3>2
  <2>4. after[m + 1] = [x EXCEPT ![id] = Append(x[id], {f})]
    BY <2>1, <2>2 DEF Turn
  <2>5. after[m + 1] = [g \in Groups |-> IF g = id THEN Append(x[id], {f}) ELSE x[g]]
    BY <2>3, <2>4
  <2>6. \A i \in 1 .. m : ids[i] # id /\ ids[i] \in Groups
    BY <1>1, <1>2, <1>4, <2>2
  <2>7. x[id] = t[id]
    BY <1>4, <2>2, <2>3, <2>6
  <2>8. ASSUME NEW i \in 1 .. m + 1
        PROVE  after[m + 1][ids[i]] = Append(t[ids[i]], {failures[i]})
    <3>1. CASE i = m + 1
      BY <2>2, <2>3, <2>5, <2>7, <3>1
    <3>2. CASE i \in 1 .. m
      BY <1>4, <2>2, <2>5, <2>6, <3>2
    <3> QED
      BY <1>4, <3>1, <3>2
  <2>9. ASSUME NEW g \in Groups, \A i \in 1 .. m + 1 : ids[i] # g
        PROVE  after[m + 1][g] = t[g]
    <3>1. g # id /\ \A i \in 1 .. m : ids[i] # g
      BY <1>4, <2>2, <2>9
    <3> QED
      BY <1>4, <2>2, <2>5, <3>1
  <2>10. after[m + 1] \in [Groups -> Seq(SUBSET A)]
    <3>1. Append(x[id], {f}) \in Seq(SUBSET A)
      BY <2>3
    <3> QED
      BY <2>3, <2>4, <3>1
  <2> QED
    BY <2>8, <2>9, <2>10
<1> HIDE DEF Good
<1>5. T = Nat
  <2>1. T \in SUBSET Nat /\ 0 \in T
    BY <1>3
  <2>2. \A m \in T : m + 1 \in T
    BY <1>4
  <2> HIDE DEF T
  <2> QED
    BY <2>1, <2>2, InductionOverSet
<1>6. Good(Len(ids))
  BY <1>2, <1>5
<1> QED
  BY <1>6 DEF Good, FoldedOnce

(* A batch that visits no group twice is folded in the same way by both     *)
(* modes of update (fbi.py:303-323): they differ in nothing but duplicates. *)
THEOREM ModesDifferByDuplicatesOnly ==
  ASSUME NEW A, NEW t \in [Groups -> Seq(SUBSET A)], NEW ids \in Seq(Groups),
         NEW failures \in [1 .. Len(ids) -> A],
         \A i, j \in 1 .. Len(ids) : ids[i] = ids[j] => i = j
  PROVE  SequentialUpdate(t, ids, failures) = GroupMeanUpdate(t, ids, failures)
<1>1. Len(ids) \in Nat /\ DOMAIN ids = 1 .. Len(ids)
  BY LenProperties
<1>2. PICK after : /\ Turns(after, t, Len(ids), ids, failures)
                   /\ SequentialUpdate(t, ids, failures) = after[Len(ids)]
  BY <1>1, SequentialIs
<1>3. PICK new : new = SequentialUpdate(t, ids, failures)
  OBVIOUS
<1>4. /\ new \in [Groups -> Seq(SUBSET A)]
      /\ \A i \in 1 .. Len(ids) : new[ids[i]] = Append(t[ids[i]], {failures[i]})
      /\ \A g \in Groups : (\A i \in 1 .. Len(ids) : ids[i] # g) => new[g] = t[g]
  <2>1. FoldedOnce(after[Len(ids)], A, t, Len(ids), ids, failures)
    BY <1>2, TurnsWithoutDuplicates
  <2> QED
    BY <1>2, <1>3, <2>1 DEF FoldedOnce
<1>5. ASSUME NEW g \in Groups
      PROVE  GroupMeanUpdate(t, ids, failures)[g] = new[g]
  <2>1. PICK V : V = Visits(g, Len(ids), ids, failures)
    OBVIOUS
  <2>2. GroupMeanUpdate(t, ids, failures)[g] = IF V = {} THEN t[g] ELSE Append(t[g], V)
    BY <1>1, <2>1 DEF GroupMeanUpdate, Visits
  <2>3. CASE \A i \in 1 .. Len(ids) : ids[i] # g
    <3>1. V = {}
      BY <2>1, <2>3 DEF Visits
    <3> QED
      BY <1>4, <2>2, <2>3, <3>1
  <2>4. CASE \E i \in 1 .. Len(ids) : ids[i] = g
    <3>1. PICK i \in 1 .. Len(ids) : ids[i] = g
      BY <2>4
    <3>2. \A j \in 1 .. Len(ids) : ids[j] = g <=> j = i
      BY <3>1
    <3>3. V = {failures[i]}
      BY <2>1, <3>2 DEF Visits
    <3> QED
      BY <1>4, <2>2, <3>1, <3>3
  <2> QED
    BY <2>3, <2>4
<1>6. GroupMeanUpdate(t, ids, failures)
        = [g \in Groups |-> GroupMeanUpdate(t, ids, failures)[g]]
  BY DEF GroupMeanUpdate
<1> QED
  BY <1>3, <1>4, <1>5, <1>6

-----------------------------------------------------------------------------
(* The failures of the first n updates, and estimates made of them.         *)
FailuresBy(n) == {f \in Failure : f.step <= n}
FailuresOf(n) == {f \in Failure : f.step = n}
Estimates(n) == [Groups -> Seq(SUBSET FailuresBy(n))]

(* What a slot can hold: an example that was dealt, or, at the start, none. *)
Works == [row : DOMAIN tape, halted : BOOLEAN] \cup {[row |-> 0, halted |-> TRUE]}

WorkInv ==
  /\ tape \in Tapes /\ alive \in BOOLEAN
  /\ carry \in [Slots -> Works] /\ out \in [Slots -> Works]
  /\ file # None => \A s \in Slots : file.ranks[Owner(s)].carry[s] \in Works

(* A run enters at most two collectives in an update.                       *)
CallsInv == \A r \in Ranks : calls[r] <= 2 * U(r) + Off(pc[r])

(* The estimates of a rank, and those of the file, are made of the failures *)
(* of the updates it has folded in.                                         *)
FoldsInv ==
  /\ tracker \in [Ranks -> [Groups -> Seq(SUBSET Failure)]]
  /\ \A r \in Ranks : tracker[r] \in Estimates(Folded(r))
  /\ file # None => file.tracker \in Estimates(Len(file.mean))

(* What weights the loss is what the estimates were; what they have since   *)
(* is of this step.                                                         *)
WeightInv ==
  \A s \in Slots :
    LET r == Owner(s)
    IN  /\ pc[r] \in {"gather", "split"} => weight[s] = tracker[r][sent[s].group]
        /\ pc[r] = "reduce" =>
             /\ weight[s] \in Seq(SUBSET FailuresBy(U(r)))
             /\ Grown(weight[s], tracker[r][sent[s].group], FailuresOf(step[r]))

LagInv == ReferenceInv /\ WorkInv /\ CallsInv /\ FoldsInv /\ WeightInv

-----------------------------------------------------------------------------
(* The longest run.                                                         *)
LEMMA HasMaximum ==
  ASSUME NEW c \in Seq(Nat), c # <<>>
  PROVE  \E m \in {c[k] : k \in DOMAIN c} : \A k \in DOMAIN c : c[k] <= m
<1>1. Len(c) \in Nat /\ Len(c) > 0 /\ DOMAIN c = 1 .. Len(c)
  BY LenProperties, EmptySeq
<1> DEFINE T == {n \in Nat : n \in 1 .. Len(c) =>
                               \E j \in 1 .. n : \A k \in 1 .. n : c[k] <= c[j]}
<1>2. T \in SUBSET Nat /\ 0 \in T
  OBVIOUS
<1>3. ASSUME NEW n \in T
      PROVE  n + 1 \in T
  <2> SUFFICES ASSUME n + 1 \in 1 .. Len(c)
               PROVE  \E j \in 1 .. n + 1 : \A k \in 1 .. n + 1 : c[k] <= c[j]
    OBVIOUS
  <2>1. \A k \in 1 .. n + 1 : c[k] \in Nat
    BY <1>1, ElementOfSeq
  <2>2. CASE n = 0
    BY <2>1, <2>2
  <2>3. CASE n > 0
    <3>1. PICK j \in 1 .. n : \A k \in 1 .. n : c[k] <= c[j]
      BY <2>3
    <3>2. CASE c[n + 1] <= c[j]
      <4>1. \A k \in 1 .. n + 1 : c[k] <= c[j]
        BY <3>1, <3>2
      <4>2. j \in 1 .. n + 1
        BY <3>1
      <4> QED
        BY <4>1, <4>2
    <3>3. CASE ~(c[n + 1] <= c[j])
      <4>1. c[j] \in Nat /\ c[n + 1] \in Nat
        BY <2>1, <3>1
      <4>2. \A k \in 1 .. n + 1 : c[k] <= c[n + 1]
        BY <2>1, <3>1, <3>3, <4>1
      <4> QED
        BY <4>2
    <3> QED
      BY <3>2, <3>3
  <2> QED
    BY <2>2, <2>3
<1> HIDE DEF T
<1>4. Len(c) \in T
  BY <1>1, <1>2, <1>3, InductionOverSet
<1>5. PICK j \in 1 .. Len(c) : \A k \in 1 .. Len(c) : c[k] <= c[j]
  BY <1>1, <1>4 DEF T
<1> QED
  BY <1>1, <1>5

LEMMA MaxUpdatesIs ==
  ASSUME setting \in Settings
  PROVE  MaxUpdates \in Nat /\ \A k \in DOMAIN Schedule : Schedule[k] <= MaxUpdates
<1>1. Schedule \in Schedules /\ Schedule \in Seq(Nat \ {0}) /\ Schedule # <<>>
  BY SettingFacts, TrainingConstants
<1>2. Schedule \in Seq(Nat)
  BY <1>1
<1>3. \E m \in {Schedule[k] : k \in DOMAIN Schedule} :
        \A k \in DOMAIN Schedule : Schedule[k] <= m
  BY <1>1, <1>2, HasMaximum
<1>4. /\ MaxUpdates \in {Schedule[k] : k \in DOMAIN Schedule}
      /\ \A k \in DOMAIN Schedule : Schedule[k] <= MaxUpdates
  BY <1>3 DEF MaxUpdates
<1> QED
  BY <1>4, SettingFacts

LEMMA TargetBelow ==
  ASSUME Typed
  PROVE  Target \in Nat /\ MaxUpdates \in Nat /\ Target <= MaxUpdates
BY MaxUpdatesIs, TargetType DEF Typed, Target

LEMMA EstimatesTyped ==
  \A n : Estimates(n) \subseteq [Groups -> Seq(SUBSET Failure)]
<1>1. \A n : Seq(SUBSET FailuresBy(n)) \subseteq Seq(SUBSET Failure)
  BY DEF FailuresBy
<1> QED
  BY <1>1 DEF Estimates

LEMMA MaxUpdatesKept ==
  ASSUME setting' = setting
  PROVE  /\ MaxUpdates' = MaxUpdates /\ Failure' = Failure
         /\ \A n : /\ FailuresBy(n)' = FailuresBy(n) /\ FailuresOf(n)' = FailuresOf(n)
                   /\ Estimates(n)' = Estimates(n)
BY SettingKept DEF MaxUpdates, Failure, FailuresBy, FailuresOf, Estimates

(* The batches up to the target are on every tape.                          *)
LEMMA StepIsDealt ==
  ASSUME IInv, GrowInv, StreamInv, tape \in Tapes, NEW r \in Ranks
  PROVE  /\ step[r] \in Nat /\ dealt[r] = step[r] /\ step[r] <= MaxUpdates
         /\ pc[r] \in Busy => step[r] = U(r) + 1 /\ step[r] \in DOMAIN tape
         /\ pc[r] \notin Busy => step[r] = U(r)
         /\ step[r] # 0 => step[r] \in DOMAIN tape
<1>1. Typed /\ U(r) \in Nat /\ step[r] \in Nat
  BY Attributes DEF IInv
<1>2. step[r] = U(r) + In(pc[r]) /\ step[r] <= Target /\ dealt[r] = step[r]
  BY DEF GrowInv, StreamInv
<1>3. Target \in Nat /\ MaxUpdates \in Nat /\ Target <= MaxUpdates
  BY <1>1, TargetBelow
<1>4. Schedule \in Schedules /\ run \in DOMAIN Schedule
  BY <1>1, SettingFacts DEF Typed
<1>5. 1 .. Target \subseteq DOMAIN tape
  BY <1>4, TapesAreLong DEF Target
<1> QED
  BY <1>1, <1>2, <1>3, <1>5 DEF In

LEMMA RowDealt ==
  ASSUME IInv, GrowInv, StreamInv, WorkInv, NEW s \in Slots, pc[Owner(s)] \in Busy
  PROVE  RowOf(s) \in DOMAIN tape /\ GroupOf(s) \in Groups
<1>1. Owner(s) \in Ranks
  BY OwnerIs DEF IInv, Typed
<1>2. dealt[Owner(s)] \in DOMAIN tape
  BY <1>1, StepIsDealt DEF WorkInv
<1>3. carry[s] \in Works
  BY DEF WorkInv
<1>4. ~carry[s].halted => carry[s].row \in DOMAIN tape
  BY <1>3 DEF Works
<1>5. RowOf(s) \in DOMAIN tape
  BY <1>2, <1>4 DEF RowOf
<1>6. tape[RowOf(s)] \in [Slots -> Groups]
  BY <1>5, TrainingConstants DEF WorkInv
<1> QED
  BY <1>5, <1>6 DEF GroupOf

(* What the slots send in an update are failures of this update.            *)
LEMMA SentIs ==
  ASSUME IInv, GrowInv, StreamInv, SentInv, WorkInv, NEW s \in Slots,
         pc[Owner(s)] \in {"gather", "reduce", "split"}
  PROVE  sent[s].group \in Groups /\ sent[s].failure \in FailuresOf(step[Owner(s)])
<1>1. Owner(s) \in Ranks /\ pc[Owner(s)] \in Busy
  BY OwnerIs DEF IInv, Typed, Busy
<1>2. RowOf(s) \in DOMAIN tape /\ GroupOf(s) \in Groups
  BY <1>1, RowDealt
<1>3. step[Owner(s)] \in 1 .. MaxUpdates
  <2>1. /\ step[Owner(s)] \in Nat /\ step[Owner(s)] <= MaxUpdates
        /\ step[Owner(s)] = U(Owner(s)) + 1 /\ U(Owner(s)) \in Nat
    BY <1>1, StepIsDealt, Attributes DEF WorkInv, IInv
  <2>2. MaxUpdates \in Nat
    BY TargetBelow DEF IInv
  <2> QED
    BY <2>1, <2>2
<1>4. RowOf(s) \in Batches
  BY <1>2 DEF Batches, WorkInv
<1>5. sent[s] = Contribution(s, step[Owner(s)])
  BY DEF SentInv
<1> QED
  BY <1>2, <1>3, <1>4, <1>5 DEF Contribution, Failure, FailuresOf

(* The estimates after an update.                                           *)
LEMMA UpdatedGrows ==
  ASSUME IInv, GrowInv, StreamInv, SentInv, WorkInv, NEW n \in Nat, NEW t \in Estimates(n),
         \A s \in Slots : /\ pc[Owner(s)] \in {"gather", "reduce", "split"}
                          /\ step[Owner(s)] = n + 1
  PROVE  /\ Updated(t) \in Estimates(n + 1)
         /\ \A g \in Groups : Grown(t[g], Updated(t)[g], FailuresOf(n + 1))
<1> DEFINE ids == [s \in Slots |-> sent[s].group]
           failures == [s \in Slots |-> sent[s].failure]
           A == FailuresBy(n + 1)
<1>1. \A s \in Slots : sent[s].group \in Groups /\ sent[s].failure \in FailuresOf(n + 1)
  BY SentIs
<1>2. \A f \in Failure : f.step \in Nat
  <2>1. MaxUpdates \in Nat
    BY TargetBelow DEF IInv
  <2> QED
    BY <2>1 DEF Failure
<1>3. FailuresOf(n + 1) \subseteq A /\ FailuresBy(n) \subseteq A
  BY <1>2 DEF FailuresOf, FailuresBy
<1>4. ids \in Seq(Groups) /\ Len(ids) = BatchSize
  BY <1>1, TrainingConstants, SeqDef DEF Slots
<1>5. failures \in [1 .. Len(ids) -> A]
  BY <1>1, <1>3, <1>4 DEF Slots
<1>6. t \in [Groups -> Seq(SUBSET A)]
  <2>1. Seq(SUBSET FailuresBy(n)) \subseteq Seq(SUBSET A)
    BY <1>3
  <2> QED
    BY <2>1 DEF Estimates
<1>7. Updated(t) = TrackerUpdate(t, ids, failures, Duplicates)
  BY DEF Updated
<1>8. \A g : Visits(g, Len(ids), ids, failures) \subseteq FailuresOf(n + 1)
  BY <1>1, <1>4 DEF Visits, Slots
<1> HIDE DEF ids, failures, A
<1>9. /\ Updated(t) \in [Groups -> Seq(SUBSET A)]
      /\ \A g \in Groups :
           Grown(t[g], Updated(t)[g], Visits(g, Len(ids), ids, failures))
  <2>1. /\ TrackerUpdate(t, ids, failures, Duplicates) \in [Groups -> Seq(SUBSET A)]
        /\ \A g \in Groups : Grown(t[g], TrackerUpdate(t, ids, failures, Duplicates)[g],
                                   Visits(g, Len(ids), ids, failures))
    BY <1>4, <1>5, <1>6, TrackerGrows, Zenon
  <2> QED
    BY <1>7, <2>1, Zenon
<1>10. \A g \in Groups : Grown(t[g], Updated(t)[g], FailuresOf(n + 1))
  BY <1>8, <1>9 DEF Grown
<1> QED
  BY <1>9, <1>10 DEF Estimates, A

-----------------------------------------------------------------------------
(* The steps of a rank.                                                     *)
LEMMA CallsRankStep ==
  ASSUME IInv, CallsInv, NEW r \in Ranks, RankStep(r)
  PROVE  CallsInv'
<1>1. Ranks' = Ranks /\ Typed /\ PathInv /\ NoiseInv /\ ShardInv
  BY SameTraining, SettingKept DEF IInv
<1>2. /\ U(r) \in Nat /\ calls[r] \in Nat /\ calls[r] <= 2 * U(r) + Off(pc[r])
  BY <1>1, Attributes DEF CallsInv
<1>3. /\ Off("loop") = 0 /\ Off("forward") = 0 /\ Off("gather") = 1 /\ Off("reduce") = 2
      /\ Off("ordinary") = 0 /\ Off("mean") = 0 /\ Off("split") = 0
      /\ Off("collect") = 1 /\ Off("barrier") = 2 /\ Off("done") = 2
  BY DEF Off
<1>4. calls'[r] <= 2 * U(r)' + Off(pc'[r])
  BY <1>1, <1>2, <1>3, RankMoves DEF Moves
<1>5. \A q \in Ranks : q # r => calls'[q] <= 2 * U(q)' + Off(pc'[q])
  BY <1>1, OthersKept DEF CallsInv
<1> QED
  BY <1>1, <1>4, <1>5 DEF CallsInv

LEMMA WorkRankStep ==
  ASSUME IInv, GrowInv, StreamInv, WorkInv, NEW r \in Ranks, RankStep(r)
  PROVE  WorkInv'
<1>1. /\ setting' = setting /\ tape' = tape /\ alive' = alive /\ alive
      /\ Typed /\ PathInv /\ ClockInv
  BY SameTraining DEF IInv, RankStep
<1>2. Works' = Works /\ Ranks' = Ranks /\ \A s : Owner(s)' = Owner(s)
  BY <1>1, OwnerKept, SettingKept DEF Works
<1>3. carry' \in [Slots -> Works] /\ out' \in [Slots -> Works]
  <2>1. CASE Forward(r) \/ MeanPass(r)
    <3>1. ForwardAndLoss(r) /\ carry' = carry /\ pc[r] \in Busy
      BY <2>1 DEF Forward, MeanPass, Busy
    <3>2. out' = [s \in Slots |-> out'[s]]
      BY <3>1 DEF ForwardAndLoss
    <3>3. ASSUME NEW s \in Slots
          PROVE  out'[s] \in Works
      <4>1. CASE Owner(s) # r
        BY <1>1, <4>1, SlotMoves DEF WorkInv
      <4>2. CASE Owner(s) = r
        <5>1. PICK h \in BOOLEAN : out'[s] = [row |-> RowOf(s), halted |-> h]
          BY <3>1, <4>2, PassSends
        <5>2. RowOf(s) \in DOMAIN tape
          BY <3>1, <4>2, RowDealt
        <5> QED
          BY <5>1, <5>2 DEF Works
      <4> QED
        BY <4>1, <4>2
    <3> QED
      BY <3>1, <3>2, <3>3 DEF WorkInv
  <2>2. CASE Reduce(r)
    BY <2>2 DEF Reduce, WorkInv
  <2>3. CASE SplitUpdate(r)
    BY <2>3 DEF SplitUpdate, WorkInv
  <2>4. CASE NextBatch(r) \/ Gather(r) \/ SplitSample(r) \/ OrdinaryPass(r)
    BY <2>4 DEF NextBatch, Gather, SplitSample, OrdinaryPass, WorkInv
  <2>5. CASE Finish(r) \/ Collect(r) \/ Leave(r)
    BY <2>5 DEF Finish, Collect, Leave, WorkInv
  <2> QED
    BY <2>1, <2>2, <2>3, <2>4, <2>5 DEF RankStep
<1>4. file' # None => \A s \in Slots : file'.ranks[Owner(s)].carry[s] \in Works
  <2>1. CASE file' = file
    BY <2>1 DEF WorkInv
  <2>2. CASE /\ Collect(r) /\ r = Primary /\ AllEntered(r) /\ pc[r] = "collect"
             /\ file' = Checkpoint
    <3>1. file'.ranks = bundle
      BY <2>2 DEF Checkpoint
    <3>2. ASSUME NEW s \in Slots
          PROVE  bundle[Owner(s)].carry[s] = carry[s]
      <4>1. Owner(s) \in Ranks /\ s \in LocalSlots(Owner(s))
        BY <1>1, OwnerIs DEF Typed
      <4>2. pc[Owner(s)] \in Over
        BY <1>1, <2>2, <4>1, AtCollect DEF Over
      <4> QED
        BY <4>1, <4>2 DEF StreamInv
    <3> QED
      BY <3>1, <3>2 DEF WorkInv
  <2> QED
    BY <2>1, <2>2, FileMoves
<1> QED
  BY <1>1, <1>2, <1>3, <1>4 DEF WorkInv

(* The ranks that meet in a gather, or the one of the split path, send the  *)
(* failures of one step.                                                    *)
LEMMA FoldTogether ==
  ASSUME IInv, GrowInv, StreamInv, SentInv, WorkInv, FoldsInv, NEW r \in Ranks, RankStep(r),
         Gather(r) \/ SplitUpdate(r)
  PROVE  /\ U(r) \in Nat /\ step[r] = U(r) + 1 /\ Folded(r) = U(r)
         /\ tracker'[r] \in Estimates(U(r) + 1)
         /\ \A g \in Groups : Grown(tracker[r][g], tracker'[r][g], FailuresOf(U(r) + 1))
<1>1. /\ Typed /\ PathInv /\ ClockInv /\ U(r) \in Nat /\ alive /\ DOMAIN tracker = Ranks
      /\ pc[r] \in {"gather", "split"} /\ pc[r] \in Busy /\ pc[r] # "reduce"
  BY Attributes DEF IInv, RankStep, Typed, RankTyped, Gather, SplitUpdate, Busy
<1>2. step[r] = U(r) + 1 /\ Folded(r) = U(r)
  BY <1>1, StepIsDealt, FoldedIs DEF WorkInv
<1>3. tracker'[r] = Updated(tracker[r])
  BY <1>1 DEF Gather, SplitUpdate
<1>4. tracker[r] \in Estimates(U(r))
  BY <1>2 DEF FoldsInv
<1>5. ASSUME NEW s \in Slots
      PROVE  pc[Owner(s)] \in {"gather", "reduce", "split"} /\ step[Owner(s)] = U(r) + 1
  <2>1. Owner(s) \in Ranks
    BY <1>1, OwnerIs DEF Typed
  <2>2. CASE Gather(r)
    <3>1. pc[r] = "gather" /\ AllEntered(r)
      BY <2>2 DEF Gather
    <3> QED
      BY <1>1, <1>2, <2>1, <3>1, AtGather
  <2>3. CASE SplitUpdate(r)
    <3>1. pc[r] = "split" /\ Ranks = {r}
      BY <1>1, <2>3, SettingFacts DEF SplitUpdate, PathInv, Typed
    <3> QED
      BY <1>2, <2>1, <3>1
  <2> QED
    BY <2>2, <2>3
<1>6. /\ Updated(tracker[r]) \in Estimates(U(r) + 1)
      /\ \A g \in Groups : Grown(tracker[r][g], Updated(tracker[r])[g], FailuresOf(U(r) + 1))
  BY <1>1, <1>4, <1>5, UpdatedGrows
<1> QED
  BY <1>1, <1>2, <1>3, <1>6

LEMMA FoldsRankStep ==
  ASSUME IInv, GrowInv, StreamInv, SentInv, WorkInv, FoldsInv, NEW r \in Ranks, RankStep(r)
  PROVE  FoldsInv'
<1>1. /\ setting' = setting /\ Typed /\ PathInv /\ NoiseInv /\ ShardInv /\ ClockInv
      /\ U(r) \in Nat /\ Ranks' = Ranks
  BY SameTraining, SettingKept, Attributes DEF IInv
<1>2. \A n : Estimates(n)' = Estimates(n)
  BY <1>1, MaxUpdatesKept
<1>3. tracker'[r] \in Estimates(Folded(r)')
  <2>1. CASE Gather(r) \/ SplitUpdate(r)
    <3>1. Folded(r)' = U(r) + 1
      BY <1>1, <2>1, RankMoves, FoldedIs DEF Moves, Gather, SplitUpdate, NextBatch, Forward,
         Reduce, SplitSample, OrdinaryPass, MeanPass, Finish, Collect, Leave
    <3> QED
      BY <2>1, <3>1, FoldTogether
  <2>2. CASE ~Gather(r) /\ ~SplitUpdate(r)
    <3>1. tracker' = tracker
      BY <2>2 DEF RankStep, NextBatch, Forward, Reduce, SplitSample, OrdinaryPass, MeanPass,
         Finish, Collect, Leave
    <3>2. Folded(r)' = Folded(r)
      BY <1>1, <2>2, RankMoves, FoldedIs DEF Moves
    <3> QED
      BY <3>1, <3>2 DEF FoldsInv
  <2> QED
    BY <2>1, <2>2
<1>4. ASSUME NEW q \in Ranks, q # r
      PROVE  tracker'[q] \in Estimates(Folded(q)')
  <2>1. tracker'[q] = tracker[q] /\ pc'[q] = pc[q] /\ mean'[q] = mean[q]
    BY <1>1, <1>4, OthersKept
  <2>2. Folded(q)' = Folded(q)
    BY <2>1 DEF Folded
  <2> QED
    BY <2>1, <2>2 DEF FoldsInv
<1>5. file' # None => file'.tracker \in Estimates(Len(file'.mean))
  <2>1. CASE file' = file
    BY <2>1 DEF FoldsInv
  <2>2. CASE r = Primary /\ pc[r] = "collect" /\ file' = Checkpoint
    <3>1. file'.tracker = tracker[r] /\ Len(file'.mean) = U(r)
      BY <2>2 DEF Checkpoint, U
    <3>2. Folded(r) = U(r)
      BY <1>1, <2>2, FoldedIs
    <3> QED
      BY <3>1, <3>2 DEF FoldsInv
  <2> QED
    BY <2>1, <2>2, FileMoves
<1>6. tracker' \in [Ranks -> [Groups -> Seq(SUBSET Failure)]]
  <2>1. tracker' = tracker \/ tracker' = [tracker EXCEPT ![r] = tracker'[r]]
    BY DEF RankStep, NextBatch, Forward, Gather, Reduce, SplitSample, OrdinaryPass, MeanPass,
       SplitUpdate, Finish, Collect, Leave, FoldsInv
  <2>2. tracker'[r] \in [Groups -> Seq(SUBSET Failure)]
    BY <1>3, EstimatesTyped
  <2> QED
    BY <2>1, <2>2 DEF FoldsInv
<1>7. Failure' = Failure
  BY <1>1, MaxUpdatesKept
<1> QED
  BY <1>1, <1>2, <1>3, <1>4, <1>5, <1>6, <1>7 DEF FoldsInv

(* A slot's weight is set by its owner's pass only.                         *)
LEMMA PassWeighs ==
  ASSUME NEW r \in Ranks, Forward(r) \/ MeanPass(r), NEW s \in Slots
  PROVE  /\ Owner(s) # r => weight'[s] = weight[s]
         /\ Owner(s) = r => weight'[s] = tracker'[r][sent'[s].group]
<1>1. ForwardAndLoss(r) /\ tracker' = tracker
  BY DEF Forward, MeanPass
<1> QED
  BY <1>1 DEF ForwardAndLoss

LEMMA WeightMoves ==
  ASSUME NEW r \in Ranks, RankStep(r), NEW s \in Slots, Owner(s) # r
  PROVE  weight'[s] = weight[s]
BY PassWeighs DEF RankStep, NextBatch, Gather, Reduce, SplitSample, OrdinaryPass, SplitUpdate,
   Finish, Collect, Leave

LEMMA WeightRankStep ==
  ASSUME IInv, GrowInv, StreamInv, SentInv, WorkInv, FoldsInv, WeightInv,
         NEW r \in Ranks, RankStep(r)
  PROVE  WeightInv'
<1>1. /\ setting' = setting /\ Typed /\ PathInv /\ NoiseInv /\ ShardInv
      /\ \A s : Owner(s)' = Owner(s)
      /\ \A n : FailuresBy(n)' = FailuresBy(n) /\ FailuresOf(n)' = FailuresOf(n)
  BY SameTraining, OwnerKept, MaxUpdatesKept DEF IInv
<1>2. ASSUME NEW s \in Slots, Owner(s) # r
      PROVE  /\ weight'[s] = weight[s] /\ sent'[s] = sent[s] /\ pc'[Owner(s)] = pc[Owner(s)]
             /\ tracker'[Owner(s)] = tracker[Owner(s)] /\ U(Owner(s))' = U(Owner(s))
             /\ step'[Owner(s)] = step[Owner(s)] /\ mean'[Owner(s)] = mean[Owner(s)]
  BY <1>1, <1>2, OwnerIs, OthersKept, SlotMoves, WeightMoves DEF Typed
<1>3. ASSUME NEW s \in Slots, Owner(s) = r, pc'[r] \in {"gather", "split"}
      PROVE  weight'[s] = tracker'[r][sent'[s].group]
  <2>1. Forward(r) \/ MeanPass(r)
    BY <1>1, <1>3, RankMoves DEF Moves
  <2> QED
    BY <1>3, <2>1, PassWeighs
<1>4. ASSUME NEW s \in Slots, Owner(s) = r, pc'[r] = "reduce"
      PROVE  /\ weight'[s] \in Seq(SUBSET FailuresBy(U(r)'))
             /\ Grown(weight'[s], tracker'[r][sent'[s].group], FailuresOf(step'[r]))
  <2>1. Gather(r) /\ pc[r] = "gather" /\ step'[r] = step[r] /\ U(r)' = U(r)
    <3>1. Gather(r) /\ Moves(r, "gather", "reduce", 0, 1, 0)
      BY <1>1, <1>4, RankMoves DEF Moves
    <3>2. step'[r] = step[r] /\ mean' = mean
      BY <3>1 DEF Gather
    <3> QED
      BY <3>1, <3>2 DEF Moves, U
  <2>2. weight'[s] = weight[s] /\ sent'[s] = sent[s]
    BY <2>1 DEF Gather
  <2>3. weight[s] = tracker[r][sent[s].group] /\ sent[s].group \in Groups
    BY <1>4, <2>1, SentIs DEF WeightInv
  <2>4. /\ U(r) \in Nat /\ step[r] = U(r) + 1 /\ Folded(r) = U(r)
        /\ \A g \in Groups : Grown(tracker[r][g], tracker'[r][g], FailuresOf(U(r) + 1))
    BY <2>1, FoldTogether
  <2>5. tracker[r] \in Estimates(U(r))
    BY <2>4 DEF FoldsInv
  <2>6. weight[s] \in Seq(SUBSET FailuresBy(U(r)))
    BY <2>3, <2>5 DEF Estimates
  <2> QED
    BY <2>1, <2>2, <2>3, <2>4, <2>6
<1>5. ASSUME NEW s \in Slots
      PROVE  /\ pc'[Owner(s)] \in {"gather", "split"} =>
                  weight'[s] = tracker'[Owner(s)][sent'[s].group]
             /\ pc'[Owner(s)] = "reduce" =>
                  /\ weight'[s] \in Seq(SUBSET FailuresBy(U(Owner(s))'))
                  /\ Grown(weight'[s], tracker'[Owner(s)][sent'[s].group],
                           FailuresOf(step'[Owner(s)]))
  <2>1. CASE Owner(s) = r
    <3>1. U(Owner(s))' = U(r)'
      BY <1>1, <2>1 DEF U
    <3> QED
      BY <1>3, <1>4, <2>1, <3>1
  <2>2. CASE Owner(s) # r
    BY <1>2, <2>2 DEF WeightInv
  <2> QED
    BY <2>1, <2>2
<1>6. \A s \in Slots :
        Grown(weight[s], tracker[Owner(s)][sent[s].group], FailuresOf(step[Owner(s)]))'
          <=> Grown(weight'[s], tracker'[Owner(s)][sent'[s].group],
                    FailuresOf(step'[Owner(s)]))
  BY <1>1 DEF Grown
<1> QED
  BY <1>1, <1>5, <1>6 DEF WeightInv

-----------------------------------------------------------------------------
(* The runs.                                                                *)
LEMMA LagRests ==
  ASSUME LagInv, UNCHANGED <<tape, setting, pc, calls, step, carry, out, weight, sent, mean,
                             tracker, file>>,
         alive' \in BOOLEAN
  PROVE  WorkInv' /\ CallsInv' /\ FoldsInv' /\ WeightInv'
<1>1. /\ Ranks' = Ranks /\ Works' = Works /\ \A s : Owner(s)' = Owner(s)
      /\ Failure' = Failure
      /\ \A n : /\ FailuresBy(n)' = FailuresBy(n) /\ FailuresOf(n)' = FailuresOf(n)
                /\ Estimates(n)' = Estimates(n)
      /\ \A q : U(q)' = U(q) /\ Folded(q)' = Folded(q)
  BY SettingKept, OwnerKept, MaxUpdatesKept DEF Works, U, Folded
<1>2. WorkInv'
  BY <1>1 DEF LagInv, WorkInv
<1>3. CallsInv' /\ FoldsInv'
  BY <1>1 DEF LagInv, CallsInv, FoldsInv
<1>4. WeightInv'
  BY <1>1 DEF LagInv, WeightInv, Grown
<1> QED
  BY <1>2, <1>3, <1>4

LEMMA LagStarts ==
  ASSUME LagInv, NewProcesses, tape' = tape, carry' \in [Slots -> Works], NEW m \in Models,
         NEW t \in Estimates(Len(m)), mean' = Everywhere(m), tracker' = Everywhere(t)
  PROVE  WorkInv' /\ CallsInv' /\ FoldsInv' /\ WeightInv'
<1>1. setting' = setting /\ file' = file /\ alive' = TRUE /\ out' = NewCarry
  BY DEF NewProcesses, NewRun
<1>2. /\ Ranks' = Ranks /\ Works' = Works /\ \A s : Owner(s)' = Owner(s)
      /\ Failure' = Failure /\ \A n : Estimates(n)' = Estimates(n)
      /\ setting \in Settings
  BY <1>1, SettingKept, OwnerKept, MaxUpdatesKept
     DEF Works, LagInv, ReferenceInv, IInv, Typed
<1>3. Len(m) \in Nat
  BY LenProperties DEF Models
<1>4. \A r \in Ranks : /\ pc'[r] = "loop" /\ calls'[r] = 0 /\ U(r)' = Len(m)
                       /\ tracker'[r] = t
  BY DEF NewProcesses, Everywhere, U
<1>5. \A r \in Ranks : Folded(r)' = Len(m)
  BY <1>3, <1>4, FoldedIs
<1>6. WorkInv'
  BY <1>1, <1>2 DEF LagInv, WorkInv, NewCarry, Works
<1>7. CallsInv'
  BY <1>2, <1>3, <1>4 DEF CallsInv, Off
<1>8. FoldsInv'
  <2>1. tracker' \in [Ranks -> [Groups -> Seq(SUBSET Failure)]]
    BY EstimatesTyped DEF Everywhere
  <2> QED
    BY <1>1, <1>2, <1>4, <1>5, <2>1 DEF LagInv, FoldsInv
<1>9. WeightInv'
  BY <1>2, <1>4, OwnerIs DEF WeightInv
<1> QED
  BY <1>6, <1>7, <1>8, <1>9

LEMMA NothingFolded ==
  /\ FreshTracker \in Estimates(Len(<<>>)) /\ <<>> \in Models
  /\ NewCarry \in [Slots -> Works]
<1>1. <<>> \in Models
  BY EmptySeq DEF Models
<1>2. FreshTracker \in Estimates(Len(<<>>))
  BY EmptySeq DEF FreshTracker, Estimates
<1> QED
  BY <1>1, <1>2 DEF NewCarry, Works

LEMMA LagStep ==
  ASSUME GrowingSchedules, LagInv, [Next]_vars
  PROVE  LagInv'
<1>1. ReferenceInv'
  BY StepHolds, GrowStep, StreamSentStep DEF LagInv, ReferenceInv
<1> SUFFICES WorkInv' /\ CallsInv' /\ FoldsInv' /\ WeightInv'
  BY <1>1 DEF LagInv
<1>2. ASSUME NEW r \in Ranks, RankStep(r)
      PROVE  WorkInv' /\ CallsInv' /\ FoldsInv' /\ WeightInv'
  BY <1>2, WorkRankStep, CallsRankStep, FoldsRankStep, WeightRankStep DEF LagInv, ReferenceInv
<1>3. CASE Crash \/ RefuseResume \/ UNCHANGED vars
  <2>1. alive' \in BOOLEAN
    BY <1>3 DEF Crash, RefuseResume, vars, LagInv, WorkInv
  <2> QED
    <3>1. UNCHANGED <<tape, setting, pc, calls, step, carry, out, weight, sent, mean,
                      tracker, file>>
      BY <1>3 DEF Crash, RefuseResume, NewRun, vars
    <3> QED
      BY <2>1, <3>1, LagRests
<1>4. CASE StartFresh
  <2>1. NewProcesses /\ tape' = tape /\ carry' = NewCarry
        /\ mean' = Everywhere(<<>>) /\ tracker' = Everywhere(FreshTracker)
    BY <1>4 DEF StartFresh, NewProcesses, NewRun
  <2> QED
    <3>1. carry' \in [Slots -> Works] /\ <<>> \in Models /\ FreshTracker \in Estimates(Len(<<>>))
      BY <2>1, NothingFolded
    <3> QED
      BY <2>1, <3>1, LagStarts
<1>5. CASE Resume
  <2>1. /\ NewProcesses /\ tape' = tape /\ file # None
        /\ carry' = [s \in Slots |-> file.ranks[Owner(s)].carry[s]]
        /\ mean' = Everywhere(file.mean) /\ tracker' = Everywhere(file.tracker)
    BY <1>5 DEF Resume, NewProcesses, NewRun
  <2>2. /\ file.mean \in Models /\ file.tracker \in Estimates(Len(file.mean))
        /\ carry' \in [Slots -> Works]
    BY <2>1 DEF LagInv, ReferenceInv, IInv, Typed, FileTyped, FoldsInv, WorkInv
  <2> QED
    BY <2>1, <2>2, LagStarts
<1> QED
  BY <1>2, <1>3, <1>4, <1>5 DEF Next

LEMMA LagInvariant ==
  ASSUME GrowingSchedules
  PROVE  Spec => []LagInv
<1>1. ASSUME Init, ReferenceInv
      PROVE  LagInv
  <2>1. /\ file = None /\ setting \in Settings /\ U(Primary) \in Nat /\ Len(<<>>) = 0
        /\ \A r \in Ranks : /\ pc[r] = "loop" /\ calls[r] = 0 /\ mean[r] = <<>>
                            /\ tracker[r] = FreshTracker
    BY <1>1, EmptySeq DEF Init, Everywhere, U
  <2>2. \A r \in Ranks : U(r) = 0 /\ Folded(r) = 0
    BY <2>1, FoldedIs DEF U
  <2>3. WorkInv
    BY <1>1, <2>1, NothingFolded DEF Init, WorkInv
  <2>4. CallsInv
    BY <2>1, <2>2 DEF CallsInv, Off
  <2>5. FoldsInv
    <3>1. tracker \in [Ranks -> [Groups -> Seq(SUBSET Failure)]]
      BY <1>1, NothingFolded, EstimatesTyped DEF Init, Everywhere
    <3> QED
      BY <2>1, <2>2, <3>1, NothingFolded DEF FoldsInv
  <2>6. WeightInv
    BY <2>1, OwnerIs DEF WeightInv
  <2> QED
    BY <1>1, <2>3, <2>4, <2>5, <2>6 DEF LagInv
<1>2. LagInv /\ [Next]_vars => LagInv'
  BY LagStep
<1> QED
  BY <1>1, <1>2, ReferenceInvariant, PTL DEF Spec

(* The loss of every step on every rank, also after a resume, is weighted   *)
(* by exactly what was folded into the group's estimate in earlier steps,   *)
(* and by no failure of the step itself (train.py:1119-1132, fbi.py:265-284).*)
THEOREM WeightsLag ==
  ASSUME GrowingSchedules
  PROVE  Spec => []LaggedWeights
<1>1. ASSUME LagInv, NEW s \in Slots, pc[Owner(s)] \in {"gather", "reduce", "split"},
             NEW e, e = tracker[Owner(s)][sent[s].group]
      PROVE  /\ DOMAIN weight[s] \subseteq DOMAIN e
             /\ \A k \in DOMAIN weight[s] : weight[s][k] = e[k]
             /\ \A k \in DOMAIN e :
                  k \in DOMAIN weight[s] <=> \A f \in e[k] : f.step < step[Owner(s)]
  <2>1. /\ Owner(s) \in Ranks /\ U(Owner(s)) \in Nat
        /\ step[Owner(s)] = U(Owner(s)) + 1 /\ sent[s].group \in Groups
    <3>1. Owner(s) \in Ranks /\ U(Owner(s)) \in Nat
      BY <1>1, OwnerIs, Attributes DEF LagInv, ReferenceInv, IInv, Typed
    <3>2. step[Owner(s)] = U(Owner(s)) + 1
      BY <1>1, <3>1, StepIsDealt DEF LagInv, ReferenceInv, WorkInv, Busy
    <3>3. sent[s].group \in Groups
      BY <1>1, SentIs DEF LagInv, ReferenceInv
    <3> QED
      BY <3>1, <3>2, <3>3
  <2>2. PICK n, w : n = U(Owner(s)) /\ w = weight[s]
    OBVIOUS
  <2>3. /\ e \in Seq(SUBSET Failure) /\ w \in Seq(SUBSET FailuresBy(n))
        /\ Grown(w, e, FailuresOf(n + 1))
    <3>1. tracker[Owner(s)] \in Estimates(Folded(Owner(s)))
      BY <1>1, <2>1 DEF LagInv, FoldsInv
    <3>2. e \in Seq(SUBSET FailuresBy(Folded(Owner(s))))
      BY <1>1, <2>1, <3>1 DEF Estimates
    <3>3. e \in Seq(SUBSET Failure)
      BY <3>2 DEF FailuresBy
    <3>4. CASE pc[Owner(s)] \in {"gather", "split"}
      <4>1. w = e /\ Folded(Owner(s)) = n
        BY <1>1, <2>1, <2>2, <3>4, FoldedIs DEF LagInv, WeightInv
      <4> QED
        BY <3>2, <3>3, <4>1, GrownStays
    <3>5. CASE pc[Owner(s)] = "reduce"
      BY <1>1, <2>1, <2>2, <3>3, <3>5 DEF LagInv, WeightInv
    <3> QED
      BY <1>1, <3>4, <3>5
  <2>4. /\ Len(w) \in Nat /\ Len(e) \in Nat
        /\ DOMAIN w = 1 .. Len(w) /\ DOMAIN e = 1 .. Len(e)
    BY <2>3, LenProperties
  <2>5. \A k \in DOMAIN w : w[k] = e[k] /\ w[k] \in SUBSET FailuresBy(n)
    BY <2>3, <2>4, ElementOfSeq DEF Grown
  <2>6. \A k \in DOMAIN e \ DOMAIN w : e[k] # {} /\ e[k] \subseteq FailuresOf(n + 1)
    BY <2>3, <2>4 DEF Grown
  <2>7. /\ \A f \in FailuresBy(n) : f.step < n + 1
        /\ \A f \in FailuresOf(n + 1) : ~(f.step < n + 1)
    <3>1. MaxUpdates \in Nat
      BY <1>1, TargetBelow DEF LagInv, ReferenceInv, IInv
    <3> QED
      BY <2>1, <2>2, <3>1 DEF FailuresBy, FailuresOf, Failure
  <2>8. DOMAIN w \subseteq DOMAIN e
    BY <2>3, <2>4 DEF Grown
  <2>9. ASSUME NEW k \in DOMAIN e
        PROVE  k \in DOMAIN w <=> \A f \in e[k] : f.step < n + 1
    <3>1. CASE k \in DOMAIN w
      BY <2>5, <2>7, <3>1
    <3>2. CASE k \notin DOMAIN w
      BY <2>6, <2>7, <3>2
    <3> QED
      BY <3>1, <3>2
  <2> QED
    BY <2>1, <2>2, <2>5, <2>8, <2>9
<1>2. LagInv => LaggedWeights
  BY <1>1 DEF LaggedWeights
<1> QED
  BY <1>2, LagInvariant, PTL

(* Every variable stays in its type, and every counter below a bound that   *)
(* the longest run sets.                                                    *)
THEOREM TypeCorrect ==
  ASSUME GrowingSchedules
  PROVE  Spec => []TypeOK
<1>1. ASSUME LagInv
      PROVE  TypeOK
  <2>1. /\ Typed /\ IInv /\ GrowInv /\ StreamInv /\ WorkInv /\ tape \in Tapes
        /\ MaxUpdates \in Nat /\ \A r \in Ranks : U(r) \in Nat
    BY <1>1, TargetBelow, Attributes DEF LagInv, ReferenceInv, IInv, WorkInv
  <2>2. pc \in [Ranks -> PCs] /\ step \in [Ranks -> Nat] /\ calls \in [Ranks -> Nat]
        /\ rng \in [Ranks -> Nat] /\ DOMAIN tracker = Ranks /\ dealt \in [Ranks -> Nat]
    BY <2>1 DEF Typed, RankTyped, StreamInv
  <2>3. ASSUME NEW r \in Ranks
        PROVE  /\ step[r] \in 0 .. MaxUpdates /\ dealt[r] \in Batches \cup {0}
               /\ calls[r] \in 0 .. 2 * MaxUpdates + 2 /\ rng[r] \in 0 .. 2 * MaxUpdates
    <3>1. /\ step[r] \in Nat /\ dealt[r] = step[r] /\ step[r] <= MaxUpdates
          /\ U(r) \in Nat /\ (pc[r] \in Busy => step[r] = U(r) + 1)
          /\ (pc[r] \notin Busy => step[r] = U(r))
      BY <2>1, StepIsDealt
    <3>2. dealt[r] \in Batches \cup {0}
      BY <2>1, <3>1, StepIsDealt DEF Batches
    <3>3. calls[r] \in 0 .. 2 * MaxUpdates + 2
      <4>1. calls[r] \in Nat /\ calls[r] <= 2 * U(r) + Off(pc[r]) /\ Off(pc[r]) \in {0, 1, 2}
        BY <1>1, <2>2, Labels DEF LagInv, CallsInv
      <4> QED
        BY <2>1, <3>1, <4>1
    <3>4. rng[r] \in 0 .. 2 * MaxUpdates
      <4>1. rng[r] = IF SeededDraws THEN U(r) + Past(pc[r])
                     ELSE 2 * U(r) + 2 * Past(pc[r]) + Between(pc[r])
        BY <2>1 DEF IInv, RngInv
      <4>2. /\ Past(pc[r]) \in {0, 1} /\ Between(pc[r]) \in {0, 1}
            /\ Past(pc[r]) + Between(pc[r]) <= 1
            /\ pc[r] \notin Busy => Past(pc[r]) = 0 /\ Between(pc[r]) = 0
        BY DEF Past, Between, Busy
      <4>3. 2 * U(r) + 2 * Past(pc[r]) + Between(pc[r]) <= 2 * step[r]
            /\ U(r) + Past(pc[r]) <= step[r]
        BY <3>1, <4>2
      <4> QED
        BY <2>1, <2>2, <3>1, <4>1, <4>2, <4>3
    <3> QED
      BY <2>1, <3>1, <3>2, <3>3, <3>4
  <2>4. Works \subseteq Example
    <3>1. DOMAIN tape \subseteq Batches
      BY <2>1 DEF Batches
    <3>2. ASSUME NEW w \in Works
          PROVE  w \in Example
      <4>1. CASE w \in [row : DOMAIN tape, halted : BOOLEAN]
        BY <3>1, <4>1 DEF Example
      <4>2. CASE w = [row |-> 0, halted |-> TRUE]
        BY <4>2 DEF Example
      <4> QED
        BY <4>1, <4>2 DEF Works
    <3> QED
      BY <3>2
  <2>5. carry \in [Slots -> Example] /\ out \in [Slots -> Example]
    BY <2>1, <2>4 DEF WorkInv
  <2>6. /\ step \in [Ranks -> 0 .. MaxUpdates] /\ dealt \in [Ranks -> Batches \cup {0}]
        /\ calls \in [Ranks -> 0 .. 2 * MaxUpdates + 2]
        /\ rng \in [Ranks -> 0 .. 2 * MaxUpdates]
    BY <2>2, <2>3
  <2>7. tracker \in [Ranks -> [Groups -> Seq(SUBSET Failure)]]
    BY <1>1 DEF LagInv, FoldsInv
  <2> QED
    BY <2>1, <2>2, <2>5, <2>6, <2>7 DEF TypeOK, Typed, WorkInv
<1> QED
  BY <1>1, LagInvariant, PTL
=============================================================================
