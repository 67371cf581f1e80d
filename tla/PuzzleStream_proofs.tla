------------------------- MODULE PuzzleStream_proofs -------------------------
(* Theorems of PuzzleStream for every size of a batch, of an iteration and  *)
(* of the data set, every tape, and every number of batches and restarts.   *)
(*                                                                          *)
(* The idea of the proofs: however often the process is replaced, it is at  *)
(* every moment at a station of one uninterrupted run.  The invariant says  *)
(* that such a run exists, and that the batches served and the state saved  *)
(* are taken from it.                                                       *)
EXTENDS PuzzleStream, SequenceTheorems, TLAPS

RngPoint == [seed : Nat, drawn : Nat]

Piece == [group : Groups, puzzle : RngPoint, selection : Nat, taken : Nat]

(* A station: the state of the process, as far as a later step depends on   *)
(* it.  A batch that has been trained on is of no further use.              *)
Stations ==
  [ iteration : 1 .. MaxBatches + 1, cursor : 0 .. OrderSize, numpy : Nat,
    pc : {"idle", "filling", "training"}, index : 0 .. MaxBatches,
    rows : Seq(Piece), count : 0 .. BatchSize ]

Here ==
  [ iteration |-> iteration, cursor |-> cursor, numpy |-> numpy, pc |-> pc,
    index |-> index, rows |-> IF pc = "idle" THEN NoBatch ELSE rows,
    count |-> IF pc = "idle" THEN 0 ELSE count ]

RngAt(s) == [seed |-> s.iteration, drawn |-> Epochs + s.cursor]

SizeAt(s) == tape[s.iteration][s.cursor + 1].size

TakenAt(s) == Smaller(SizeAt(s), BatchSize - s.count)

PieceAt(s) ==
  [ group |-> tape[s.iteration][s.cursor + 1].group, puzzle |-> RngAt(s),
    selection |-> s.numpy, taken |-> TakenAt(s) ]

(* The only step from a station.                                            *)
Filled(s) == s.count = BatchSize
Exhausted(s) == s.cursor = OrderSize

Advance(s) ==
  IF s.pc = "idle" THEN [s EXCEPT !.pc = "filling"]
  ELSE IF s.pc = "training"
    THEN [s EXCEPT !.pc = "idle", !.numpy = @ + ModelDraws, !.rows = NoBatch,
                   !.count = 0]
  ELSE IF Filled(s) THEN [s EXCEPT !.pc = "training", !.index = @ + 1]
  ELSE IF Exhausted(s)
    THEN [s EXCEPT !.iteration = @ + 1, !.cursor = 0, !.rows = NoBatch,
                   !.count = 0]
  ELSE [s EXCEPT !.cursor = @ + 1, !.numpy = @ + 1,
                 !.rows = Append(@, PieceAt(s)), !.count = @ + TakenAt(s)]

(* The order in which randomness is used.                                   *)
RngLess(g, h) == g.seed < h.seed \/ (g.seed = h.seed /\ g.drawn < h.drawn)

Before(p, q) == p.selection < q.selection /\ RngLess(p.puzzle, q.puzzle)

Behind(p, s) == p.selection < s.numpy /\ RngLess(p.puzzle, RngAt(s))

(* No iteration ends without a batch, and the pieces of a batch are in      *)
(* order and behind the generators.                                         *)
Sound(s) ==
  /\ s \in Stations
  /\ Len(s.rows) <= s.count
  /\ s.pc = "idle" => s.rows = NoBatch /\ s.count = 0
  /\ s.pc = "filling" => s.index < MaxBatches
  /\ \/ s.iteration <= s.index
     \/ /\ s.iteration = s.index + 1
        /\ s.count >= s.cursor
        /\ s.pc # "training"
  /\ \A j \in 1 .. Len(s.rows) : Behind(s.rows[j], s)
  /\ \A j, k \in 1 .. Len(s.rows) : j < k => Before(s.rows[j], s.rows[k])

(* What lies between two stations of a run.                                 *)
Precedes(s, t) ==
  /\ s.index <= t.index
  /\ s.pc = "training" /\ t.pc = "training" => s.index < t.index
  /\ s.pc = "training" =>
       \A j \in 1 .. Len(s.rows) :
         /\ Behind(s.rows[j], t)
         /\ \A k \in 1 .. Len(t.rows) : Before(s.rows[j], t.rows[k])

IsRun(T, N) ==
  /\ \A k \in 0 .. N : Sound(T[k])
  /\ \A k \in 0 .. N - 1 : T[k + 1] = Advance(T[k])
  /\ \A j, k \in 0 .. N : j < k => Precedes(T[j], T[k])

SavedAt(s) ==
  /\ s.pc = "idle"
  /\ saved = [iteration |-> s.iteration, cursor |-> s.cursor, rng |-> RngAt(s),
              numpy |-> s.numpy, index |-> s.index]

ServedAt(n, s) == s.pc = "training" /\ s.index = n /\ s.rows = served[n]

(* The process, its saved state and its batches belong to the run T.        *)
OnRun(T, N) ==
  /\ N \in Nat
  /\ IsRun(T, N)
  /\ \E k \in 0 .. N : T[k] = Here
  /\ saved # None => \E k \in 0 .. N : SavedAt(T[k])
  /\ \A n \in 1 .. MaxBatches :
       served[n] # NoBatch => \E k \in 0 .. N : ServedAt(n, T[k])

IInv ==
  /\ tape \in Tapes
  /\ rng = RngAt(Here)
  /\ rows \in Seq(Piece)
  /\ count \in 0 .. BatchSize
  /\ Len(rows) <= count
  /\ restarts \in 0 .. MaxRestarts
  /\ served \in [1 .. MaxBatches -> Seq(Piece)]
  /\ \E T, N : OnRun(T, N)

-----------------------------------------------------------------------------
(* The next group of an iteration that is not used up has a puzzle.         *)
LEMMA TapeType ==
  ASSUME tape \in Tapes, NEW s \in Stations, ~Exhausted(s), s.count < BatchSize
  PROVE  /\ SizeAt(s) \in Nat \ {0}
         /\ TakenAt(s) \in 1 .. BatchSize - s.count
         /\ PieceAt(s) \in Piece
<1> USE StreamConstants
<1>1. /\ s.iteration \in 1 .. MaxBatches + 1 /\ s.cursor \in 0 .. OrderSize
      /\ s.count \in 0 .. BatchSize /\ s.numpy \in Nat
  BY DEF Stations
<1>2. OrderSize \in Nat
  BY DEF OrderSize
<1>3. s.cursor + 1 \in Places
  BY <1>1, <1>2 DEF Places, Exhausted
<1>4. tape[s.iteration] \in [Places -> [group : Groups, size : Nat \ {0}]]
  BY <1>1
<1>5. tape[s.iteration][s.cursor + 1] \in [group : Groups, size : Nat \ {0}]
  BY <1>3, <1>4
<1>6. SizeAt(s) \in Nat \ {0}
  BY <1>5 DEF SizeAt
<1>7. TakenAt(s) \in 1 .. BatchSize - s.count
  BY <1>1, <1>6 DEF TakenAt, Smaller
<1>8. RngAt(s) \in RngPoint
  BY <1>1, <1>2 DEF RngAt, RngPoint
<1>9. TakenAt(s) \in Nat
  BY <1>1, <1>7
<1> QED
  BY <1>1, <1>5, <1>6, <1>7, <1>8, <1>9 DEF PieceAt, Piece

Longer(s) == Append(s.rows, PieceAt(s))

LEMMA AppendPiece ==
  ASSUME tape \in Tapes, NEW s \in Stations, ~Exhausted(s), s.count < BatchSize
  PROVE  /\ Longer(s) \in Seq(Piece)
         /\ Len(Longer(s)) = Len(s.rows) + 1
         /\ Longer(s)[Len(s.rows) + 1] = PieceAt(s)
         /\ \A j \in 1 .. Len(s.rows) : Longer(s)[j] = s.rows[j]
<1>1. s.rows \in Seq(Piece) /\ PieceAt(s) \in Piece
  BY TapeType DEF Stations
<1> QED
  BY <1>1, AppendProperties DEF Longer

LEMMA RngLessTransitive ==
  ASSUME NEW f \in RngPoint, NEW g \in RngPoint, NEW h \in RngPoint,
         RngLess(f, g), RngLess(g, h) \/ g = h
  PROVE  RngLess(f, h)
  BY DEF RngLess, RngPoint

LEMMA Numbers ==
  /\ BatchSize \in Nat /\ BatchSize > 0 /\ Epochs \in Nat /\ ModelDraws \in Nat
  /\ MaxBatches \in Nat /\ OrderSize \in Nat /\ OrderSize >= BatchSize
BY StreamConstants DEF OrderSize

LEMMA StationTypes ==
  ASSUME NEW s \in Stations
  PROVE  /\ s.iteration \in 1 .. MaxBatches + 1 /\ s.cursor \in 0 .. OrderSize
         /\ s.numpy \in Nat /\ s.index \in 0 .. MaxBatches
         /\ s.count \in 0 .. BatchSize
         /\ s.rows \in Seq(Piece) /\ Len(s.rows) \in Nat
         /\ \A j \in 1 .. Len(s.rows) : s.rows[j] \in Piece
         /\ s.pc \in {"idle", "filling", "training"}
         /\ RngAt(s) \in RngPoint
<1>1. /\ s.iteration \in 1 .. MaxBatches + 1 /\ s.cursor \in 0 .. OrderSize
      /\ s.numpy \in Nat /\ s.index \in 0 .. MaxBatches
      /\ s.count \in 0 .. BatchSize
      /\ s.rows \in Seq(Piece)
      /\ s.pc \in {"idle", "filling", "training"}
  BY DEF Stations
<1>2. s.iteration \in Nat /\ Epochs + s.cursor \in Nat
  BY <1>1, Numbers
<1>3. RngAt(s) \in RngPoint
  BY <1>2 DEF RngAt, RngPoint
<1>4. \A j \in 1 .. Len(s.rows) : s.rows[j] \in Piece
  BY <1>1, ElementOfSeq
<1> QED
  BY <1>1, <1>3, <1>4, LenProperties

LEMMA PieceTypes ==
  ASSUME NEW p \in Piece
  PROVE  p.selection \in Nat /\ p.puzzle \in RngPoint
BY DEF Piece

(* What the generators have produced stays behind them.                     *)
NoEarlier(s, t) ==
  s.numpy <= t.numpy /\ (RngLess(RngAt(s), RngAt(t)) \/ RngAt(s) = RngAt(t))

LEMMA StaysBehind ==
  ASSUME NEW p \in Piece, NEW s \in Stations, NEW t \in Stations,
         Behind(p, s), NoEarlier(s, t)
  PROVE  Behind(p, t)
<1>1. /\ p.selection \in Nat /\ p.puzzle \in RngPoint
      /\ RngAt(s) \in RngPoint /\ RngAt(t) \in RngPoint
      /\ s.numpy \in Nat /\ t.numpy \in Nat
  BY PieceTypes, StationTypes
<1>2. p.selection < t.numpy
  BY <1>1 DEF Behind, NoEarlier
<1>3. RngLess(p.puzzle, RngAt(t))
  BY <1>1, RngLessTransitive DEF Behind, NoEarlier
<1> QED
  BY <1>2, <1>3 DEF Behind

(* The piece that is drawn next comes after every piece behind the          *)
(* generators, and is behind them afterwards.                               *)
LEMMA NextPiece ==
  ASSUME NEW s \in Stations, NEW p, Behind(p, s)
  PROVE  Before(p, PieceAt(s))
BY DEF Behind, Before, PieceAt

(* A station from which the run can go on.                                  *)
Continues(s) == s.pc = "idle" => s.index < MaxBatches

-----------------------------------------------------------------------------
(* The five kinds of steps, each with what later lemmas need of it.         *)
AdvanceFacts(s, t) ==
  /\ t \in Stations
  /\ Sound(t)
  /\ NoEarlier(s, t)
  /\ s.index <= t.index
  /\ t.pc = "training" => s.pc = "filling" /\ s.index < t.index
  /\ s.pc = "training" => Len(t.rows) = 0
  /\ \A j \in 1 .. Len(t.rows) :
       \/ j \in 1 .. Len(s.rows) /\ t.rows[j] = s.rows[j]
       \/ t.rows[j] = PieceAt(s)

LEMMA AdvanceStep ==
  ASSUME tape \in Tapes, NEW s, NEW t, Sound(s), Continues(s), t = Advance(s)
  PROVE  AdvanceFacts(s, t)
<1> USE Numbers
<1>0. /\ s \in Stations
      /\ s.iteration \in 1 .. MaxBatches + 1 /\ s.cursor \in 0 .. OrderSize
      /\ s.numpy \in Nat /\ s.index \in 0 .. MaxBatches
      /\ s.count \in 0 .. BatchSize /\ s.rows \in Seq(Piece) /\ Len(s.rows) \in Nat
      /\ s.pc \in {"idle", "filling", "training"}
  BY StationTypes DEF Sound
<1>01. NoBatch \in Seq(Piece) /\ Len(NoBatch) = 0
  BY DEF NoBatch
<1>1. CASE s.pc = "idle"
  <2>1. t = [s EXCEPT !.pc = "filling"]
    BY <1>1 DEF Advance
  <2>2. /\ t \in Stations /\ t.pc = "filling" /\ t.iteration = s.iteration
        /\ t.cursor = s.cursor /\ t.numpy = s.numpy /\ t.index = s.index
        /\ t.rows = s.rows /\ t.count = s.count
    BY <1>0, <2>1 DEF Stations
  <2>3. RngAt(t) = RngAt(s)
    BY <2>2 DEF RngAt
  <2>4. Sound(t)
    BY <1>1, <2>2, <2>3 DEF Sound, Continues, Behind
  <2> QED
    BY <1>0, <1>1, <2>2, <2>3, <2>4 DEF AdvanceFacts, NoEarlier
<1>2. CASE s.pc = "training"
  <2>1. t = [s EXCEPT !.pc = "idle", !.numpy = @ + ModelDraws, !.rows = NoBatch,
                      !.count = 0]
    BY <1>2 DEF Advance
  <2>2. /\ t \in Stations /\ t.pc = "idle" /\ t.iteration = s.iteration
        /\ t.cursor = s.cursor /\ t.numpy = s.numpy + ModelDraws
        /\ t.index = s.index /\ t.rows = NoBatch /\ t.count = 0
    <3>1. s.numpy + ModelDraws \in Nat
      BY <1>0
    <3>2. /\ t.pc = "idle" /\ t.iteration = s.iteration
          /\ t.cursor = s.cursor /\ t.numpy = s.numpy + ModelDraws
          /\ t.index = s.index /\ t.rows = NoBatch /\ t.count = 0
      BY <1>0, <2>1 DEF Stations
    <3>3. t = [s EXCEPT !.pc = "idle", !.numpy = s.numpy + ModelDraws,
                        !.rows = NoBatch, !.count = 0]
      BY <1>0, <2>1 DEF Stations
    <3>4. 0 \in 0 .. BatchSize
      OBVIOUS
    <3>5. t \in Stations
      BY <1>0, <1>01, <3>1, <3>3, <3>4 DEF Stations
    <3> QED
      BY <3>2, <3>5
  <2>3. RngAt(t) = RngAt(s)
    BY <2>2 DEF RngAt
  <2>4. s.iteration <= s.index
    BY <1>2 DEF Sound
  <2>5. Sound(t)
    BY <1>01, <1>2, <2>2, <2>4 DEF Sound
  <2> QED
    BY <1>0, <1>01, <1>2, <2>2, <2>3, <2>5 DEF AdvanceFacts, NoEarlier
<1>3. CASE s.pc = "filling" /\ Filled(s)
  <2>1. t = [s EXCEPT !.pc = "training", !.index = @ + 1]
    BY <1>3 DEF Advance
  <2>2. s.index < MaxBatches
    BY <1>3 DEF Sound
  <2>3. /\ t \in Stations /\ t.pc = "training" /\ t.iteration = s.iteration
        /\ t.cursor = s.cursor /\ t.numpy = s.numpy /\ t.index = s.index + 1
        /\ t.rows = s.rows /\ t.count = s.count
    <3>1. s.index + 1 \in 0 .. MaxBatches
      BY <1>0, <2>2
    <3> QED
      BY <1>0, <2>1, <3>1 DEF Stations
  <2>4. RngAt(t) = RngAt(s)
    BY <2>3 DEF RngAt
  <2>5. s.iteration <= s.index + 1
    BY <1>0 DEF Sound
  <2>6. Sound(t)
    BY <1>0, <2>3, <2>4, <2>5 DEF Sound, Behind
  <2> QED
    BY <1>0, <1>3, <2>3, <2>4, <2>6 DEF AdvanceFacts, NoEarlier
<1>4. CASE s.pc = "filling" /\ ~Filled(s) /\ Exhausted(s)
  <2>1. t = [s EXCEPT !.iteration = @ + 1, !.cursor = 0, !.rows = NoBatch,
                      !.count = 0]
    BY <1>4 DEF Advance
  <2>2. s.index < MaxBatches /\ s.iteration <= s.index
    BY <1>0, <1>4 DEF Sound, Filled, Exhausted
  <2>3. /\ t \in Stations /\ t.pc = "filling" /\ t.iteration = s.iteration + 1
        /\ t.cursor = 0 /\ t.numpy = s.numpy /\ t.index = s.index
        /\ t.rows = NoBatch /\ t.count = 0
    <3>1. /\ s.iteration + 1 \in 1 .. MaxBatches + 1
          /\ 0 \in 0 .. OrderSize /\ 0 \in 0 .. BatchSize
      BY <1>0, <2>2
    <3> QED
      BY <1>0, <1>01, <1>4, <2>1, <3>1 DEF Stations
  <2>4. RngLess(RngAt(s), RngAt(t))
    BY <1>0, <2>3 DEF RngAt, RngLess
  <2>5. Sound(t)
    BY <1>0, <1>01, <2>2, <2>3 DEF Sound
  <2> QED
    BY <1>0, <1>01, <1>4, <2>3, <2>4, <2>5 DEF AdvanceFacts, NoEarlier
<1>5. CASE s.pc = "filling" /\ ~Filled(s) /\ ~Exhausted(s)
  <2>1. t = [s EXCEPT !.cursor = @ + 1, !.numpy = @ + 1,
                      !.rows = Append(@, PieceAt(s)), !.count = @ + TakenAt(s)]
    BY <1>5 DEF Advance
  <2>2. s.count < BatchSize
    BY <1>0, <1>5 DEF Filled
  <2>3. TakenAt(s) \in 1 .. BatchSize - s.count /\ PieceAt(s) \in Piece
    BY <1>0, <1>5, <2>2, TapeType
  <2>4. /\ Longer(s) \in Seq(Piece) /\ Len(Longer(s)) = Len(s.rows) + 1
        /\ Longer(s)[Len(s.rows) + 1] = PieceAt(s)
        /\ \A j \in 1 .. Len(s.rows) : Longer(s)[j] = s.rows[j]
    BY <1>0, <1>5, <2>2, AppendPiece
  <2>5. /\ t.pc = "filling" /\ t.iteration = s.iteration
        /\ t.cursor = s.cursor + 1 /\ t.numpy = s.numpy + 1 /\ t.index = s.index
        /\ t.rows = Longer(s) /\ t.count = s.count + TakenAt(s)
    BY <1>0, <1>5, <2>1 DEF Stations, Longer
  <2>6. t \in Stations
    <3>1. /\ s.cursor + 1 \in 0 .. OrderSize /\ s.numpy + 1 \in Nat
          /\ s.count + TakenAt(s) \in 0 .. BatchSize
      <4>1. s.cursor # OrderSize
        BY <1>5 DEF Exhausted
      <4> DEFINE n == TakenAt(s)
      <4>2. n \in 1 .. BatchSize - s.count
        BY <2>3
      <4> HIDE DEF n
      <4>3. s.count + n \in 0 .. BatchSize
        <5>1. PICK x, y : x = s.count /\ y = BatchSize
          OBVIOUS
        <5>2. x \in Nat /\ y \in Nat /\ n \in 1 .. y - x
          BY <1>0, <4>2, <5>1
        <5>3. x + n \in 0 .. y
          BY <5>2
        <5> QED
          BY <5>1, <5>3
      <4>4. s.cursor + 1 \in 0 .. OrderSize
        BY <1>0, <4>1
      <4>5. s.numpy + 1 \in Nat
        BY <1>0
      <4> QED
        BY <4>3, <4>4, <4>5 DEF n
    <3>2. t = [s EXCEPT !.cursor = s.cursor + 1, !.numpy = s.numpy + 1,
                        !.rows = Longer(s), !.count = s.count + TakenAt(s)]
      BY <1>0, <2>1 DEF Longer, Stations
    <3> QED
      BY <1>0, <2>4, <3>1, <3>2 DEF Stations
  <2>7. RngLess(RngAt(s), RngAt(t)) /\ NoEarlier(s, t)
    <3>1. s.cursor \in Nat /\ s.numpy \in Nat /\ Epochs \in Nat
      BY <1>0
    <3>2. s.numpy <= s.numpy + 1 /\ Epochs + s.cursor < Epochs + (s.cursor + 1)
      BY <3>1
    <3>3. RngLess(RngAt(s), RngAt(t))
      BY <2>5, <3>2 DEF RngAt, RngLess
    <3> QED
      BY <2>5, <3>2, <3>3 DEF NoEarlier
  <2>8. \A j \in 1 .. Len(t.rows) :
           \/ j \in 1 .. Len(s.rows) /\ t.rows[j] = s.rows[j]
           \/ j = Len(s.rows) + 1 /\ t.rows[j] = PieceAt(s)
    <3>1. Len(t.rows) = Len(s.rows) + 1
      BY <2>4, <2>5
    <3>2. \A j \in 1 .. Len(t.rows) : j \in 1 .. Len(s.rows) \/ j = Len(s.rows) + 1
      BY <1>0, <3>1
    <3> QED
      BY <2>4, <2>5, <3>2
  <2>9. \A j \in 1 .. Len(s.rows) : s.rows[j] \in Piece /\ Behind(s.rows[j], s)
    BY <1>0 DEF Sound
  <2>10. \A j \in 1 .. Len(s.rows) : Behind(s.rows[j], t)
    BY <1>0, <2>6, <2>7, <2>9, StaysBehind
  <2>11. Behind(PieceAt(s), t)
    BY <1>0, <2>5, <2>7 DEF Behind, PieceAt
  <2>12. \A j \in 1 .. Len(t.rows) : Behind(t.rows[j], t)
    BY <2>8, <2>10, <2>11
  <2>13. \A j \in 1 .. Len(s.rows) : Before(s.rows[j], PieceAt(s))
    BY <1>0, <2>9, NextPiece
  <2>14. \A j, k \in 1 .. Len(s.rows) : j < k => Before(s.rows[j], s.rows[k])
    BY DEF Sound
  <2>15. \A j, k \in 1 .. Len(t.rows) : j < k => Before(t.rows[j], t.rows[k])
    <3> SUFFICES ASSUME NEW j \in 1 .. Len(t.rows), NEW k \in 1 .. Len(t.rows), j < k
                 PROVE  Before(t.rows[j], t.rows[k])
      OBVIOUS
    <3>1. j \in Int /\ k \in Int
      OBVIOUS
    <3>2. j \in 1 .. Len(s.rows) /\ t.rows[j] = s.rows[j]
      <4>1. CASE j = Len(s.rows) + 1
        <5>1. k \in 1 .. Len(s.rows) \/ k = Len(s.rows) + 1
          BY <2>8
        <5> QED
          BY <1>0, <3>1, <4>1, <5>1
      <4> QED
        BY <2>8, <4>1
    <3>3. CASE k = Len(s.rows) + 1
      BY <2>8, <2>13, <3>2, <3>3
    <3>4. CASE k \in 1 .. Len(s.rows) /\ t.rows[k] = s.rows[k]
      BY <2>14, <3>2, <3>4
    <3> QED
      BY <2>8, <3>3, <3>4
  <2>16. Len(t.rows) <= t.count
    BY <1>0, <2>3, <2>4, <2>5 DEF Sound
  <2>17. /\ t.pc = "filling" => t.index < MaxBatches
         /\ \/ t.iteration <= t.index
            \/ /\ t.iteration = t.index + 1
               /\ t.count >= t.cursor
               /\ t.pc # "training"
    BY <1>0, <1>5, <2>3, <2>5 DEF Sound
  <2>18. Sound(t)
    BY <2>5, <2>6, <2>12, <2>15, <2>16, <2>17 DEF Sound
  <2> QED
    <3>1. /\ t.pc # "training" /\ s.pc # "training" /\ s.index <= t.index
      BY <1>0, <1>5, <2>5
    <3> QED
      BY <2>6, <2>7, <2>8, <2>18, <3>1 DEF AdvanceFacts
<1> QED
  BY <1>0, <1>1, <1>2, <1>3, <1>4, <1>5

(* A run stays a run when one station is added.                             *)
LEMMA PrecedesAdvance ==
  ASSUME tape \in Tapes, NEW s, NEW t, NEW u, Sound(s), Sound(t), Continues(t),
         u = Advance(t), Precedes(s, t) \/ s = t
  PROVE  Precedes(s, u)
<1>1. AdvanceFacts(t, u)
  BY AdvanceStep
<1>2. /\ s \in Stations /\ t \in Stations /\ u \in Stations
      /\ s.index \in Nat /\ t.index \in Nat /\ u.index \in Nat
  <2>1. s \in Stations /\ t \in Stations /\ u \in Stations
    BY <1>1 DEF AdvanceFacts, Sound
  <2>2. \A x \in Stations : x.index \in Nat
    BY Numbers DEF Stations
  <2> QED
    BY <2>1, <2>2
<1>3. s.index <= t.index
  BY <1>2 DEF Precedes
<1>4. s.index <= u.index /\ (u.pc = "training" => s.index < u.index)
  BY <1>1, <1>2, <1>3 DEF AdvanceFacts
<1>5. ASSUME s.pc = "training", NEW j \in 1 .. Len(s.rows)
      PROVE  /\ Behind(s.rows[j], u)
             /\ \A k \in 1 .. Len(u.rows) : Before(s.rows[j], u.rows[k])
  <2>1. Behind(s.rows[j], t)
    BY <1>5 DEF Precedes, Sound
  <2>2. s.rows[j] \in Piece
    BY <1>2, <1>5, StationTypes
  <2>3. Behind(s.rows[j], u)
    BY <1>1, <1>2, <2>1, <2>2, StaysBehind DEF AdvanceFacts
  <2>4. Before(s.rows[j], PieceAt(t))
    BY <1>2, <2>1, NextPiece
  <2>5. ASSUME NEW k \in 1 .. Len(u.rows)
        PROVE  Before(s.rows[j], u.rows[k])
    <3>1. CASE u.rows[k] = PieceAt(t)
      BY <2>4, <3>1
    <3>2. CASE k \in 1 .. Len(t.rows) /\ u.rows[k] = t.rows[k]
      <4>1. CASE s = t
        \* the training step drops the batch
        BY <1>1, <1>5, <2>5, <4>1 DEF AdvanceFacts
      <4>2. CASE Precedes(s, t)
        BY <1>5, <3>2, <4>2 DEF Precedes
      <4> QED
        BY <4>1, <4>2
    <3> QED
      BY <1>1, <2>5, <3>1, <3>2 DEF AdvanceFacts
  <2> QED
    BY <2>3, <2>5
<1> QED
  BY <1>4, <1>5 DEF Precedes

-----------------------------------------------------------------------------
(* The process steps from the station where it is to the next one.          *)
Walks ==
  NextBatch \/ TakeGroup \/ Serve \/ StartIteration \/ Train

LEMMA WalkIsAdvance ==
  ASSUME IInv, Sound(Here), Walks
  PROVE  /\ Continues(Here) /\ Here' = Advance(Here) /\ (rng = RngAt(Here))'
         /\ (rows \in Seq(Piece))' /\ (count \in 0 .. BatchSize)'
         /\ (Len(rows) <= count)'
<1> USE Numbers
<1>0. /\ rng = [seed |-> iteration, drawn |-> Epochs + cursor]
      /\ rows \in Seq(Piece) /\ count \in 0 .. BatchSize /\ Len(rows) <= count
      /\ tape \in Tapes
  BY DEF IInv, RngAt, Here
<1>01. /\ Here \in Stations /\ Here.iteration = iteration /\ Here.cursor = cursor
       /\ Here.numpy = numpy /\ Here.pc = pc /\ Here.index = index
       /\ pc # "idle" => Here.rows = rows /\ Here.count = count
       /\ pc = "idle" => Here.rows = NoBatch /\ Here.count = 0
  BY DEF Sound, Here
<1>02. /\ iteration \in 1 .. MaxBatches + 1 /\ cursor \in 0 .. OrderSize
       /\ numpy \in Nat /\ index \in 0 .. MaxBatches
  BY <1>01, StationTypes
<1>03. NoBatch \in Seq(Piece) /\ Len(NoBatch) = 0
  BY DEF NoBatch
<1>1. CASE NextBatch
  <2>1. Here' = [ iteration |-> iteration, cursor |-> cursor, numpy |-> numpy,
                  pc |-> "filling", index |-> index, rows |-> NoBatch, count |-> 0 ]
    BY <1>1 DEF NextBatch, Here, position
  <2>2. Here = [ iteration |-> iteration, cursor |-> cursor, numpy |-> numpy,
                 pc |-> "idle", index |-> index, rows |-> NoBatch, count |-> 0 ]
    BY <1>1 DEF NextBatch, Here
  <2>3. Here' = Advance(Here)
    BY <2>1, <2>2 DEF Advance
  <2> QED
    BY <1>0, <1>01, <1>03, <1>1, <2>1, <2>3
      DEF NextBatch, Continues, RngAt, position
<1>2. CASE TakeGroup
  <2>1. Here = [ iteration |-> iteration, cursor |-> cursor, numpy |-> numpy,
                 pc |-> "filling", index |-> index, rows |-> rows, count |-> count ]
    BY <1>2 DEF TakeGroup, Here
  <2>2. count < BatchSize /\ cursor < OrderSize
    BY <1>2 DEF TakeGroup
  <2>3. ~Filled(Here) /\ ~Exhausted(Here)
    BY <1>0, <1>02, <2>1, <2>2 DEF Filled, Exhausted
  <2>4. TakenAt(Here) \in 1 .. BatchSize - count /\ PieceAt(Here) \in Piece
    BY <1>0, <1>01, <2>1, <2>2, <2>3, TapeType
  <2>5. rng.drawn - Epochs + 1 = cursor + 1 /\ rng.seed = iteration
    BY <1>0, <1>02
  <2>6. Drawn.group = tape[iteration][cursor + 1].group /\ Drawn.size = SizeAt(Here)
    BY <1>01, <2>5 DEF Drawn, SizeAt
  <2>7. RowsTaken(Drawn.size) = TakenAt(Here)
    BY <2>1, <2>6 DEF RowsTaken, TakenAt
  <2>8. [group |-> Drawn.group, puzzle |-> rng, selection |-> numpy,
         taken |-> RowsTaken(Drawn.size)] = PieceAt(Here)
    BY <1>0, <2>1, <2>6, <2>7 DEF PieceAt, RngAt
  <2>9. /\ iteration' = iteration /\ cursor' = cursor + 1 /\ numpy' = numpy + 1
        /\ pc' = "filling" /\ index' = index
        /\ rows' = Append(rows, PieceAt(Here)) /\ count' = count + TakenAt(Here)
        /\ rng' = [rng EXCEPT !.drawn = @ + 1]
    BY <1>2, <2>7, <2>8 DEF TakeGroup
  <2>10. Here' = [ iteration |-> iteration, cursor |-> cursor + 1,
                   numpy |-> numpy + 1, pc |-> "filling", index |-> index,
                   rows |-> Append(rows, PieceAt(Here)),
                   count |-> count + TakenAt(Here) ]
    BY <2>9 DEF Here
  <2>11. Advance(Here) = [Here EXCEPT !.cursor = @ + 1, !.numpy = @ + 1,
              !.rows = Append(@, PieceAt(Here)), !.count = @ + TakenAt(Here)]
    BY <2>1, <2>3 DEF Advance
  <2>12. Here' = Advance(Here)
    BY <2>1, <2>10, <2>11
  <2>13. rng' = [seed |-> iteration, drawn |-> Epochs + (cursor + 1)]
    <3>1. rng' = [seed |-> iteration, drawn |-> (Epochs + cursor) + 1]
      BY <1>0, <2>9
    <3>2. (Epochs + cursor) + 1 = Epochs + (cursor + 1)
      BY <1>02
    <3> QED
      BY <3>1, <3>2
  <2>14. (rng = RngAt(Here))'
    BY <2>9, <2>13 DEF RngAt, Here
  <2>15. rows' \in Seq(Piece) /\ Len(rows') = Len(rows) + 1
    BY <1>0, <2>4, <2>9, AppendProperties
  <2>16. Len(rows) \in Nat
    BY <1>0, LenProperties
  <2>17. (count \in 0 .. BatchSize)' /\ (Len(rows) <= count)'
    <3> DEFINE n == TakenAt(Here)
    <3>1. n \in 1 .. BatchSize - count /\ count' = count + n
      BY <2>4, <2>9
    <3> HIDE DEF n
    <3>2. count + n \in 0 .. BatchSize /\ Len(rows) + 1 <= count + n
      BY <1>0, <2>2, <2>16, <3>1
    <3> QED
      BY <2>15, <3>1, <3>2
  <2>18. Continues(Here)
    BY <2>1 DEF Continues
  <2> QED
    BY <2>12, <2>14, <2>15, <2>17, <2>18
<1>3. CASE Serve
  <2>1. Here = [ iteration |-> iteration, cursor |-> cursor, numpy |-> numpy,
                 pc |-> "filling", index |-> index, rows |-> rows, count |-> count ]
    BY <1>3 DEF Serve, Here
  <2>2. Here' = [ iteration |-> iteration, cursor |-> cursor, numpy |-> numpy,
                  pc |-> "training", index |-> index + 1, rows |-> rows,
                  count |-> count ]
    BY <1>3 DEF Serve, Here, position
  <2>3. Filled(Here)
    BY <1>3, <2>1 DEF Serve, Filled
  <2>4. Here' = Advance(Here)
    BY <2>1, <2>2, <2>3 DEF Advance
  <2> QED
    BY <1>0, <2>1, <2>2, <2>4, <1>3 DEF Serve, Continues, RngAt, position
<1>4. CASE StartIteration
  <2>1. Here = [ iteration |-> iteration, cursor |-> cursor, numpy |-> numpy,
                 pc |-> "filling", index |-> index, rows |-> rows, count |-> count ]
    BY <1>4 DEF StartIteration, Here
  <2>2. Here' = [ iteration |-> iteration + 1, cursor |-> 0, numpy |-> numpy,
                  pc |-> "filling", index |-> index, rows |-> NoBatch, count |-> 0 ]
    BY <1>4 DEF StartIteration, Here
  <2>3. ~Filled(Here) /\ Exhausted(Here)
    BY <1>0, <1>4, <2>1 DEF StartIteration, Filled, Exhausted
  <2>4. Here' = Advance(Here)
    BY <2>1, <2>2, <2>3 DEF Advance
  <2>5. (rng = RngAt(Here))'
    BY <1>4, <2>2 DEF StartIteration, RngAt, Seeded
  <2>6. 0 \in 0 .. BatchSize
    OBVIOUS
  <2> QED
    BY <1>03, <1>4, <2>1, <2>4, <2>5, <2>6 DEF StartIteration, Continues
<1>5. CASE Train
  <2>1. Here = [ iteration |-> iteration, cursor |-> cursor, numpy |-> numpy,
                 pc |-> "training", index |-> index, rows |-> rows, count |-> count ]
    BY <1>5 DEF Train, Here
  <2>2. Here' = [ iteration |-> iteration, cursor |-> cursor,
                  numpy |-> numpy + ModelDraws, pc |-> "idle", index |-> index,
                  rows |-> NoBatch, count |-> 0 ]
    BY <1>5 DEF Train, Here
  <2>3. Here' = Advance(Here)
    BY <2>1, <2>2 DEF Advance
  <2> QED
    BY <1>0, <2>1, <2>2, <2>3, <1>5 DEF Train, Continues, RngAt
<1> QED
  BY <1>1, <1>2, <1>3, <1>4, <1>5 DEF Walks

-----------------------------------------------------------------------------
(* Runs: one station, one station more, and the same tape.                  *)
LEMMA RunStarts ==
  ASSUME NEW s, Sound(s)
  PROVE  IsRun([k \in 0 .. 0 |-> s], 0)
BY DEF IsRun

Extends(U, M, T, N) == M \in Nat /\ N <= M /\ \A k \in 0 .. N : U[k] = T[k]

LEMMA RunExtends ==
  ASSUME tape \in Tapes, NEW T, NEW N \in Nat, IsRun(T, N), NEW k \in 0 .. N,
         Continues(T[k])
  PROVE  \E U, M : /\ Extends(U, M, T, N)
                   /\ IsRun(U, M)
                   /\ \E j \in 0 .. M : U[j] = Advance(T[k])
<1>1. CASE k < N
  <2>1. k + 1 \in 0 .. N /\ k \in 0 .. N - 1
    BY <1>1
  <2>2. T[k + 1] = Advance(T[k])
    BY <2>1 DEF IsRun
  <2>3. Extends(T, N, T, N)
    BY DEF Extends
  <2> QED
    BY <2>1, <2>2, <2>3
<1>2. CASE k = N
  <2> DEFINE u == Advance(T[N])
             U == [i \in 0 .. N + 1 |-> IF i <= N THEN T[i] ELSE u]
  <2>1. \A i \in 0 .. N : U[i] = T[i]
    OBVIOUS
  <2>2. U[N + 1] = u
    OBVIOUS
  <2>3. Sound(T[N])
    BY DEF IsRun
  <2>4. Sound(u)
    BY <1>2, <2>3, AdvanceStep DEF AdvanceFacts
  <2>5. \A i \in 0 .. N : Precedes(T[i], u)
    <3> TAKE i \in 0 .. N
    <3>1. Sound(T[i])
      BY DEF IsRun
    <3>2. i = N \/ i < N
      OBVIOUS
    <3>3. Precedes(T[i], T[N]) \/ T[i] = T[N]
      BY <3>2 DEF IsRun
    <3> QED
      BY <1>2, <2>3, <3>1, <3>3, PrecedesAdvance
  <2> HIDE DEF U, u
  <2>6. \A i \in 0 .. N + 1 : i \in 0 .. N \/ i = N + 1
    OBVIOUS
  <2>7. \A i \in 0 .. N + 1 : Sound(U[i])
    BY <2>1, <2>2, <2>4, <2>6 DEF IsRun
  <2>8. \A i \in 0 .. (N + 1) - 1 : U[i + 1] = Advance(U[i])
    <3> TAKE i \in 0 .. (N + 1) - 1
    <3>1. i \in 0 .. N /\ (i = N \/ (i \in 0 .. N - 1 /\ i + 1 \in 0 .. N))
      OBVIOUS
    <3>2. CASE i = N
      BY <2>1, <2>2, <3>1, <3>2 DEF u
    <3>3. CASE i \in 0 .. N - 1 /\ i + 1 \in 0 .. N
      BY <2>1, <3>1, <3>3 DEF IsRun
    <3> QED
      BY <3>1, <3>2, <3>3
  <2>9. \A i, j \in 0 .. N + 1 : i < j => Precedes(U[i], U[j])
    <3> TAKE i \in 0 .. N + 1, j \in 0 .. N + 1
    <3> HAVE i < j
    <3>1. i \in 0 .. N /\ (j \in 0 .. N \/ j = N + 1)
      OBVIOUS
    <3>2. CASE j \in 0 .. N
      BY <2>1, <3>1, <3>2 DEF IsRun
    <3>3. CASE j = N + 1
      BY <2>1, <2>2, <2>5, <3>1, <3>3
    <3> QED
      BY <3>1, <3>2, <3>3
  <2>10. IsRun(U, N + 1)
    BY <2>7, <2>8, <2>9 DEF IsRun
  <2>11. Extends(U, N + 1, T, N)
    BY <2>1 DEF Extends
  <2>12. N + 1 \in 0 .. N + 1
    OBVIOUS
  <2>13. U[N + 1] = Advance(T[k])
    BY <1>2, <2>2 DEF u
  <2> QED
    BY <2>10, <2>11, <2>12, <2>13
<1> QED
  BY <1>1, <1>2

LEMMA SameTape ==
  ASSUME tape' = tape, NEW T, NEW N, IsRun(T, N)
  PROVE  IsRun(T, N)'
<1>1. ASSUME NEW s PROVE Advance(s)' = Advance(s)
  BY DEF Advance, PieceAt, TakenAt, SizeAt
<1> QED
  BY <1>1 DEF IsRun

-----------------------------------------------------------------------------
LEMMA InitIInv == Init => IInv
<1> SUFFICES ASSUME Init PROVE IInv
  OBVIOUS
<1> USE Numbers
<1>1. Here = [ iteration |-> 1, cursor |-> 0, numpy |-> 0, pc |-> "idle",
               index |-> 0, rows |-> NoBatch, count |-> 0 ]
  BY DEF Init, Here
<1>2. NoBatch \in Seq(Piece) /\ Len(NoBatch) = 0
  BY DEF NoBatch
<1>3. /\ 1 \in 1 .. MaxBatches + 1 /\ 0 \in 0 .. OrderSize /\ 0 \in 0 .. MaxBatches
      /\ 0 \in 0 .. BatchSize /\ 0 \in 0 .. MaxRestarts
  BY StreamConstants
<1>4. Here \in Stations
  BY <1>1, <1>2, <1>3 DEF Stations
<1>5. Sound(Here)
  BY <1>1, <1>2, <1>4 DEF Sound
<1> DEFINE T == [k \in 0 .. 0 |-> Here]
<1>6. IsRun(T, 0)
  BY <1>5, RunStarts
<1>7. T[0] = Here
  OBVIOUS
<1>8. OnRun(T, 0)
  BY <1>6, <1>7 DEF OnRun, Init
<1>9. rng = RngAt(Here)
  BY <1>1 DEF Init, RngAt, Seeded
<1> QED
  BY <1>2, <1>3, <1>8, <1>9 DEF Init, IInv

(* A step of the process lengthens the run by at most one station.          *)
LEMMA WalkStep ==
  ASSUME IInv, Walks
  PROVE  IInv'
<1>1. PICK T, N : OnRun(T, N)
  BY DEF IInv
<1>2. PICK k \in 0 .. N : T[k] = Here
  BY <1>1 DEF OnRun
<1>3. N \in Nat /\ IsRun(T, N) /\ Sound(Here) /\ tape \in Tapes
  BY <1>1, <1>2 DEF OnRun, IsRun, IInv
<1>4. /\ Continues(Here) /\ Here' = Advance(Here) /\ (rng = RngAt(Here))'
      /\ (rows \in Seq(Piece))' /\ (count \in 0 .. BatchSize)'
      /\ (Len(rows) <= count)'
  BY <1>3, WalkIsAdvance
<1>5. PICK U, M : /\ Extends(U, M, T, N)
                  /\ IsRun(U, M)
                  /\ \E j \in 0 .. M : U[j] = Advance(T[k])
  BY <1>2, <1>3, <1>4, RunExtends
<1>6. PICK j \in 0 .. M : U[j] = Here'
  BY <1>2, <1>4, <1>5
<1>7. /\ tape' = tape /\ saved' = saved /\ restarts' = restarts
  BY DEF Walks, NextBatch, TakeGroup, Serve, StartIteration, Train
<1>8. IsRun(U, M)'
  BY <1>5, <1>7, SameTape
<1>9. \A i \in 0 .. N : i \in 0 .. M /\ U[i] = T[i]
  BY <1>3, <1>5 DEF Extends
<1>10. (saved # None => \E i \in 0 .. M : SavedAt(U[i]))'
  <2>1. saved # None => \E i \in 0 .. N : SavedAt(T[i])
    BY <1>1 DEF OnRun
  <2> QED
    BY <1>7, <1>9, <2>1 DEF SavedAt
<1>11. CASE Serve
  <2>1. /\ Here.pc = "filling" /\ Here.index = index /\ Here.rows = rows
        /\ Here.count = BatchSize
    BY <1>11 DEF Serve, Here
  <2>2. index + 1 \in 1 .. MaxBatches
    <3>1. Here.index \in 0 .. MaxBatches /\ Here.index < MaxBatches
      BY <1>3, <2>1, StationTypes DEF Sound
    <3> QED
      BY <2>1, <3>1, Numbers
  <2>3. /\ U[j].pc = "training" /\ U[j].index = index + 1
        /\ U[j].rows = served'[index + 1]
    <3>1. served'[index + 1] = rows
      BY <1>11, <2>2 DEF Serve, IInv
    <3>2. Here'.pc = "training" /\ Here'.index = index + 1 /\ Here'.rows = rows
      BY <1>11 DEF Serve, Here
    <3> QED
      BY <1>6, <3>1, <3>2
  <2>4. ASSUME NEW n \in 1 .. MaxBatches, served'[n] # NoBatch
        PROVE  \E i \in 0 .. M : ServedAt(n, U[i])'
    <3>1. CASE n = index + 1
      BY <2>3, <3>1 DEF ServedAt
    <3>2. CASE n # index + 1
      <4>1. served'[n] = served[n]
        BY <1>11, <3>2 DEF Serve, IInv
      <4>2. PICK i \in 0 .. N : ServedAt(n, T[i])
        BY <1>1, <2>4, <4>1 DEF OnRun
      <4> QED
        BY <1>9, <4>1, <4>2 DEF ServedAt
    <3> QED
      BY <3>1, <3>2
  <2>5. served' \in [1 .. MaxBatches -> Seq(Piece)]
    BY <1>11 DEF Serve, IInv
  <2>6. OnRun(U, M)'
    BY <1>5, <1>6, <1>8, <1>10, <2>4 DEF OnRun, Extends
  <2> QED
    BY <1>4, <1>7, <2>5, <2>6 DEF IInv
<1>12. CASE served' = served
  <2>1. ASSUME NEW n \in 1 .. MaxBatches, served'[n] # NoBatch
        PROVE  \E i \in 0 .. M : ServedAt(n, U[i])'
    <3>1. PICK i \in 0 .. N : ServedAt(n, T[i])
      BY <1>1, <1>12, <2>1 DEF OnRun
    <3> QED
      BY <1>9, <1>12, <3>1 DEF ServedAt
  <2>2. OnRun(U, M)'
    BY <1>5, <1>6, <1>8, <1>10, <2>1 DEF OnRun, Extends
  <2> QED
    BY <1>4, <1>7, <1>12, <2>2 DEF IInv
<1> QED
  BY <1>11, <1>12 DEF Walks, NextBatch, TakeGroup, StartIteration, Train

LEMMA SaveStep ==
  ASSUME IInv, SaveState
  PROVE  IInv'
<1>1. PICK T, N : OnRun(T, N)
  BY DEF IInv
<1>2. PICK k \in 0 .. N : T[k] = Here
  BY <1>1 DEF OnRun
<1>3. /\ Here' = Here /\ tape' = tape /\ served' = served
      /\ rng' = rng /\ rows' = rows /\ count' = count /\ restarts' = restarts
  BY DEF SaveState, Here, position
<1>4. IsRun(T, N)'
  BY <1>1, <1>3, SameTape DEF OnRun
<1>5. SavedAt(T[k])'
  <2>1. saved' = [iteration |-> iteration, cursor |-> cursor, rng |-> rng,
                  numpy |-> numpy, index |-> index]
    BY DEF SaveState
  <2>2. /\ Here.iteration = iteration /\ Here.cursor = cursor
        /\ Here.numpy = numpy /\ Here.index = index /\ Here.pc = "idle"
    BY DEF SaveState, Here
  <2>3. rng = RngAt(Here)
    BY DEF IInv
  <2>4. saved' = [iteration |-> T[k].iteration, cursor |-> T[k].cursor,
                  rng |-> RngAt(T[k]), numpy |-> T[k].numpy, index |-> T[k].index]
    BY <1>2, <2>1, <2>2, <2>3
  <2> QED
    BY <1>2, <2>2, <2>4 DEF SavedAt, RngAt
<1>6. \A n \in 1 .. MaxBatches :
         served'[n] # NoBatch => \E i \in 0 .. N : ServedAt(n, T[i])'
  BY <1>1, <1>3 DEF OnRun, ServedAt
<1>7. OnRun(T, N)'
  BY <1>1, <1>2, <1>3, <1>4, <1>5, <1>6 DEF OnRun
<1>8. (rng = RngAt(Here))'
  BY <1>3 DEF IInv, RngAt
<1> QED
  BY <1>3, <1>7, <1>8 DEF IInv

(* A restart goes back to an earlier station.                               *)
LEMMA LoadStep ==
  ASSUME IInv, LoadState
  PROVE  IInv'
<1>1. PICK T, N : OnRun(T, N)
  BY DEF IInv
<1>2. PICK k \in 0 .. N : SavedAt(T[k])
  BY <1>1 DEF OnRun, LoadState
<1>3. /\ tape' = tape /\ served' = served /\ saved' = saved
      /\ rows' = NoBatch /\ count' = 0 /\ restarts' = restarts + 1
      /\ pc' = "idle" /\ restarts < MaxRestarts
  BY DEF LoadState
<1>4. /\ iteration' = T[k].iteration /\ cursor' = T[k].cursor
      /\ numpy' = T[k].numpy /\ index' = T[k].index /\ rng' = RngAt(T[k])
  BY <1>2 DEF LoadState, SavedAt
<1>5. T[k] \in Stations /\ T[k].pc = "idle" /\ T[k].rows = NoBatch /\ T[k].count = 0
  BY <1>1, <1>2 DEF OnRun, IsRun, Sound, SavedAt
<1>6. Here' = T[k]
  <2>1. Here' = [ iteration |-> T[k].iteration, cursor |-> T[k].cursor,
                  numpy |-> T[k].numpy, pc |-> "idle", index |-> T[k].index,
                  rows |-> NoBatch, count |-> 0 ]
    BY <1>3, <1>4 DEF Here
  <2> QED
    BY <1>5, <2>1 DEF Stations
<1>7. IsRun(T, N)'
  BY <1>1, <1>3, SameTape DEF OnRun
<1>8. \A n \in 1 .. MaxBatches :
         served'[n] # NoBatch => \E i \in 0 .. N : ServedAt(n, T[i])'
  BY <1>1, <1>3 DEF OnRun, ServedAt
<1>9. SavedAt(T[k])'
  BY <1>2, <1>3 DEF SavedAt, RngAt
<1>10. OnRun(T, N)'
  BY <1>1, <1>6, <1>7, <1>8, <1>9 DEF OnRun
<1>11. (rng = RngAt(Here))'
  BY <1>4, <1>6 DEF RngAt
<1>12. rows' \in Seq(Piece) /\ count' \in 0 .. BatchSize /\ Len(rows') <= count'
  BY <1>3, Numbers DEF NoBatch
<1>13. restarts' \in 0 .. MaxRestarts
  BY <1>3, StreamConstants DEF IInv
<1> QED
  BY <1>3, <1>10, <1>11, <1>12, <1>13 DEF IInv

LEMMA SameIInv ==
  ASSUME IInv, UNCHANGED vars
  PROVE  IInv'
<1>1. PICK T, N : OnRun(T, N)
  BY DEF IInv
<1>2. /\ Here' = Here /\ tape' = tape /\ served' = served /\ saved' = saved
      /\ rng' = rng /\ rows' = rows /\ count' = count /\ restarts' = restarts
  BY DEF vars, Here
<1>3. IsRun(T, N)'
  BY <1>1, <1>2, SameTape DEF OnRun
<1>4. OnRun(T, N)'
  BY <1>1, <1>2, <1>3 DEF OnRun, ServedAt, SavedAt, RngAt
<1>5. (rng = RngAt(Here))'
  BY <1>2 DEF IInv, RngAt
<1> QED
  BY <1>2, <1>4, <1>5 DEF IInv

LEMMA NextIInv == IInv /\ [Next]_vars => IInv'
BY WalkStep, SaveStep, LoadStep, SameIInv DEF Next, Walks

LEMMA SpecIInv == Spec => []IInv
BY InitIInv, NextIInv, PTL DEF Spec

-----------------------------------------------------------------------------
LEMMA IInvType == IInv => TypeOK
<1> SUFFICES ASSUME IInv PROVE TypeOK
  OBVIOUS
<1>1. Here \in Stations
  BY DEF IInv, OnRun, IsRun, Sound
<1>2. /\ iteration \in 1 .. MaxBatches + 1 /\ cursor \in 0 .. OrderSize
      /\ numpy \in Nat /\ pc \in {"idle", "filling", "training"}
      /\ index \in 0 .. MaxBatches
  BY <1>1 DEF Stations, Here
<1>3. Epochs + cursor \in Epochs .. Epochs + OrderSize
  BY <1>2, Numbers
<1>4. rng = [seed |-> iteration, drawn |-> Epochs + cursor]
  BY DEF IInv, RngAt, Here
<1>5. rng \in RngState
  BY <1>2, <1>3, <1>4 DEF RngState
<1> QED
  BY <1>2, <1>5 DEF IInv, TypeOK

(* Two batches of a run come from different stations, and all randomness of *)
(* one lies before all randomness of the other.                             *)
LEMMA OneStationEach ==
  ASSUME NEW T, NEW N \in Nat, IsRun(T, N), NEW j \in 0 .. N, NEW k \in 0 .. N,
         T[j].pc = "training", T[k].pc = "training", T[j].index <= T[k].index
  PROVE  /\ T[j].index = T[k].index => T[j] = T[k]
         /\ T[j].index # T[k].index => Precedes(T[j], T[k])
<1>1. T[j].index \in Int /\ T[k].index \in Int
  BY StationTypes, Numbers DEF IsRun, Sound
<1>2. j < k \/ j = k \/ k < j
  OBVIOUS
<1>3. CASE j < k
  <2>1. Precedes(T[j], T[k])
    BY <1>3 DEF IsRun
  <2> QED
    BY <1>1, <2>1 DEF Precedes
<1>4. CASE k < j
  <2>1. Precedes(T[k], T[j])
    BY <1>4 DEF IsRun
  <2> QED
    BY <1>1, <2>1 DEF Precedes
<1> QED
  BY <1>2, <1>3, <1>4

LEMMA BeforeIsDifferent ==
  ASSUME NEW p \in Piece, NEW q \in Piece, Before(p, q)
  PROVE  p.puzzle # q.puzzle /\ p.selection # q.selection
BY PieceTypes DEF Before, RngLess, RngPoint

LEMMA IInvFresh == IInv => FreshDraws
<1> SUFFICES ASSUME IInv, NEW m \in 1 .. MaxBatches, NEW n \in 1 .. MaxBatches,
                    NEW j \in DOMAIN served[m], NEW k \in DOMAIN served[n],
                    <<m, j>> # <<n, k>>
             PROVE  /\ served[m][j].puzzle # served[n][k].puzzle
                    /\ served[m][j].selection # served[n][k].selection
  BY DEF FreshDraws
<1>1. PICK T, N : OnRun(T, N)
  BY DEF IInv
<1>2. N \in Nat /\ IsRun(T, N)
  BY <1>1 DEF OnRun
<1>3. served[m] \in Seq(Piece) /\ served[n] \in Seq(Piece)
  BY DEF IInv
<1>4. j \in 1 .. Len(served[m]) /\ k \in 1 .. Len(served[n])
  BY <1>3, LenProperties
<1>5. served[m][j] \in Piece /\ served[n][k] \in Piece
  BY <1>3, <1>4, ElementOfSeq
<1>6. served[m] # NoBatch /\ served[n] # NoBatch
  BY <1>3, <1>4, LenProperties DEF NoBatch
<1>7. PICK a \in 0 .. N : ServedAt(m, T[a])
  BY <1>1, <1>6 DEF OnRun
<1>8. PICK b \in 0 .. N : ServedAt(n, T[b])
  BY <1>1, <1>6 DEF OnRun
<1>9. \/ Before(served[m][j], served[n][k])
      \/ Before(served[n][k], served[m][j])
  <2>1. CASE m = n
    <3>1. j # k /\ served[m] = served[n]
      BY <2>1
    <3>2. j < k \/ k < j
      BY <1>4, <3>1, <2>1, <1>3, LenProperties
    <3>3. Sound(T[a]) /\ T[a].rows = served[m]
      BY <1>2, <1>7 DEF IsRun, ServedAt
    <3> QED
      BY <1>4, <3>1, <3>2, <3>3 DEF Sound
  <2>2. CASE m < n
    <3>1. T[a].index = m /\ T[b].index = n /\ T[a].pc = "training" /\ T[b].pc = "training"
      BY <1>7, <1>8 DEF ServedAt
    <3>2. Precedes(T[a], T[b])
      BY <1>2, <2>2, <3>1, OneStationEach
    <3> QED
      BY <1>4, <1>7, <1>8, <3>2 DEF Precedes, ServedAt
  <2>3. CASE n < m
    <3>1. T[a].index = m /\ T[b].index = n /\ T[a].pc = "training" /\ T[b].pc = "training"
      BY <1>7, <1>8 DEF ServedAt
    <3>2. Precedes(T[b], T[a])
      BY <1>2, <2>3, <3>1, OneStationEach
    <3> QED
      BY <1>4, <1>7, <1>8, <3>2 DEF Precedes, ServedAt
  <2> QED
    BY <2>1, <2>2, <2>3
<1> QED
  BY <1>5, <1>9, BeforeIsDifferent

(* The batch served now is the one that the run has at this number.         *)
SameBatch ==
  \A n \in 1 .. MaxBatches : served[n] # NoBatch => served'[n] = served[n]

LEMMA StepSameBatch == IInv /\ [Next]_vars => SameBatch
<1> SUFFICES ASSUME IInv, [Next]_vars, NEW n \in 1 .. MaxBatches, served[n] # NoBatch
             PROVE  served'[n] = served[n]
  BY DEF SameBatch
<1>1. CASE served' = served
  BY <1>1
<1>2. CASE Serve /\ n = index + 1
  <2>1. PICK T, N : OnRun(T, N)
    BY DEF IInv
  <2>2. PICK k \in 0 .. N : T[k] = Here
    BY <2>1 DEF OnRun
  <2>3. N \in Nat /\ IsRun(T, N) /\ Sound(Here) /\ tape \in Tapes
    BY <2>1, <2>2 DEF OnRun, IsRun, IInv
  <2>4. Continues(Here) /\ Here' = Advance(Here)
    BY <1>2, <2>3, WalkIsAdvance DEF Walks
  <2>5. PICK U, M : /\ Extends(U, M, T, N)
                    /\ IsRun(U, M)
                    /\ \E j \in 0 .. M : U[j] = Advance(T[k])
    BY <2>2, <2>3, <2>4, RunExtends
  <2>6. PICK j \in 0 .. M : U[j] = Here'
    BY <2>2, <2>4, <2>5
  <2>7. PICK i \in 0 .. N : ServedAt(n, T[i])
    BY <2>1 DEF OnRun
  <2>8. i \in 0 .. M /\ U[i] = T[i] /\ M \in Nat
    BY <2>3, <2>5 DEF Extends
  <2>9. served'[n] = rows /\ U[j].pc = "training" /\ U[j].index = n /\ U[j].rows = rows
    BY <1>2, <2>6 DEF Serve, IInv, Here
  <2>10. U[i].pc = "training" /\ U[i].index = n /\ U[i].rows = served[n]
    BY <2>7, <2>8 DEF ServedAt
  <2>11. U[i] = U[j]
    BY <2>5, <2>8, <2>9, <2>10, OneStationEach
  <2> QED
    BY <2>9, <2>10, <2>11
<1>3. CASE Serve /\ n # index + 1
  BY <1>3 DEF Serve, IInv
<1> QED
  BY <1>1, <1>2, <1>3 DEF Next, NextBatch, TakeGroup, Serve, StartIteration, Train,
     SaveState, LoadState, vars

(* The state of the stream has its type, the generator included.            *)
THEOREM TypeCorrect == Spec => []TypeOK
<1>1. Spec => []IInv
  BY SpecIInv
<1> QED
  BY <1>1, IInvType, PTL

(* No draw of a puzzle and no selection of rows serves twice.               *)
THEOREM DrawsAreFresh == Spec => []FreshDraws
<1>1. Spec => []IInv
  BY SpecIInv
<1> QED
  BY <1>1, IInvFresh, PTL

(* However often the process is replaced by one that loads the saved state, *)
(* a batch that is dealt again is the same batch.                           *)
THEOREM RestartDealsTheSame == Spec => SameBatchAgain
<1>1. Spec => []IInv
  BY SpecIInv
<1>2. IInv /\ [Next]_vars => [SameBatch]_vars
  BY StepSameBatch
<1>3. [][SameBatch]_vars => SameBatchAgain
  BY DEF SameBatchAgain, SameBatch
<1> QED
  BY <1>1, <1>2, <1>3, PTL DEF Spec
=============================================================================
