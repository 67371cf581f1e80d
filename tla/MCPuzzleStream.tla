--------------------------- MODULE MCPuzzleStream ---------------------------
(* A small instance of PuzzleStream for TLC.                               *)
EXTENDS PuzzleStream

(* Iteration i starts its epochs with either group, and the sizes of the   *)
(* puzzles alternate along the order, between iterations, both or not.     *)
MCTapes ==
  {[i \in 1 .. 5 |->
     [p \in 1 .. 4 |->
       [group |-> IF (first * i + p) % 2 = 0 THEN 1 ELSE 2,
        size  |-> 1 + ((a * i + b * p + c) % 2)]]] :
     first \in {0, 1}, a \in {0, 1}, b \in {0, 1}, c \in {0, 1}}
=============================================================================
