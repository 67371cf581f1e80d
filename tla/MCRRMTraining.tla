--------------------------- MODULE MCRRMTraining ---------------------------
(* A small instance of RRMTraining for TLC: two slots.                     *)
EXTENDS RRMTraining

MCGroups == {1, 2}

(* A group twice in one batch, in both orders over two batches, and in one *)
(* slot after the other.                                                   *)
MCTapes ==
  {<< <<1, 1>>, <<1, 2>>, <<2, 1>>, <<2, 2>>, <<1, 2>> >>,
   << <<1, 2>>, <<1, 2>>, <<1, 1>>, <<1, 2>>, <<2, 1>> >>}

(* A run saves, the next may resume it and go further; on two ranks the    *)
(* last asks for more epochs per iteration, and a resume is refused.       *)
MCThree == <<1, 2, 3>>
MCLonger == <<3, 4>>
MCSchedules == {MCThree, MCLonger}

(* FPRM on two ranks, and the price-anchored path of PTRM on one.          *)
MCRanks ==
  [world |-> 2, objective |-> "sampled", duplicates |-> "sequential",
   interval |-> 1, seeded |-> TRUE, groups |-> 4, schedule |-> MCThree]
MCSplit ==
  [world |-> 1, objective |-> "split", duplicates |-> "group_mean",
   interval |-> 2, seeded |-> FALSE, groups |-> 8, schedule |-> MCLonger]
MCSettings == {MCRanks, MCSplit}
=============================================================================
