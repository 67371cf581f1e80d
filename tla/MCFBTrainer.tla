---------------------------- MODULE MCFBTrainer ----------------------------
(* A small instance of FBTrainer for TLC.                                  *)
EXTENDS FBTrainer

MCRanks == {0, 1}
MCOneRank == {0}

(* The evaluation of the posterior; the ablation with a frozen failure     *)
(* state, on an instance that may expire at any step.                      *)
Evaluated == [frozen |-> FALSE, elastic |-> FALSE, draws |-> 2]
Ablation == [frozen |-> TRUE, elastic |-> TRUE, draws |-> 0]
Plain == [frozen |-> FALSE, elastic |-> FALSE, draws |-> 0]
MCJobs == {Evaluated, Ablation}
MCPlain == {Plain}
=============================================================================
