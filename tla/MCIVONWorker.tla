---------------------------- MODULE MCIVONWorker ----------------------------
(* A small instance of IVONWorker for TLC.                                 *)
EXTENDS IVONWorker

CONSTANTS t1, t2, e1

MCTrainIds == {t1, t2}
MCEvalIds == {e1}
MCEvalSeeds == {7, 8}
=============================================================================
