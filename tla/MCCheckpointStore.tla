------------------------- MODULE MCCheckpointStore -------------------------
(* Small instances of CheckpointStore for TLC.                             *)
EXTENDS CheckpointStore

MCRanks == {0, 1}
MCOneRank == {0}
MCKeeps == {0, 1, 2}
MCKeepOne == {1}
=============================================================================
