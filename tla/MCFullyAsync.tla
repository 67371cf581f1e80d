---------------------------- MODULE MCFullyAsync ----------------------------
(* Small jobs for TLC: synchronous, and with half a version of samples     *)
(* generated ahead.                                                        *)
EXTENDS FullyAsync

MCMaxRequireds == {2, 3}
MCAhead == {3}
=============================================================================
