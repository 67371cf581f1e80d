---------------------------- MODULE FailureTracker ----------------------------
(***************************************************************************)
(* The failure estimates of recursive reasoning training                   *)
(* (rrm/fbi.py, FailureProbabilityTracker).  An exponential moving average  *)
(* depends on what was folded in and in which order, so the estimate of a   *)
(* group is the sequence of the observations folded into it; an entry is    *)
(* the set of the failures whose mean was folded in as one observation.     *)
(***************************************************************************)
EXTENDS Naturals, Sequences

CONSTANT Groups \* puzzle groups, the index range of the tracker

(* No group has been visited: every value is initial_failure. *)
FreshTracker == [g \in Groups |-> <<>>]

(* duplicate_update = "sequential": one observation per visit, in the order *)
(* of the batch.                                                           *)
SequentialUpdate(tracker, ids, failures) ==
    LET after[i \in 0 .. Len(ids)] ==
          IF i = 0 THEN tracker
          ELSE [after[i - 1] EXCEPT ![ids[i]] = Append(@, {failures[i]})]
    IN  after[Len(ids)]

(* duplicate_update = "group_mean": one observation per visited group. *)
GroupMeanUpdate(tracker, ids, failures) ==
    [g \in Groups |->
        LET observed == {failures[i] : i \in {j \in DOMAIN ids : ids[j] = g}}
        IN  IF observed = {} THEN tracker[g] ELSE Append(tracker[g], observed)]

TrackerUpdate(tracker, ids, failures, duplicates) ==
    IF duplicates = "group_mean"
    THEN GroupMeanUpdate(tracker, ids, failures)
    ELSE SequentialUpdate(tracker, ids, failures)
=============================================================================
