----------------------------- MODULE MCRollout -----------------------------
(* Instances of Rollout for TLC.                                           *)
EXTENDS Rollout, TLC

CONSTANTS d1, d2, ra, rb

(* d1 is in the 10% stage, d2 only in the last one.                        *)
MCBucket == [d \in Device |-> IF d = d1 THEN 5 ELSE 60]
MCPercent == [r \in Rollouts |-> <<10, 100>>]
MCCohort == [r \in Rollouts |-> Device]
MCCriteria == [r \in Rollouts |-> [rejection |-> 50, disconnect |-> 0, error |-> 0]]

(* Everything may fail, and the process may die.                           *)
Hostile == [rollouts |-> {ra}, faults |-> FaultKind, crashes |-> 1, puts |-> 0]

(* The process dies twice; writes of the rollouts table succeed.           *)
Crashing == [rollouts |-> {ra}, faults |-> FaultKind \ {"state", "resume"},
             crashes |-> 2, puts |-> 0]

(* Two rollouts over the same devices, with a manual PUT in between.       *)
Overlapping == [rollouts |-> {ra, rb}, faults |-> {"state"}, crashes |-> 0, puts |-> 1]

(* One rollout and manual PUTs; devices are not told.                      *)
Unpublished == [rollouts |-> {ra}, faults |-> {"state", "publish", "mqtt"},
                crashes |-> 0, puts |-> 2]

(* One rollout; reads fail; devices are skipped or not recorded.           *)
Unread == [rollouts |-> {ra}, faults |-> {"list"}, crashes |-> 0, puts |-> 0]
Unrecorded == [rollouts |-> {ra}, faults |-> {"kv", "target"}, crashes |-> 0, puts |-> 0]

MCScenarios == {Hostile, Crashing, Overlapping, Unpublished, Unread, Unrecorded}

(* For liveness: what a rollout has to survive and still end.              *)
MCRestarts == {[rollouts |-> {ra}, faults |-> {"kv", "list", "audit", "target"},
                crashes |-> 2, puts |-> 0]}

(* A single crash; nothing else goes wrong.                                *)
MCOneCrash == {[rollouts |-> {ra}, faults |-> {}, crashes |-> 1, puts |-> 0]}
=============================================================================
