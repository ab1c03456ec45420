------------------------------ MODULE MCAlerts ------------------------------
(* Instances of Alerts for TLC: alert ids are interchangeable.             *)
EXTENDS Alerts, TLC

Ids == Permutations(Id)
=============================================================================
