---------------------------- MODULE MCShadowSync ----------------------------
(* Instances of ShadowSync for TLC: the PUT bodies and the environments.   *)
EXTENDS ShadowSync, TLC

(* A sample rate too high for a millisecond interval, with a batch size;   *)
(* batched mode and a rate, which a device accepts only after the former.  *)
MCPatches == {"rate" :> 2000 @@ "batch" :> 5, "mode" :> "batched" @@ "rate" :> 4}

(* An agent with p PUTs, l lost connections, d lost reports or failed      *)
(* calls, f failed subscriptions and r restarts; a fleet device likewise,  *)
(* and f counts the connections it dials over as well.                     *)
Agent(p, l, d, f, r) ==
  [kind |-> "agent", puts |-> p, losses |-> l, drops |-> d, failures |-> f, restarts |-> r]
Fleet(p, l, d, f, r) == [Agent(p, l, d, f, r) EXCEPT !.kind = "fleet"]

(* Each environment stresses one thing: reports lost or late, connections  *)
(* lost, subscriptions failing, the device restarting.                     *)
MCScenarios ==
  {Agent(2, 1, 1, 0, 0), Agent(1, 1, 0, 1, 0), Agent(2, 0, 0, 0, 1),
   Fleet(2, 1, 0, 0, 0), Fleet(1, 1, 0, 1, 0), Fleet(1, 0, 1, 1, 1)}
=============================================================================
