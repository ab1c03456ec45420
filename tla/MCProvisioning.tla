-------------------------- MODULE MCProvisioning --------------------------
(* Instances of Provisioning for TLC: which agent was given which token.   *)
EXTENDS Provisioning, TLC

CONSTANTS a1, a2, t1, t2

(* Each agent was started with a token of its own, used again on a retry.  *)
MCOwn == [a \in Agent |-> IF a = a1 THEN t1 ELSE t2]

(* Device ids are interchangeable, and so are claims, and the two agents   *)
(* together with their tokens.                                             *)
MCSwap == a1 :> a2 @@ a2 :> a1 @@ t1 :> t2 @@ t2 :> t1
MCSymmetry == Permutations(Device) \union Permutations(Claim) \union {MCSwap}
=============================================================================
