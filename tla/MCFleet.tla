------------------------------ MODULE MCFleet ------------------------------
(* Fleet for TLC: the link of one device under faults, with a prompt and a  *)
(* slow broker, and with three faults in a row; the scaling of slots by     *)
(* calls that overlap, with devices that do not dial yet; and, with         *)
(* failures, restarts and devices that do not get through to the broker, by *)
(* calls that wait for each other.                                          *)
EXTENDS Fleet

LinkFaults == {"dial", "timeout", "subscribe", "loss", "flaky", "partition"}

MCScenario ==
  {[broker |-> TRUE, prompt |-> TRUE, waits |-> FALSE, clients |-> 4, slots |-> 1,
    calls |-> 1, max |-> 2, faults |-> LinkFaults],
   [broker |-> TRUE, prompt |-> FALSE, waits |-> FALSE, clients |-> 3, slots |-> 1,
    calls |-> 1, max |-> 1, faults |-> LinkFaults],
   [broker |-> TRUE, prompt |-> TRUE, waits |-> FALSE, clients |-> 3, slots |-> 1,
    calls |-> 1, max |-> 3, faults |-> {"dial", "timeout", "partition"}],
   [broker |-> FALSE, prompt |-> TRUE, waits |-> FALSE, clients |-> 0, slots |-> 2,
    calls |-> 2, max |-> 0, faults |-> {}],
   [broker |-> FALSE, prompt |-> TRUE, waits |-> TRUE, clients |-> 1, slots |-> 2,
    calls |-> 3, max |-> 1, faults |-> {"claim", "restart"}]}
=============================================================================
