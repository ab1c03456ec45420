---------------------------- MODULE MCTelemetry ----------------------------
(* Instances of Telemetry for TLC: what the packets carry.                 *)
EXTENDS Telemetry, TLC

CONSTANTS p1, p2, good, orphan, garbled, empty

(* A vector reading; one of a device without a row in the devices table;   *)
(* one whose stored message does not decode; one without components.       *)
MCAxes == good :> {"x", "y"} @@ orphan :> {"x", "y"} @@ garbled :> {"x"} @@ empty :> {}

(* A good reading first, and after it: the same one resent by the device's *)
(* MQTT client, or each of the payloads that need special treatment.       *)
MCTraffic == {p1 :> good @@ p2 :> c : c \in {good, orphan, garbled, empty, Malformed}}
=============================================================================
