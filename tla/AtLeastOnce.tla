---------------------------- MODULE AtLeastOnce ----------------------------
(***************************************************************************)
(* What the telemetry path promises of every message it has accepted:      *)
(* accepted messages are persisted in any order and any number of times,   *)
(* and a message is settled (never delivered again) only once persisted.   *)
(***************************************************************************)
CONSTANT Message

VARIABLES accepted, persisted, settled

Init == accepted = {} /\ persisted = {} /\ settled = {}

(* A message may find its rows already there: an identical one came first. *)
Accept(m) ==
  /\ accepted' = accepted \union {m}
  /\ persisted' \in {persisted, persisted \union {m}}
  /\ UNCHANGED settled

Persist(S) ==
  /\ persisted' = persisted \union S
  /\ UNCHANGED <<accepted, settled>>

Settle(m) ==
  /\ m \in persisted
  /\ settled' = settled \union {m}
  /\ UNCHANGED <<accepted, persisted>>

Next ==
  \/ \E m \in Message : Accept(m) \/ Settle(m)
  \/ \E S \in SUBSET accepted : Persist(S)

Spec == Init /\ [][Next]_<<accepted, persisted, settled>>
=============================================================================
