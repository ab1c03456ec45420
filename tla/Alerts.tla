------------------------------- MODULE Alerts -------------------------------
(***************************************************************************)
(* From detector verdicts to alerts: the Evaluator of internal/anomaly     *)
(* (M consecutive observations change the firing state), the windowed      *)
(* consumer of cmd/processor that fires and resolves, the alerts table     *)
(* (internal/alerts), the ALERTS event stream, and the operator's ack and  *)
(* resolve handlers of cmd/control.                                        *)
(*                                                                         *)
(* The evaluator changes its mind in memory first; the store call and the  *)
(* event follow as steps of their own, while handlers and crashes          *)
(* interleave.                                                             *)
(***************************************************************************)
EXTENDS Naturals, Sequences, FiniteSets

CONSTANTS
  Key,         (* (device, sensor, rule) triples                           *)
  Silence,     (* the keys of silence rules, evaluated by the sweep        *)
  Id,          (* alert ids that may be generated                          *)
  None,        (* no key, no alert                                         *)
  M,           (* observations in a row that change the firing state       *)
  Faults,      (* calls that may fail: a subset of {"store", "publish"}    *)
  MaxFaults,   (* bound on failed store calls                              *)
  MaxCrashes,  (* bound on processor crashes                               *)
  MaxResolves, (* bound on operator resolves                               *)
  MaxChanges   (* bound on signal changes                                  *)

ASSUME AlertsAssumption ==
  /\ Silence \subseteq Key
  /\ None \notin Key /\ None \notin Id
  /\ M \in Nat \ {0}
  /\ Faults \subseteq {"store", "publish"}
  /\ MaxFaults \in Nat /\ MaxCrashes \in Nat
  /\ MaxResolves \in Nat /\ MaxChanges \in Nat

VARIABLES
  bad,       (* bad[k]: what the detector says of k's signal now           *)
  registry,  (* silence keys whose sensor is in the window registry        *)
  ev,        (* ev[k]: the evaluator's counters                            *)
  recent,    (* history: recent[k], the last M verdicts since startup      *)
  pc,        (* where each goroutine of the consumer is                    *)
  job,       (* the key it is evaluating                                   *)
  held,      (* the alert it is about to publish                           *)
  row,       (* row[i]: the alerts table, state "absent" before the insert *)
  requests,  (* operator handlers between the update and the publish       *)
  heard,     (* heard[i]: the state in the last event about i              *)
  faults,    (* failed store calls so far                                  *)
  crashes,   (* processor crashes so far                                   *)
  resolves,  (* operator resolves so far                                   *)
  changes    (* signal changes so far                                      *)

procVars == <<registry, ev, recent, pc, job, held>>
bounds == <<faults, crashes, resolves, changes>>
vars == <<bad, procVars, row, requests, heard, bounds>>

-----------------------------------------------------------------------------
(* Sample rules run in the JetStream callback, silence rules in the sweep. *)
Goroutine == {"consume", "sweep"}
KeysOf(g) == IF g = "sweep" THEN Silence ELSE Key \ Silence

State == {"firing", "acknowledged", "resolved"}

(* Machine.Next: the transition table an alert row is meant to follow.     *)
MachineNext ==
  {<<"firing", "acknowledged">>, <<"firing", "resolved">>, <<"acknowledged", "resolved">>}

IsOpen(i) == row[i].state \in {"firing", "acknowledged"}
OpenAlerts(k) == {i \in Id : row[i].key = k /\ IsOpen(i)}

NoAlert == [id |-> None, state |-> "absent"]
Fresh == [violations |-> 0, clears |-> 0, open |-> FALSE]

TypeOK ==
  /\ bad \in [Key -> BOOLEAN]
  /\ registry \subseteq Silence
  /\ ev \in [Key -> [violations : 0..M, clears : 0..M, open : BOOLEAN]]
  /\ recent \in [Key -> Seq(BOOLEAN)]
  /\ pc \in [Goroutine -> {"idle", "open", "getopen", "resolve", "publish"}]
  /\ job \in [Goroutine -> Key \union {None}]
  /\ held \in [Goroutine -> [id : Id \union {None}, state : State \union {"absent"}]]
  /\ row \in [Id -> [key : Key \union {None}, state : State \union {"absent"}]]
  /\ requests \subseteq [id : Id, state : State]
  /\ heard \in [Id -> State \union {"absent"}]
  /\ faults \in 0..MaxFaults
  /\ crashes \in 0..MaxCrashes
  /\ resolves \in 0..MaxResolves
  /\ changes \in 0..MaxChanges

Init ==
  /\ bad = [k \in Key |-> FALSE]
  /\ registry = {}
  /\ ev = [k \in Key |-> Fresh]
  /\ recent = [k \in Key |-> <<>>]
  /\ pc = [g \in Goroutine |-> "idle"]
  /\ job = [g \in Goroutine |-> None]
  /\ held = [g \in Goroutine |-> NoAlert]
  /\ row = [i \in Id |-> [key |-> None, state |-> "absent"]]
  /\ requests = {}
  /\ heard = [i \in Id |-> "absent"]
  /\ faults = 0
  /\ crashes = 0
  /\ resolves = 0
  /\ changes = 0

-----------------------------------------------------------------------------
(* The fleet: a signal starts or stops violating its rule.                 *)
SignalChanges(k) ==
  /\ changes < MaxChanges
  /\ changes' = changes + 1
  /\ bad' = [bad EXCEPT ![k] = ~@]
  /\ UNCHANGED <<procVars, row, requests, heard, faults, crashes, resolves>>

(* A message of a sensor with a silence rule puts it in the registry.      *)
Message(k) ==
  /\ k \in Silence \ registry
  /\ ~bad[k]
  /\ registry' = registry \union {k}
  /\ UNCHANGED <<bad, ev, recent, pc, job, held, row, requests, heard, bounds>>

(* Mutant of Evict: the evicted key's evaluator state is forgotten as well.*)
EvictForgets(k) ==
  /\ pc["sweep"] = "idle"
  /\ k \in registry
  /\ bad[k]
  /\ registry' = registry \ {k}
  /\ ev' = [ev EXCEPT ![k] = Fresh]
  /\ UNCHANGED <<bad, recent, pc, job, held, row, requests, heard, bounds>>

(* Registry.Sweep, after sweepSilence in the same tick: the evaluator's    *)
(* state for the key stays (Forget is never called).                       *)
Evict(k) ==
  /\ pc["sweep"] = "idle"
  /\ k \in registry
  /\ bad[k]
  /\ registry' = registry \ {k}
  /\ UNCHANGED <<bad, ev, recent, pc, job, held, row, requests, heard, bounds>>

-----------------------------------------------------------------------------
(* The windowed consumer.                                                  *)

(* Counters only matter up to M.                                           *)
Count(n) == IF n < M THEN n + 1 ELSE M

(* Mutant of Update: an observation does not reset the opposite counter.   *)
UpdateNoReset(c, violating) ==
  IF violating
  THEN LET n == Count(c.violations)
       IN  [c EXCEPT !.violations = n, !.open = c.open \/ n >= M]
  ELSE LET n == Count(c.clears)
       IN  [c EXCEPT !.clears = n, !.open = c.open /\ n < M]

(* Evaluator.Update: the counters after one observation.                   *)
Update(c, violating) ==
  IF violating
  THEN LET n == Count(c.violations)
       IN  [violations |-> n, clears |-> 0, open |-> c.open \/ n >= M]
  ELSE LET n == Count(c.clears)
       IN  [violations |-> 0, clears |-> n, open |-> c.open /\ n < M]

(* History only: the last M verdicts.                                      *)
Remember(s, b) ==
  LET t == Append(s, b) IN IF Len(t) > M THEN Tail(t) ELSE t

(* applyEvaluation: fire or resolve on an edge, nothing otherwise.         *)
ApplyEvaluation(g, k) ==
  /\ pc[g] = "idle"
  /\ k \in KeysOf(g)
  /\ g = "sweep" => k \in registry
  /\ ev' = [ev EXCEPT ![k] = Update(@, bad[k])]
  /\ recent' = [recent EXCEPT ![k] = Remember(@, bad[k])]
  /\ IF ev'[k].open = ev[k].open
     THEN UNCHANGED <<pc, job>>
     ELSE /\ pc' = [pc EXCEPT ![g] = IF bad[k] THEN "open" ELSE "resolve"]
          /\ job' = [job EXCEPT ![g] = k]
  /\ UNCHANGED <<bad, registry, held, row, requests, heard, bounds>>

(* The goroutine goes back to its messages or its ticker.                  *)
Done(g) ==
  /\ pc' = [pc EXCEPT ![g] = "idle"]
  /\ job' = [job EXCEPT ![g] = None]
  /\ held' = [held EXCEPT ![g] = NoAlert]

Publishing(g, i, s) ==
  /\ pc' = [pc EXCEPT ![g] = "publish"]
  /\ held' = [held EXCEPT ![g] = [id |-> i, state |-> s]]
  /\ UNCHANGED job

(* Mutants of InsertRow: an index over firing rows only, so that an        *)
(* acknowledged alert does not count as open; an index over all rows.      *)
InsertRowFiringIndex(k, i) ==
  /\ \A j \in Id : row[j].key = k => row[j].state # "firing"
  /\ row[i].state = "absent"
  /\ row' = [row EXCEPT ![i] = [key |-> k, state |-> "firing"]]

InsertRowFullIndex(k, i) ==
  /\ \A j \in Id : row[j].key # k
  /\ row[i].state = "absent"
  /\ row' = [row EXCEPT ![i] = [key |-> k, state |-> "firing"]]

(* Store.Open's insert; the partial unique index rejects a second open row.*)
InsertRow(k, i) ==
  /\ OpenAlerts(k) = {}
  /\ row[i].state = "absent"
  /\ row' = [row EXCEPT ![i] = [key |-> k, state |-> "firing"]]

Open(g) ==
  /\ pc[g] = "open"
  /\ \/ \E i \in Id : InsertRow(job[g], i) /\ Publishing(g, i, "firing")
     \/ /\ OpenAlerts(job[g]) # {}
        /\ pc' = [pc EXCEPT ![g] = "getopen"]
        /\ UNCHANGED <<row, job, held>>
  /\ UNCHANGED <<bad, registry, ev, recent, requests, heard, bounds>>

(* getOpen: an operator may have resolved the alert meanwhile; fire then   *)
(* gives up on the error.                                                  *)
GetOpen(g) ==
  /\ pc[g] = "getopen"
  /\ \/ OpenAlerts(job[g]) = {} /\ Done(g)
     \/ \E i \in OpenAlerts(job[g]) : Publishing(g, i, row[i].state)
  /\ UNCHANGED <<bad, registry, ev, recent, row, requests, heard, bounds>>

(* Mutant of ResolveRows: WHERE state = 'firing' misses acknowledged rows. *)
ResolveRowsFiring(k) ==
  row' = [i \in Id |-> IF row[i] = [key |-> k, state |-> "firing"]
                       THEN [row[i] EXCEPT !.state = "resolved"] ELSE row[i]]

(* Store.Resolve's update, by key.                                         *)
ResolveRows(k) ==
  row' = [i \in Id |-> IF i \in OpenAlerts(k) THEN [row[i] EXCEPT !.state = "resolved"] ELSE row[i]]

(* Nothing is published when nothing was open.                             *)
Resolve(g) ==
  /\ pc[g] = "resolve"
  /\ ResolveRows(job[g])
  /\ \/ OpenAlerts(job[g]) = {} /\ Done(g)
     \/ \E i \in OpenAlerts(job[g]) : Publishing(g, i, "resolved")
  /\ UNCHANGED <<bad, registry, ev, recent, requests, heard, bounds>>

(* A store call of fire or resolve fails, possibly with the statement      *)
(* committed and only its reply lost: logged, never retried.               *)
StoreError(g) ==
  /\ "store" \in Faults
  /\ faults < MaxFaults
  /\ faults' = faults + 1
  /\ \/ pc[g] \in {"open", "getopen", "resolve"} /\ UNCHANGED row
     \/ pc[g] = "open" /\ \E i \in Id : InsertRow(job[g], i)
     \/ pc[g] = "resolve" /\ ResolveRows(job[g])
  /\ Done(g)
  /\ UNCHANGED <<bad, registry, ev, recent, requests, heard, crashes, resolves, changes>>

(* Publisher.Publish, or a failure that is only logged.                    *)
Publish(g) ==
  /\ pc[g] = "publish"
  /\ \/ heard' = [heard EXCEPT ![held[g].id] = held[g].state]
     \/ "publish" \in Faults /\ UNCHANGED heard
  /\ Done(g)
  /\ UNCHANGED <<bad, registry, ev, recent, row, requests, bounds>>

(* The processor restarts: registry and evaluator start empty.             *)
Crash ==
  /\ crashes < MaxCrashes
  /\ crashes' = crashes + 1
  /\ registry' = {}
  /\ ev' = [k \in Key |-> Fresh]
  /\ recent' = [k \in Key |-> <<>>]
  /\ pc' = [g \in Goroutine |-> "idle"]
  /\ job' = [g \in Goroutine |-> None]
  /\ held' = [g \in Goroutine |-> NoAlert]
  /\ UNCHANGED <<bad, row, requests, heard, faults, resolves, changes>>

-----------------------------------------------------------------------------
(* The operator's handlers in cmd/control.                                 *)

(* Mutants of Acknowledge: no state in the WHERE clause, and the event     *)
(* published without the update.                                           *)
AcknowledgeAnyState(i) ==
  /\ row[i].state # "absent"
  /\ row' = [row EXCEPT ![i].state = "acknowledged"]
  /\ requests' = requests \union {[id |-> i, state |-> "acknowledged"]}
  /\ UNCHANGED <<bad, procVars, heard, bounds>>

AcknowledgeEventOnly(i) ==
  /\ row[i].state = "firing"
  /\ requests' = requests \union {[id |-> i, state |-> "acknowledged"]}
  /\ UNCHANGED <<bad, procVars, row, heard, bounds>>

(* Store.Acknowledge updates only a row that is still firing.              *)
Acknowledge(i) ==
  /\ row[i].state = "firing"
  /\ row' = [row EXCEPT ![i].state = "acknowledged"]
  /\ requests' = requests \union {[id |-> i, state |-> "acknowledged"]}
  /\ UNCHANGED <<bad, procVars, heard, bounds>>

ResolveByID(i) ==
  /\ IsOpen(i)
  /\ resolves < MaxResolves
  /\ resolves' = resolves + 1
  /\ row' = [row EXCEPT ![i].state = "resolved"]
  /\ requests' = requests \union {[id |-> i, state |-> "resolved"]}
  /\ UNCHANGED <<bad, procVars, heard, faults, crashes, changes>>

PublishRequest(q) ==
  /\ q \in requests
  /\ requests' = requests \ {q}
  /\ \/ heard' = [heard EXCEPT ![q.id] = q.state]
     \/ "publish" \in Faults /\ UNCHANGED heard
  /\ UNCHANGED <<bad, procVars, row, bounds>>

-----------------------------------------------------------------------------
Consumer(g) ==
  \/ \E k \in Key : ApplyEvaluation(g, k)
  \/ Open(g) \/ GetOpen(g) \/ Resolve(g) \/ StoreError(g) \/ Publish(g)

Operator == \E i \in Id : Acknowledge(i) \/ ResolveByID(i)

Next ==
  \/ \E k \in Key : SignalChanges(k) \/ Message(k) \/ Evict(k)
  \/ \E g \in Goroutine : Consumer(g)
  \/ Operator
  \/ \E q \in requests : PublishRequest(q)
  \/ Crash

Spec == Init /\ [][Next]_vars

(* Samples and sweeps keep coming, sensors that are not silent send, and   *)
(* the consumer's goroutines run.                                          *)
Fairness ==
  /\ \A k \in Key : WF_vars(Message(k))
  /\ \A g \in Goroutine :
       /\ \A k \in Key : SF_vars(ApplyEvaluation(g, k))
       /\ WF_vars(Open(g) \/ GetOpen(g) \/ Resolve(g) \/ Publish(g))

FairSpec == Spec /\ Fairness

-----------------------------------------------------------------------------
(* Properties.                                                             *)

(* An alert row only ever takes the transitions of Machine.Next, although  *)
(* the store's SQL never consults the machine: firing is where it starts,  *)
(* resolved is where it stays, and it never changes its key.               *)
RowsFollowMachine ==
  [][\A i \in Id : row'[i] # row[i] =>
       \/ row[i].state = "absent" /\ row'[i].state = "firing"
       \/ row'[i].key = row[i].key /\ <<row[i].state, row'[i].state>> \in MachineNext]_vars

(* At most one alert per key is open (Store.Open's comment: never re-fire  *)
(* an already-firing alert), also after a restart that forgot the evaluator*)
(* and with operators resolving between Open and getOpen.                  *)
OneOpenPerKey ==
  \A i, j \in Id : IsOpen(i) /\ IsOpen(j) /\ row[i].key = row[j].key => i = j

(* Hysteresis (Evaluator's comment): an alert is opened only when the last *)
(* M verdicts all violated, and resolved by the processor only when the    *)
(* last M were all clear.                                                  *)
NoFlapping ==
  \A g \in Goroutine :
    /\ pc[g] = "open" => recent[job[g]] = [n \in 1..M |-> TRUE]
    /\ pc[g] = "resolve" => recent[job[g]] = [n \in 1..M |-> FALSE]

(* Without a crash or a failed store call, a key the evaluator considers   *)
(* clear has no open alert once the consumer is idle, whatever operators do*)
(* (fire, resolve).                                                        *)
ClearedIsResolved ==
  crashes = 0 /\ faults = 0 =>
    \A g \in Goroutine : \A k \in KeysOf(g) :
      pc[g] = "idle" /\ ~ev[k].open => OpenAlerts(k) = {}

(* How far along its life an alert is.                                     *)
Rank(s) ==
  IF s = "absent" THEN 0 ELSE IF s = "firing" THEN 1 ELSE IF s = "acknowledged" THEN 2 ELSE 3

(* The event stream never reports a state its alert has not reached: the   *)
(* store is written before Publish is called.                              *)
EventsTrailRows ==
  \A i \in Id : Rank(heard[i]) <= Rank(row[i].state)

(* A signal that keeps violating a sample rule has an open alert in the    *)
(* end: one lost or wrong evaluation is made up for by the next ones       *)
(* (windowed.go's header), and so is a restart that forgets the counters.  *)
(* A failed store call or an operator's resolve may lose the alert, since  *)
(* the evaluator reports an edge once.                                     *)
ViolationOpensAlert ==
  [](resolves = 0 /\ faults = 0) =>
    \A k \in Key \ Silence : <>[]bad[k] => <>[](OpenAlerts(k) # {})

(* Automatic clear-on-condition (ResolveByID's comment): a signal that     *)
(* stays clear has no open alert in the end, also when its silent sensor   *)
(* was evicted from the registry meanwhile and whatever operators do.      *)
ClearsAcrossRestarts ==
  \A k \in Key : <>[]~bad[k] => <>[](OpenAlerts(k) = {})

(* The same of one life of the processor whose store calls succeed.        *)
ConditionClears ==
  [](crashes = 0 /\ faults = 0) => ClearsAcrossRestarts
=============================================================================
