---------------------------- MODULE AlertsProofs ----------------------------
(* Proofs about Alerts, for every value of its constants: any keys, ids and*)
(* M, any number of crashes, failed calls and operator requests.           *)
EXTENDS Alerts, SequenceTheorems, TLAPS

-----------------------------------------------------------------------------
(* The inductive invariant.                                                *)

(* TypeOK by parts: the consumer, and what it shares with the operators.   *)
ConsumerType ==
  /\ bad \in [Key -> BOOLEAN]
  /\ registry \subseteq Silence
  /\ ev \in [Key -> [violations : 0..M, clears : 0..M, open : BOOLEAN]]
  /\ recent \in [Key -> Seq(BOOLEAN)]
  /\ pc \in [Goroutine -> {"idle", "open", "getopen", "resolve", "publish"}]
  /\ job \in [Goroutine -> Key \union {None}]
  /\ held \in [Goroutine -> [id : Id \union {None}, state : State \union {"absent"}]]
  /\ faults \in 0..MaxFaults
  /\ crashes \in 0..MaxCrashes
  /\ resolves \in 0..MaxResolves
  /\ changes \in 0..MaxChanges

TableType ==
  /\ row \in [Id -> [key : Key \union {None}, state : State \union {"absent"}]]
  /\ requests \subseteq [id : Id, state : State]
  /\ heard \in [Id -> State \union {"absent"}]

(* TypeOK is its two parts.                                               *)
LEMMA TypeParts ==
  TypeOK <=> ConsumerType /\ TableType
BY DEF TypeOK, ConsumerType, TableType

(* A busy goroutine has one of its own keys, and what it is about to do    *)
(* agrees with the evaluator.                                              *)
JobInv ==
  \A g \in Goroutine :
    /\ pc[g] # "idle" => job[g] \in KeysOf(g)
    /\ pc[g] \in {"open", "getopen"} => ev[job[g]].open
    /\ pc[g] = "resolve" => ~ev[job[g]].open

(* What is about to be published, or was, is a state its alert reached.    *)
HeldReached(g) ==
  pc[g] = "publish" =>
    /\ held[g].id \in Id
    /\ held[g].state \in State
    /\ Rank(held[g].state) <= Rank(row[held[g].id].state)

RequestsReached ==
  \A q \in requests : Rank(q.state) <= Rank(row[q.id].state)

EventInv ==
  /\ \A g \in Goroutine : HeldReached(g)
  /\ RequestsReached
  /\ EventsTrailRows

(* A key the evaluator considers clear has no open alert, unless the       *)
(* goroutine is on its way to resolve it.                                  *)
ClearInv ==
  crashes = 0 /\ faults = 0 =>
    \A g \in Goroutine : \A k \in KeysOf(g) :
      ~ev[k].open /\ ~(pc[g] = "resolve" /\ job[g] = k) => OpenAlerts(k) = {}

IInv ==
  /\ TypeOK
  /\ JobInv
  /\ OneOpenPerKey
  /\ EventInv
  /\ ClearInv

-----------------------------------------------------------------------------
(* The invariant holds at startup, with an empty alerts table.            *)
LEMMA InitIInv ==
  Init => IInv
<1> SUFFICES ASSUME Init PROVE IInv
  OBVIOUS
<1>1. ConsumerType
  BY AlertsAssumption DEF Init, ConsumerType, Fresh, NoAlert
<1>2. TableType
  BY DEF Init, TableType
<1>3. JobInv /\ OneOpenPerKey
  BY DEF Init, JobInv, OneOpenPerKey, IsOpen
<1>4. EventInv
  BY DEF Init, EventInv, HeldReached, RequestsReached, EventsTrailRows, Rank
<1>5. ClearInv
  BY DEF Init, ClearInv, OpenAlerts, IsOpen
<1>6. QED
  BY <1>1, <1>2, <1>3, <1>4, <1>5, TypeParts DEF IInv

(* Evaluator.Update keeps the counters in range and changes open on edges  *)
(* only.                                                                   *)
LEMMA UpdateType ==
  ASSUME NEW c \in [violations : 0..M, clears : 0..M, open : BOOLEAN], NEW b \in BOOLEAN
  PROVE  /\ Update(c, b) \in [violations : 0..M, clears : 0..M, open : BOOLEAN]
         /\ b /\ c.open => Update(c, b).open
         /\ ~b /\ ~c.open => ~Update(c, b).open
<1>1. \A n \in 0..M : Count(n) \in 0..M
  BY AlertsAssumption DEF Count
<1>2. CASE b
  BY <1>1, <1>2, AlertsAssumption DEF Update
<1>3. CASE ~b
  BY <1>1, <1>3, AlertsAssumption DEF Update
<1>4. QED
  BY <1>2, <1>3

(* The history of verdicts stays a sequence of verdicts.                  *)
LEMMA RememberType ==
  ASSUME NEW s \in Seq(BOOLEAN), NEW b \in BOOLEAN
  PROVE  Remember(s, b) \in Seq(BOOLEAN)
<1>1. Append(s, b) \in Seq(BOOLEAN) /\ Len(Append(s, b)) = Len(s) + 1
  OBVIOUS
<1>2. Append(s, b) # <<>>
  BY <1>1
<1>3. Tail(Append(s, b)) \in Seq(BOOLEAN)
  BY <1>1, <1>2
<1>4. QED
  BY <1>1, <1>3 DEF Remember

-----------------------------------------------------------------------------
(* What the store's statements do to the table.                            *)

(* One row's life: it appears as firing or follows Machine.Next.           *)
RowStep(i) ==
  \/ row'[i] = row[i]
  \/ row[i].state = "absent" /\ row'[i].state = "firing"
  \/ row'[i].key = row[i].key /\ <<row[i].state, row'[i].state>> \in MachineNext

RowType == row \in [Id -> [key : Key \union {None}, state : State \union {"absent"}]]

(* Store.Open's insert adds one firing row and touches no other.          *)
LEMMA InsertEffect ==
  ASSUME RowType, NEW k \in Key, NEW i \in Id, InsertRow(k, i)
  PROVE  /\ RowType'
         /\ row'[i] = [key |-> k, state |-> "firing"]
         /\ row[i].state = "absent" /\ OpenAlerts(k) = {}
         /\ \A j \in Id \ {i} : row'[j] = row[j]
BY DEF InsertRow, RowType, State

(* Store.Resolve's update resolves the key's open rows and touches no     *)
(* other.                                                                 *)
LEMMA ResolveEffect ==
  ASSUME RowType, NEW k \in Key, ResolveRows(k)
  PROVE  /\ RowType'
         /\ \A j \in Id : row'[j].key = row[j].key
         /\ \A j \in OpenAlerts(k) : row'[j].state = "resolved"
         /\ \A j \in Id \ OpenAlerts(k) : row'[j] = row[j]
<1>1. \A j \in Id : row[j] \in [key : Key \union {None}, state : State \union {"absent"}]
  BY DEF RowType
<1>2. OpenAlerts(k) \subseteq Id
  BY DEF OpenAlerts
<1>3. QED
  BY <1>1, <1>2 DEF ResolveRows, RowType, State

(* An operator's UPDATE by id changes the state of that row only.         *)
LEMMA UpdateEffect ==
  ASSUME RowType, NEW i \in Id, NEW s \in State, row' = [row EXCEPT ![i].state = s]
  PROVE  /\ RowType'
         /\ row'[i].key = row[i].key /\ row'[i].state = s
         /\ \A j \in Id \ {i} : row'[j] = row[j]
BY DEF RowType

(* The table changes by an insert, by resolving a key, or by moving one    *)
(* open row on.                                                            *)
TableStep ==
  \/ row' = row
  \/ \E g \in Goroutine, i \in Id : pc[g] = "open" /\ InsertRow(job[g], i)
  \/ \E g \in Goroutine : pc[g] = "resolve" /\ ResolveRows(job[g])
  \/ \E i \in Id : IsOpen(i) /\ row' = [row EXCEPT ![i].state = "resolved"]
  \/ \E i \in Id : row[i].state = "firing" /\ row' = [row EXCEPT ![i].state = "acknowledged"]

(* Every step of the system is one of these, or leaves the table alone.   *)
LEMMA NextTableStep ==
  [Next]_vars => TableStep
<1> SUFFICES ASSUME [Next]_vars PROVE TableStep
  OBVIOUS
<1>1. ASSUME NEW k \in Key, SignalChanges(k) \/ Message(k) \/ Evict(k) PROVE row' = row
  BY <1>1 DEF SignalChanges, Message, Evict
<1>2. ASSUME NEW g \in Goroutine, NEW k \in Key, ApplyEvaluation(g, k) PROVE row' = row
  BY <1>2 DEF ApplyEvaluation
<1>3. ASSUME NEW g \in Goroutine, Open(g) \/ StoreError(g) \/ Resolve(g) PROVE TableStep
  BY <1>3 DEF Open, StoreError, Resolve, TableStep
<1>4. ASSUME NEW g \in Goroutine, GetOpen(g) \/ Publish(g) PROVE row' = row
  BY <1>4 DEF GetOpen, Publish
<1>5. ASSUME NEW i \in Id, Acknowledge(i) \/ ResolveByID(i) PROVE TableStep
  BY <1>5 DEF Acknowledge, ResolveByID, TableStep
<1>6. ASSUME NEW q \in requests, PublishRequest(q) PROVE row' = row
  BY <1>6 DEF PublishRequest
<1>7. CASE Crash \/ UNCHANGED vars
  BY <1>7 DEF Crash, vars, TableStep
<1>8. QED
  BY <1>1, <1>2, <1>3, <1>4, <1>5, <1>6, <1>7 DEF Next, Consumer, Operator, TableStep

(* A step of the table moves every row along the machine, and keeps one   *)
(* open row per key.                                                      *)
LEMMA TableSteps ==
  ASSUME IInv, [Next]_vars
  PROVE  /\ RowType'
         /\ \A i \in Id : RowStep(i)
         /\ OneOpenPerKey'
<1>1. RowType /\ OneOpenPerKey /\ TableStep
  BY NextTableStep, TypeParts DEF IInv, TableType, RowType
<1>2. \A g \in Goroutine : pc[g] # "idle" => job[g] \in Key
  BY AlertsAssumption DEF IInv, JobInv, KeysOf
<1>3. CASE row' = row
  BY <1>1, <1>3 DEF RowType, RowStep, OneOpenPerKey, IsOpen
<1>4. ASSUME NEW g \in Goroutine, NEW i \in Id, pc[g] = "open", InsertRow(job[g], i)
      PROVE  RowType' /\ (\A j \in Id : RowStep(j)) /\ OneOpenPerKey'
  <2>1. job[g] \in Key
    BY <1>2, <1>4
  <2>2. /\ RowType'
        /\ row'[i] = [key |-> job[g], state |-> "firing"]
        /\ row[i].state = "absent" /\ OpenAlerts(job[g]) = {}
        /\ \A j \in Id \ {i} : row'[j] = row[j]
    BY <1>1, <1>4, <2>1, InsertEffect
  <2>3. \A j \in Id : RowStep(j)
    BY <2>2 DEF RowStep
  <2>4. OneOpenPerKey'
    BY <1>1, <2>2 DEF OneOpenPerKey, OpenAlerts, IsOpen
  <2>5. QED
    BY <2>2, <2>3, <2>4
<1>5. ASSUME NEW g \in Goroutine, pc[g] = "resolve", ResolveRows(job[g])
      PROVE  RowType' /\ (\A j \in Id : RowStep(j)) /\ OneOpenPerKey'
  <2>1. job[g] \in Key
    BY <1>2, <1>5
  <2>2. /\ RowType'
        /\ \A j \in Id : row'[j].key = row[j].key
        /\ \A j \in OpenAlerts(job[g]) : row'[j].state = "resolved"
        /\ \A j \in Id \ OpenAlerts(job[g]) : row'[j] = row[j]
    BY <1>1, <1>5, <2>1, ResolveEffect
  <2>3. \A j \in Id : RowStep(j)
    BY <2>2 DEF RowStep, OpenAlerts, IsOpen, MachineNext
  <2>4. OneOpenPerKey'
    BY <1>1, <2>2 DEF OneOpenPerKey, IsOpen
  <2>5. QED
    BY <2>2, <2>3, <2>4
<1>6. ASSUME NEW i \in Id, NEW s \in {"acknowledged", "resolved"}, IsOpen(i),
             <<row[i].state, s>> \in MachineNext, row' = [row EXCEPT ![i].state = s]
      PROVE  RowType' /\ (\A j \in Id : RowStep(j)) /\ OneOpenPerKey'
  <2>1. s \in State
    BY DEF State
  <2>2. /\ RowType'
        /\ row'[i].key = row[i].key /\ row'[i].state = s
        /\ \A j \in Id \ {i} : row'[j] = row[j]
    BY <1>1, <1>6, <2>1, UpdateEffect
  <2>3. \A j \in Id : RowStep(j)
    BY <1>6, <2>2 DEF RowStep
  <2>4. OneOpenPerKey'
    BY <1>1, <1>6, <2>2 DEF OneOpenPerKey, IsOpen
  <2>5. QED
    BY <2>2, <2>3, <2>4
<1>7. ASSUME NEW i \in Id, IsOpen(i), row' = [row EXCEPT ![i].state = "resolved"]
      PROVE  RowType' /\ (\A j \in Id : RowStep(j)) /\ OneOpenPerKey'
  BY <1>6, <1>7 DEF IsOpen, MachineNext
<1>8. ASSUME NEW i \in Id, row[i].state = "firing", row' = [row EXCEPT ![i].state = "acknowledged"]
      PROVE  RowType' /\ (\A j \in Id : RowStep(j)) /\ OneOpenPerKey'
  BY <1>6, <1>8 DEF IsOpen, MachineNext
<1>9. QED
  BY <1>1, <1>3, <1>4, <1>5, <1>7, <1>8 DEF TableStep

-----------------------------------------------------------------------------
(* The consumer's state and its jobs.                                      *)

(* The consumer's part of the type invariant is inductive.                *)
LEMMA NextConsumer ==
  IInv /\ [Next]_vars => ConsumerType'
<1> SUFFICES ASSUME IInv, [Next]_vars PROVE ConsumerType'
  OBVIOUS
<1>1. ConsumerType /\ TableType /\ JobInv
  BY TypeParts DEF IInv
<1> USE AlertsAssumption DEF ConsumerType, bounds, procVars
<1>2. ASSUME NEW k \in Key, SignalChanges(k) \/ Message(k) \/ Evict(k) PROVE ConsumerType'
  <2>1. bad' \in [Key -> BOOLEAN]
    <3>1. CASE bad' = bad
      BY <1>1, <3>1
    <3>2. CASE bad' = [bad EXCEPT ![k] = ~bad[k]]
      BY <1>1, <3>2, Zenon
    <3>3. QED
      BY <1>2, <3>1, <3>2 DEF SignalChanges, Message, Evict
  <2>2. registry' \subseteq Silence /\ changes' \in 0..MaxChanges
    BY <1>1, <1>2 DEF SignalChanges, Message, Evict
  <2>3. QED
    BY <1>1, <1>2, <2>1, <2>2 DEF SignalChanges, Message, Evict
<1>3. ASSUME NEW g \in Goroutine, NEW k \in Key, ApplyEvaluation(g, k) PROVE ConsumerType'
  <2>1. ev' \in [Key -> [violations : 0..M, clears : 0..M, open : BOOLEAN]]
    <3>1. Update(ev[k], bad[k]) \in [violations : 0..M, clears : 0..M, open : BOOLEAN]
      BY <1>1, UpdateType
    <3>2. QED
      BY <1>1, <1>3, <3>1 DEF ApplyEvaluation
  <2>2. recent' \in [Key -> Seq(BOOLEAN)]
    <3>1. Remember(recent[k], bad[k]) \in Seq(BOOLEAN)
      BY <1>1, RememberType
    <3>2. QED
      BY <1>1, <1>3, <3>1 DEF ApplyEvaluation
  <2>3. pc' \in [Goroutine -> {"idle", "open", "getopen", "resolve", "publish"}]
    <3>1. pc' = pc \/ \E l \in {"open", "resolve"} : pc' = [pc EXCEPT ![g] = l]
      BY <1>3 DEF ApplyEvaluation
    <3>2. QED
      BY <1>1, <3>1
  <2>4. job' \in [Goroutine -> Key \union {None}]
    BY <1>1, <1>3 DEF ApplyEvaluation
  <2>5. QED
    BY <1>1, <1>3, <2>1, <2>2, <2>3, <2>4 DEF ApplyEvaluation
<1>4. ASSUME NEW g \in Goroutine, Open(g) \/ GetOpen(g) \/ Resolve(g) PROVE ConsumerType'
  <2>1. held' \in [Goroutine -> [id : Id \union {None}, state : State \union {"absent"}]]
    BY <1>1, <1>4 DEF Open, GetOpen, Resolve, Publishing, Done, NoAlert, OpenAlerts, State,
         TableType
  <2>2. QED
    BY <1>1, <1>4, <2>1 DEF Open, GetOpen, Resolve, Publishing, Done
<1>5. ASSUME NEW g \in Goroutine, StoreError(g) \/ Publish(g) PROVE ConsumerType'
  <2>1. Done(g)
    BY <1>5 DEF StoreError, Publish
  <2>2. held' \in [Goroutine -> [id : Id \union {None}, state : State \union {"absent"}]]
    BY <1>1, <2>1 DEF Done, NoAlert
  <2>3. /\ pc' \in [Goroutine -> {"idle", "open", "getopen", "resolve", "publish"}]
        /\ job' \in [Goroutine -> Key \union {None}]
    BY <1>1, <2>1 DEF Done
  <2>4. faults' \in 0..MaxFaults
    BY <1>1, <1>5 DEF StoreError, Publish
  <2>5. QED
    BY <1>1, <1>5, <2>2, <2>3, <2>4 DEF StoreError, Publish
<1>6. ASSUME NEW i \in Id, Acknowledge(i) \/ ResolveByID(i) PROVE ConsumerType'
  BY <1>1, <1>6 DEF Acknowledge, ResolveByID
<1>7. ASSUME NEW q \in requests, PublishRequest(q) PROVE ConsumerType'
  BY <1>1, <1>7 DEF PublishRequest
<1>8. ASSUME Crash PROVE ConsumerType'
  BY <1>1, <1>8 DEF Crash, Fresh, NoAlert
<1>9. CASE UNCHANGED vars
  BY <1>1, <1>9 DEF vars
<1>10. QED
  BY <1>2, <1>3, <1>4, <1>5, <1>6, <1>7, <1>8, <1>9 DEF Next, Consumer, Operator

(* The shared part is: only rows that exist are published about.          *)
LEMMA NextTable ==
  IInv /\ [Next]_vars => TableType'
<1> SUFFICES ASSUME IInv, [Next]_vars PROVE TableType'
  OBVIOUS
<1>1. ConsumerType /\ TableType /\ EventInv /\ RowType'
  BY TypeParts, TableSteps DEF IInv
<1>2. ASSUME requests' = requests, heard' = heard PROVE TableType'
  BY <1>1, <1>2 DEF TableType, RowType
<1>3. ASSUME NEW k \in Key, SignalChanges(k) \/ Message(k) \/ Evict(k) PROVE TableType'
  BY <1>2, <1>3 DEF SignalChanges, Message, Evict
<1>4. ASSUME NEW g \in Goroutine, NEW k \in Key, ApplyEvaluation(g, k) PROVE TableType'
  BY <1>2, <1>4 DEF ApplyEvaluation
<1>5. ASSUME NEW g \in Goroutine, Open(g) \/ GetOpen(g) \/ Resolve(g) \/ StoreError(g)
       PROVE TableType'
  BY <1>2, <1>5 DEF Open, GetOpen, Resolve, StoreError
<1>6. ASSUME NEW g \in Goroutine, Publish(g) PROVE TableType'
  BY <1>1, <1>6 DEF Publish, EventInv, HeldReached, TableType, RowType
<1>7. ASSUME NEW i \in Id, Acknowledge(i) \/ ResolveByID(i) PROVE TableType'
  BY <1>1, <1>7 DEF Acknowledge, ResolveByID, TableType, RowType, State
<1>8. ASSUME NEW q \in requests, PublishRequest(q) PROVE TableType'
  BY <1>1, <1>8 DEF PublishRequest, TableType, RowType
<1>9. CASE Crash \/ UNCHANGED vars
  BY <1>2, <1>9 DEF Crash, vars
<1>10. QED
  BY <1>3, <1>4, <1>5, <1>6, <1>7, <1>8, <1>9 DEF Next, Consumer, Operator

(* The keys of the two goroutines are disjoint, so neither changes the     *)
(* evaluator's mind about the other's job.                                 *)
LEMMA NextJob ==
  IInv /\ [Next]_vars => JobInv'
<1> SUFFICES ASSUME IInv, [Next]_vars PROVE JobInv'
  OBVIOUS
<1>1. ConsumerType /\ JobInv
  BY TypeParts DEF IInv
<1>2. ASSUME ev' = ev, pc' = pc, job' = job PROVE JobInv'
  BY <1>1, <1>2 DEF JobInv
<1>3. ASSUME NEW g \in Goroutine, NEW k \in Key, ApplyEvaluation(g, k) PROVE JobInv'
  <2>1. k \in KeysOf(g) /\ pc[g] = "idle"
    BY <1>3 DEF ApplyEvaluation
  <2>2. \A h \in Goroutine \ {g} : pc'[h] = pc[h] /\ job'[h] = job[h] /\ k \notin KeysOf(h)
    BY <1>1, <1>3, <2>1 DEF ApplyEvaluation, ConsumerType, KeysOf, Goroutine
  <2>3. \A x \in Key \ {k} : ev'[x] = ev[x]
    BY <1>1, <1>3 DEF ApplyEvaluation, ConsumerType
  <2>4. ev'[k] = Update(ev[k], bad[k])
    BY <1>1, <1>3 DEF ApplyEvaluation, ConsumerType
  <2> DEFINE Counters == [violations : 0..M, clears : 0..M, open : BOOLEAN]
  <2>a. ev[k] \in Counters /\ bad[k] \in BOOLEAN
    BY <1>1 DEF ConsumerType
  <2>b. /\ Update(ev[k], bad[k]) \in Counters
        /\ bad[k] /\ ev[k].open => Update(ev[k], bad[k]).open
        /\ ~bad[k] /\ ~ev[k].open => ~Update(ev[k], bad[k]).open
    BY <2>a, UpdateType, Zenon
  <2>5. bad[k] /\ ev[k].open => ev'[k].open
    BY <2>4, <2>b
  <2>6. ~bad[k] /\ ~ev[k].open => ~ev'[k].open
    BY <2>4, <2>b
  <2>7. \/ pc'[g] = "idle"
        \/ pc'[g] = "open" /\ job'[g] = k /\ ev'[k].open
        \/ pc'[g] = "resolve" /\ job'[g] = k /\ ~ev'[k].open
    <3>1. ev[k].open \in BOOLEAN /\ ev'[k].open \in BOOLEAN /\ bad[k] \in BOOLEAN
      BY <2>4, <2>a, <2>b
    <3>2. QED
      BY <1>1, <1>3, <2>1, <2>5, <2>6, <3>1 DEF ApplyEvaluation, ConsumerType
  <2>8. QED
    BY <1>1, <2>1, <2>2, <2>3, <2>7, AlertsAssumption DEF JobInv, KeysOf
<1>4. ASSUME NEW g \in Goroutine, Open(g) \/ GetOpen(g) PROVE JobInv'
  <2>1. ev' = ev /\ pc[g] \in {"open", "getopen"}
    BY <1>4 DEF Open, GetOpen
  <2>2. \A h \in Goroutine \ {g} : pc'[h] = pc[h] /\ job'[h] = job[h]
    BY <1>1, <1>4 DEF Open, GetOpen, Publishing, Done, ConsumerType
  <2>3. pc'[g] = "idle" \/ (pc'[g] \in {"getopen", "publish"} /\ job'[g] = job[g])
    BY <1>1, <1>4 DEF Open, GetOpen, Publishing, Done, ConsumerType
  <2>4. QED
    BY <1>1, <2>1, <2>2, <2>3 DEF JobInv
<1>5. ASSUME NEW g \in Goroutine, Resolve(g) \/ StoreError(g) \/ Publish(g) PROVE JobInv'
  <2>1. ev' = ev /\ pc[g] # "idle"
    BY <1>5 DEF Resolve, StoreError, Publish
  <2>2. \A h \in Goroutine \ {g} : pc'[h] = pc[h] /\ job'[h] = job[h]
    BY <1>1, <1>5 DEF Resolve, StoreError, Publish, Publishing, Done, ConsumerType
  <2>3. pc'[g] = "idle" \/ (pc'[g] = "publish" /\ job'[g] = job[g])
    BY <1>1, <1>5 DEF Resolve, StoreError, Publish, Publishing, Done, ConsumerType
  <2>4. QED
    BY <1>1, <2>1, <2>2, <2>3 DEF JobInv
<1>6. ASSUME NEW k \in Key, SignalChanges(k) \/ Message(k) \/ Evict(k) PROVE JobInv'
  BY <1>2, <1>6 DEF SignalChanges, Message, Evict, procVars
<1>7. ASSUME NEW i \in Id, Acknowledge(i) \/ ResolveByID(i) PROVE JobInv'
  BY <1>2, <1>7 DEF Acknowledge, ResolveByID, procVars
<1>8. ASSUME NEW q \in requests, PublishRequest(q) PROVE JobInv'
  BY <1>2, <1>8 DEF PublishRequest, procVars
<1>9. ASSUME Crash PROVE JobInv'
  BY <1>9 DEF Crash, JobInv
<1>10. CASE UNCHANGED vars
  BY <1>2, <1>10 DEF vars, procVars
<1>11. QED
  BY <1>3, <1>4, <1>5, <1>6, <1>7, <1>8, <1>9, <1>10 DEF Next, Consumer, Operator

-----------------------------------------------------------------------------
(* Events and cleared keys.                                                *)

(* Along Machine.Next an alert's rank only grows.                          *)
LEMMA RankGrows ==
  ASSUME IInv, [Next]_vars, NEW i \in Id
  PROVE  Rank(row[i].state) <= Rank(row'[i].state)
<1>1. RowStep(i)
  BY TableSteps
<1>2. QED
  BY <1>1 DEF RowStep, MachineNext, Rank

(* Ranks are numbers.                                                     *)
LEMMA RankNat ==
  \A s : Rank(s) \in 0..3
BY DEF Rank

(* Rows move on between the update and the publish, never back.           *)
LEMMA NextEvent ==
  IInv /\ [Next]_vars => EventInv'
<1> SUFFICES ASSUME IInv, [Next]_vars PROVE EventInv'
  OBVIOUS
<1>1. ConsumerType /\ TableType /\ EventInv /\ JobInv
  BY TypeParts DEF IInv
<1>2. \A i \in Id : \A r \in 0..3 : r <= Rank(row[i].state) => r <= Rank(row'[i].state)
  BY RankGrows, RankNat
<1>3. ASSUME NEW g \in Goroutine, pc'[g] = "publish" => pc[g] = "publish" /\ held'[g] = held[g]
      PROVE  HeldReached(g)'
  <2>1. HeldReached(g)
    BY <1>1 DEF EventInv
  <2>2. SUFFICES ASSUME pc'[g] = "publish"
                 PROVE  /\ held'[g].id \in Id
                        /\ held'[g].state \in State
                        /\ Rank(held'[g].state) <= Rank(row'[held'[g].id].state)
    BY DEF HeldReached
  <2>3. held'[g] = held[g] /\ held[g].id \in Id /\ held[g].state \in State
          /\ Rank(held[g].state) <= Rank(row[held[g].id].state)
    BY <1>3, <2>1, <2>2 DEF HeldReached
  <2>4. QED
    BY <1>2, <2>3, RankNat
<1>4. ASSUME requests' \subseteq requests PROVE RequestsReached'
  <2>1. \A q \in requests : q.id \in Id /\ Rank(q.state) <= Rank(row[q.id].state)
    BY <1>1 DEF EventInv, RequestsReached, TableType
  <2>2. QED
    BY <1>2, <1>4, <2>1, RankNat DEF RequestsReached
<1>5. ASSUME heard' = heard PROVE EventsTrailRows'
  BY <1>1, <1>2, <1>5, RankNat DEF EventInv, EventsTrailRows
<1>6. ASSUME NEW k \in Key, SignalChanges(k) \/ Message(k) \/ Evict(k) PROVE EventInv'
  BY <1>3, <1>4, <1>5, <1>6 DEF SignalChanges, Message, Evict, procVars, EventInv
<1>7. ASSUME NEW g \in Goroutine, NEW k \in Key, ApplyEvaluation(g, k) PROVE EventInv'
  <2>1. \A h \in Goroutine : pc'[h] = "publish" => pc[h] = "publish"
    BY <1>1, <1>7 DEF ApplyEvaluation, ConsumerType
  <2>2. QED
    BY <1>3, <1>4, <1>5, <1>7, <2>1 DEF ApplyEvaluation, EventInv
<1>8. ASSUME NEW g \in Goroutine, Open(g) \/ GetOpen(g) \/ Resolve(g) PROVE EventInv'
  <2>1. requests' = requests /\ heard' = heard
    BY <1>8 DEF Open, GetOpen, Resolve
  <2>2. \A h \in Goroutine \ {g} : pc'[h] = pc[h] /\ held'[h] = held[h]
    BY <1>1, <1>8 DEF Open, GetOpen, Resolve, Publishing, Done, ConsumerType
  <2>3. ASSUME NEW i \in Id, NEW s \in State, Publishing(g, i, s), row'[i].state = s
        PROVE  HeldReached(g)'
    <3>1. held'[g] = [id |-> i, state |-> s]
      BY <1>1, <2>3 DEF Publishing, ConsumerType
    <3>2. held'[g].id = i /\ held'[g].state = s /\ Rank(s) <= Rank(s)
      BY <3>1, RankNat
    <3>3. QED
      BY <2>3, <3>2 DEF HeldReached
  <2>4. ASSUME pc'[g] # "publish" PROVE HeldReached(g)'
    BY <2>4 DEF HeldReached
  <2>5. ASSUME Open(g) PROVE HeldReached(g)'
    <3>1. pc[g] = "open" /\ job[g] \in Key
      BY <1>1, <2>5, AlertsAssumption DEF Open, JobInv, KeysOf
    <3>2. ASSUME NEW i \in Id, InsertRow(job[g], i), Publishing(g, i, "firing")
          PROVE  HeldReached(g)'
      <4>1. RowType
        BY <1>1 DEF TableType, RowType
      <4>2. row'[i] = [key |-> job[g], state |-> "firing"]
        BY <3>1, <3>2, <4>1, InsertEffect
      <4>3. QED
        BY <2>3, <3>2, <4>2 DEF State
    <3>3. pc' = [pc EXCEPT ![g] = "getopen"] => pc'[g] # "publish"
      BY <1>1 DEF ConsumerType
    <3>4. QED
      BY <2>4, <2>5, <3>2, <3>3 DEF Open
  <2>6. ASSUME GetOpen(g) PROVE HeldReached(g)'
    <3>1. ASSUME NEW i \in OpenAlerts(job[g]), Publishing(g, i, row[i].state)
          PROVE  HeldReached(g)'
      <4>1. i \in Id /\ row[i].state \in State /\ row' = row
        BY <2>6, <3>1 DEF OpenAlerts, IsOpen, State, GetOpen
      <4>2. QED
        BY <2>3, <3>1, <4>1
    <3>2. Done(g) => pc'[g] # "publish"
      BY <1>1 DEF Done, ConsumerType
    <3>3. QED
      BY <2>4, <2>6, <3>1, <3>2 DEF GetOpen
  <2>7. ASSUME Resolve(g) PROVE HeldReached(g)'
    <3>1. pc[g] = "resolve" /\ job[g] \in Key /\ ResolveRows(job[g])
      BY <1>1, <2>7, AlertsAssumption DEF Resolve, JobInv, KeysOf
    <3>2. ASSUME NEW i \in OpenAlerts(job[g]), Publishing(g, i, "resolved")
          PROVE  HeldReached(g)'
      <4>1. RowType
        BY <1>1 DEF TableType, RowType
      <4>2. i \in Id /\ row'[i].state = "resolved"
        BY <3>1, <3>2, <4>1, ResolveEffect DEF OpenAlerts
      <4>3. QED
        BY <2>3, <3>2, <4>2 DEF State
    <3>3. Done(g) => pc'[g] # "publish"
      BY <1>1 DEF Done, ConsumerType
    <3>4. QED
      BY <2>4, <2>7, <3>2, <3>3 DEF Resolve
  <2>8. HeldReached(g)'
    BY <1>8, <2>5, <2>6, <2>7
  <2>9. \A h \in Goroutine : HeldReached(h)'
    BY <1>3, <2>2, <2>8
  <2>10. QED
    BY <1>4, <1>5, <2>1, <2>9 DEF EventInv
<1>9. ASSUME NEW g \in Goroutine, StoreError(g) PROVE EventInv'
  <2>1. \A h \in Goroutine : pc'[h] = "publish" => pc[h] = "publish" /\ held'[h] = held[h]
    BY <1>1, <1>9 DEF StoreError, Done, ConsumerType
  <2>2. QED
    BY <1>3, <1>4, <1>5, <1>9, <2>1 DEF StoreError, EventInv
<1>10. ASSUME NEW i \in Id, NEW s \in State, Rank(s) <= Rank(row[i].state), row' = row,
              heard' = heard \/ heard' = [heard EXCEPT ![i] = s]
       PROVE  EventsTrailRows'
  BY <1>1, <1>10 DEF EventInv, EventsTrailRows, TableType
<1>11. ASSUME NEW g \in Goroutine, Publish(g) PROVE EventInv'
  <2>1. \A h \in Goroutine : pc'[h] = "publish" => pc[h] = "publish" /\ held'[h] = held[h]
    BY <1>1, <1>11 DEF Publish, Done, ConsumerType
  <2>2. HeldReached(g) /\ pc[g] = "publish" /\ row' = row /\ requests' = requests
          /\ (heard' = heard \/ heard' = [heard EXCEPT ![held[g].id] = held[g].state])
    BY <1>1, <1>11 DEF Publish, EventInv
  <2>3. EventsTrailRows'
    BY <1>10, <2>2 DEF HeldReached
  <2>4. QED
    BY <1>3, <1>4, <2>1, <2>2, <2>3 DEF EventInv
<1>12. ASSUME NEW i \in Id, Acknowledge(i) \/ ResolveByID(i) PROVE EventInv'
  <2>1. PICK s \in {"acknowledged", "resolved"} :
          row' = [row EXCEPT ![i].state = s] /\ requests' = requests \union {[id |-> i, state |-> s]}
    BY <1>12 DEF Acknowledge, ResolveByID
  <2>2. row'[i].state = s
    BY <1>1, <2>1 DEF TableType
  <2>3. \A q \in requests : q.id \in Id /\ Rank(q.state) <= Rank(row[q.id].state)
    BY <1>1 DEF EventInv, RequestsReached, TableType
  <2>4. RequestsReached'
    BY <1>2, <2>1, <2>2, <2>3, RankNat DEF RequestsReached
  <2>5. pc' = pc /\ held' = held /\ heard' = heard
    BY <1>12 DEF Acknowledge, ResolveByID, procVars
  <2>6. QED
    BY <1>3, <1>5, <2>4, <2>5 DEF EventInv
<1>13. ASSUME NEW q \in requests, PublishRequest(q) PROVE EventInv'
  <2>1. /\ q.id \in Id /\ q.state \in State
        /\ Rank(q.state) <= Rank(row[q.id].state)
    BY <1>1 DEF TableType, EventInv, RequestsReached
  <2>2. /\ row' = row /\ pc' = pc /\ held' = held /\ requests' \subseteq requests
        /\ heard' = heard \/ heard' = [heard EXCEPT ![q.id] = q.state]
    BY <1>13 DEF PublishRequest, procVars
  <2>3. EventsTrailRows'
    BY <1>10, <2>1, <2>2
  <2>4. QED
    BY <1>3, <1>4, <2>2, <2>3 DEF EventInv
<1>14. CASE Crash
  BY <1>3, <1>4, <1>5, <1>14 DEF Crash, EventInv
<1>15. CASE UNCHANGED vars
  BY <1>3, <1>4, <1>5, <1>15 DEF vars, procVars, EventInv
<1>16. QED
  BY <1>6, <1>7, <1>8, <1>9, <1>11, <1>12, <1>13, <1>14, <1>15 DEF Next, Consumer, Operator

(* A row that was there before is open only if it was open before.         *)
LEMMA OpenShrinks ==
  ASSUME IInv, [Next]_vars, NEW k,
         \A i \in Id : row[i].state = "absent" => row'[i] = row[i] \/ row'[i].key # k,
         OpenAlerts(k) = {}
  PROVE  OpenAlerts(k)' = {}
<1>1. \A i \in Id : RowStep(i)
  BY TableSteps
<1>2. QED
  BY <1>1 DEF RowStep, OpenAlerts, IsOpen, MachineNext

(* Only the goroutine that owns a key opens alerts for it, when its       *)
(* evaluator says so.                                                     *)
LEMMA NextClear ==
  IInv /\ [Next]_vars => ClearInv'
<1> SUFFICES ASSUME IInv, [Next]_vars, crashes' = 0, faults' = 0,
                    NEW h \in Goroutine, NEW x \in KeysOf(h),
                    ~ev'[x].open, ~(pc'[h] = "resolve" /\ job'[h] = x)
             PROVE  OpenAlerts(x)' = {}
  BY DEF ClearInv, KeysOf
<1>1. ConsumerType /\ TableType /\ JobInv /\ ClearInv /\ x \in Key
  BY TypeParts, AlertsAssumption DEF IInv, KeysOf
<1>2. ASSUME crashes = 0, faults = 0, ~ev[x].open, ~(pc[h] = "resolve" /\ job[h] = x)
      PROVE  OpenAlerts(x) = {}
  BY <1>1, <1>2 DEF ClearInv
<1>3. ASSUME row' = row, OpenAlerts(x) = {} PROVE OpenAlerts(x)' = {}
  BY <1>3 DEF OpenAlerts, IsOpen
<1>4. ASSUME NEW k \in Key, SignalChanges(k) \/ Message(k) \/ Evict(k)
      PROVE  OpenAlerts(x)' = {}
  BY <1>2, <1>3, <1>4 DEF SignalChanges, Message, Evict, procVars, bounds
<1>5. ASSUME NEW g \in Goroutine, NEW k \in Key, ApplyEvaluation(g, k)
      PROVE  OpenAlerts(x)' = {}
  <2>1. /\ row' = row /\ crashes = 0 /\ faults = 0
        /\ k \in KeysOf(g) /\ pc[g] = "idle"
        /\ ev'[k].open = ev[k].open => pc' = pc /\ job' = job
        /\ ev'[k].open # ev[k].open =>
              /\ pc' = [pc EXCEPT ![g] = IF bad[k] THEN "open" ELSE "resolve"]
              /\ job' = [job EXCEPT ![g] = k]
    BY <1>5 DEF ApplyEvaluation, bounds
  <2>2. CASE x # k
    <3>1. ev'[x] = ev[x]
      BY <1>1, <1>5, <2>2 DEF ApplyEvaluation, ConsumerType
    <3>2. h # g => pc'[h] = pc[h] /\ job'[h] = job[h]
      BY <1>1, <2>1 DEF ConsumerType
    <3>3. QED
      BY <1>2, <1>3, <2>1, <3>1, <3>2
  <2>3. CASE x = k
    <3>1. h = g
      BY <2>1, <2>3 DEF KeysOf, Goroutine
    <3>2. /\ ev[k] \in [violations : 0..M, clears : 0..M, open : BOOLEAN]
          /\ bad[k] \in BOOLEAN
      BY <1>1 DEF ConsumerType
    <3>3. ev'[k] = Update(ev[k], bad[k])
      BY <1>1, <1>5 DEF ApplyEvaluation, ConsumerType
    <3>4. bad[k] /\ ev[k].open => Update(ev[k], bad[k]).open
      BY <3>2, UpdateType, Zenon
    <3>5. ASSUME ev[k].open PROVE FALSE
      <4>1. ~bad[k]
        BY <2>3, <3>2, <3>3, <3>4, <3>5
      <4>2. ev'[k].open # ev[k].open
        BY <2>3, <3>5
      <4>3. pc'[g] = "resolve" /\ job'[g] = k
        BY <1>1, <2>1, <4>1, <4>2 DEF ConsumerType
      <4>4. QED
        BY <2>3, <3>1, <4>3
    <3>6. QED
      BY <1>2, <1>3, <2>1, <2>3, <3>1, <3>5
  <2>4. QED
    BY <2>2, <2>3
<1>6. ASSUME NEW g \in Goroutine, Open(g) PROVE OpenAlerts(x)' = {}
  <2>1. ev' = ev /\ crashes = 0 /\ faults = 0 /\ pc[g] = "open"
    BY <1>6 DEF Open, bounds
  <2>2. x # job[g]
    BY <1>1, <2>1 DEF JobInv
  <2>3. h # g => pc'[h] = pc[h] /\ job'[h] = job[h]
    BY <1>1, <1>6 DEF Open, Publishing, ConsumerType
  <2>4. OpenAlerts(x) = {}
    BY <1>2, <2>1, <2>3
  <2>5. ASSUME NEW i \in Id, InsertRow(job[g], i) PROVE OpenAlerts(x)' = {}
    <3>1. RowType /\ job[g] \in Key
      BY <1>1, <2>1, AlertsAssumption DEF TableType, RowType, JobInv, KeysOf
    <3>2. /\ row'[i] = [key |-> job[g], state |-> "firing"]
          /\ \A j \in Id \ {i} : row'[j] = row[j]
      BY <2>5, <3>1, InsertEffect
    <3>3. row'[i].key # x
      BY <2>2, <3>2
    <3>4. QED
      BY <2>4, <3>2, <3>3, OpenShrinks
  <2>6. QED
    BY <1>3, <1>6, <2>4, <2>5 DEF Open
<1>7. ASSUME NEW g \in Goroutine, GetOpen(g) \/ Publish(g) PROVE OpenAlerts(x)' = {}
  <2>1. ev' = ev /\ row' = row /\ crashes = 0 /\ faults = 0 /\ pc[g] \in {"getopen", "publish"}
    BY <1>7 DEF GetOpen, Publish, bounds
  <2>2. h # g => pc'[h] = pc[h] /\ job'[h] = job[h]
    BY <1>1, <1>7 DEF GetOpen, Publish, Publishing, Done, ConsumerType
  <2>3. QED
    BY <1>2, <1>3, <2>1, <2>2
<1>8. ASSUME NEW g \in Goroutine, Resolve(g) PROVE OpenAlerts(x)' = {}
  <2>1. ev' = ev /\ crashes = 0 /\ faults = 0 /\ pc[g] = "resolve" /\ ResolveRows(job[g])
    BY <1>8 DEF Resolve, bounds
  <2>2. RowType /\ job[g] \in Key
    BY <1>1, <2>1, AlertsAssumption DEF TableType, RowType, JobInv, KeysOf
  <2>3. /\ \A j \in Id : row'[j].key = row[j].key
        /\ \A j \in OpenAlerts(job[g]) : row'[j].state = "resolved"
        /\ \A j \in Id \ OpenAlerts(job[g]) : row'[j] = row[j]
    BY <2>1, <2>2, ResolveEffect
  <2>4. CASE x = job[g]
    BY <2>3, <2>4 DEF OpenAlerts, IsOpen
  <2>5. CASE x # job[g]
    <3>1. h # g => pc'[h] = pc[h] /\ job'[h] = job[h]
      BY <1>1, <1>8 DEF Resolve, Publishing, Done, ConsumerType
    <3>2. OpenAlerts(x) = {}
      BY <1>2, <2>1, <2>5, <3>1
    <3>3. QED
      BY <2>3, <2>5, <3>2 DEF OpenAlerts, IsOpen
  <2>6. QED
    BY <2>4, <2>5
<1>9. ASSUME NEW g \in Goroutine, StoreError(g) PROVE OpenAlerts(x)' = {}
  BY <1>1, <1>9 DEF StoreError, ConsumerType
<1>10. ASSUME NEW i \in Id, Acknowledge(i) \/ ResolveByID(i) PROVE OpenAlerts(x)' = {}
  <2>1. /\ ev' = ev /\ pc' = pc /\ job' = job /\ crashes = 0 /\ faults = 0
        /\ \E s \in State : row' = [row EXCEPT ![i].state = s]
        /\ row[i].state # "absent"
    BY <1>10 DEF Acknowledge, ResolveByID, IsOpen, procVars, bounds, State
  <2>2. \A j \in Id : row[j].state = "absent" => row'[j] = row[j]
    BY <1>1, <2>1 DEF TableType
  <2>3. OpenAlerts(x) = {}
    BY <1>2, <2>1
  <2>4. QED
    BY <2>2, <2>3, OpenShrinks
<1>11. ASSUME NEW q \in requests, PublishRequest(q) PROVE OpenAlerts(x)' = {}
  BY <1>2, <1>3, <1>11 DEF PublishRequest, procVars, bounds
<1>12. CASE Crash
  BY <1>1, <1>12 DEF Crash, ConsumerType
<1>13. CASE UNCHANGED vars
  BY <1>2, <1>3, <1>13 DEF vars, procVars, bounds
<1>14. QED
  BY <1>4, <1>5, <1>6, <1>7, <1>8, <1>9, <1>10, <1>11, <1>12, <1>13 DEF Next, Consumer, Operator

-----------------------------------------------------------------------------
(* The invariant is inductive.                                            *)
LEMMA NextIInv ==
  IInv /\ [Next]_vars => IInv'
<1> SUFFICES ASSUME IInv, [Next]_vars PROVE IInv'
  OBVIOUS
<1>1. TypeOK'
  <2>1. ConsumerType' /\ TableType'
    BY NextConsumer, NextTable
  <2>2. QED
    BY <2>1 DEF TypeOK, ConsumerType, TableType
<1>2. QED
  BY <1>1, NextJob, NextEvent, NextClear, TableSteps DEF IInv

(* The invariant holds in every reachable state.                           *)
THEOREM Invariance ==
  Spec => []IInv
BY InitIInv, NextIInv, PTL DEF Spec

(* Every variable stays in its domain, whatever crashes and fails: an id   *)
(* that is published about is the id of a row.                             *)
THEOREM TypeCorrect ==
  Spec => []TypeOK
<1>1. IInv => TypeOK
  BY DEF IInv
<1>2. QED
  BY <1>1, Invariance, PTL

(* The partial unique index and Store.Open keep one open alert per key,    *)
(* for any number of restarts, failed calls and operator requests.         *)
THEOREM UniqueOpenAlert ==
  Spec => []OneOpenPerKey
<1>1. IInv => OneOpenPerKey
  BY DEF IInv
<1>2. QED
  BY <1>1, Invariance, PTL

(* The store's three UPDATE statements implement Machine.Next, which they  *)
(* never call.                                                             *)
THEOREM StoreFollowsMachine ==
  Spec => RowsFollowMachine
<1>1. IInv /\ [Next]_vars =>
        [\A i \in Id : row'[i] # row[i] =>
           \/ row[i].state = "absent" /\ row'[i].state = "firing"
           \/ row'[i].key = row[i].key /\ <<row[i].state, row'[i].state>> \in MachineNext]_vars
  BY TableSteps DEF RowStep
<1>2. QED
  BY <1>1, Invariance, PTL DEF Spec, RowsFollowMachine

(* The event stream never runs ahead of the table, although processor and  *)
(* operators publish concurrently, in any order and with losses.           *)
THEOREM EventsNeverLead ==
  Spec => []EventsTrailRows
<1>1. IInv => EventsTrailRows
  BY DEF IInv, EventInv
<1>2. QED
  BY <1>1, Invariance, PTL

(* Evaluator and table agree on cleared keys whatever operators do, as long*)
(* as the processor neither crashes nor loses a store call.                *)
THEOREM ClearLeavesNothingOpen ==
  Spec => []ClearedIsResolved
<1>1. IInv => ClearedIsResolved
  BY DEF IInv, ClearInv, ClearedIsResolved
<1>2. QED
  BY <1>1, Invariance, PTL

-----------------------------------------------------------------------------
(* Hysteresis.                                                             *)

(* s holds at most M verdicts, and its last n are all v.                   *)
EndsWith(s, n, v) ==
  /\ Len(s) <= M /\ n <= Len(s)
  /\ \A i \in 1..Len(s) : i > Len(s) - n => s[i] = v

(* The evaluator's counters count verdicts it has really seen in a row.    *)
CountersInv ==
  \A k \in Key :
    /\ EndsWith(recent[k], ev[k].violations, TRUE)
    /\ EndsWith(recent[k], ev[k].clears, FALSE)

HistoryInv == CountersInv /\ NoFlapping

(* One more verdict makes one more at the end, up to M.                    *)
LEMMA RememberEnds ==
  ASSUME NEW s \in Seq(BOOLEAN), NEW v \in BOOLEAN, NEW n \in 0..M, EndsWith(s, n, v)
  PROVE  /\ EndsWith(Remember(s, v), Count(n), v)
         /\ \A w \in BOOLEAN : EndsWith(Remember(s, v), 0, w)
<1> DEFINE t == Append(s, v)
<1>1. /\ t \in Seq(BOOLEAN) /\ t # <<>> /\ Len(t) = Len(s) + 1
      /\ \A i \in 1..Len(s) : t[i] = s[i]
      /\ t[Len(s) + 1] = v
  BY AppendProperties
<1>2. Len(s) \in Nat /\ Len(s) <= M /\ n <= Len(s) /\ M \in Nat \ {0}
  BY LenProperties, AlertsAssumption DEF EndsWith
<1>3. \A i \in 1..Len(t) : i > Len(s) - n => t[i] = v
  <2>1. SUFFICES ASSUME NEW i \in 1..Len(t), i > Len(s) - n PROVE t[i] = v
    OBVIOUS
  <2>2. CASE i = Len(s) + 1
    BY <1>1, <2>2
  <2>3. CASE i # Len(s) + 1
    <3>1. i \in 1..Len(s)
      BY <1>1, <1>2, <2>3
    <3>2. QED
      BY <1>1, <2>1, <3>1 DEF EndsWith
  <2>4. QED
    BY <2>2, <2>3
<1>4. /\ Tail(t) \in Seq(BOOLEAN) /\ Len(Tail(t)) = Len(s)
      /\ \A i \in 1..Len(s) : Tail(t)[i] = t[i + 1]
  <2>1. Tail(t) \in Seq(BOOLEAN) /\ Len(Tail(t)) = Len(t) - 1
          /\ \A i \in 1..Len(Tail(t)) : Tail(t)[i] = t[i + 1]
    BY <1>1, HeadTailProperties
  <2> HIDE DEF t
  <2>2. Len(Tail(t)) = Len(s)
    BY <1>1, <1>2, <2>1
  <2>3. QED
    BY <2>1, <2>2
<1> HIDE DEF t
<1>5. CASE Len(t) > M
  <2>1. Remember(s, v) = Tail(t) /\ Len(s) = M
    BY <1>1, <1>2, <1>5 DEF Remember, t
  <2>2. \A i \in 1..M : i > M - Count(n) => Tail(t)[i] = v
    BY <1>1, <1>2, <1>3, <1>4, <2>1 DEF Count
  <2>3. QED
    BY <1>2, <1>4, <2>1, <2>2 DEF EndsWith, Count
<1>6. CASE ~(Len(t) > M)
  <2>1. Remember(s, v) = t /\ Count(n) = n + 1
    BY <1>1, <1>2, <1>6 DEF Remember, Count, t
  <2>2. QED
    BY <1>1, <1>2, <1>3, <1>6, <2>1 DEF EndsWith
<1>7. QED
  BY <1>5, <1>6

(* M verdicts in a row are the whole history.                              *)
LEMMA EndsWithAll ==
  ASSUME NEW s \in Seq(BOOLEAN), NEW v \in BOOLEAN, EndsWith(s, M, v)
  PROVE  s = [n \in 1..M |-> v]
<1>1. Len(s) \in Nat /\ M \in Nat /\ Len(s) = M /\ s \in [1..Len(s) -> BOOLEAN]
  BY LenProperties, AlertsAssumption DEF EndsWith
<1>2. \A i \in 1..M : s[i] = v
  BY <1>1 DEF EndsWith
<1>3. QED
  BY <1>1, <1>2

(* Counters and history move together; an edge is taken on a full counter. *)
LEMMA NextHistory ==
  IInv /\ HistoryInv /\ [Next]_vars => HistoryInv'
<1> SUFFICES ASSUME IInv, HistoryInv, [Next]_vars PROVE HistoryInv'
  OBVIOUS
<1>1. ConsumerType /\ JobInv /\ CountersInv /\ NoFlapping
  BY TypeParts DEF IInv, HistoryInv
<1>2. ASSUME ev' = ev, recent' = recent,
             \A h \in Goroutine : pc'[h] \in {"open", "resolve"} => pc'[h] = pc[h] /\ job'[h] = job[h]
      PROVE  HistoryInv'
  BY <1>1, <1>2 DEF HistoryInv, CountersInv, NoFlapping
<1>3. ASSUME NEW k \in Key, SignalChanges(k) \/ Message(k) \/ Evict(k) PROVE HistoryInv'
  BY <1>2, <1>3 DEF SignalChanges, Message, Evict, procVars
<1>4. ASSUME NEW g \in Goroutine, NEW k \in Key, ApplyEvaluation(g, k) PROVE HistoryInv'
  <2>1. /\ ev'[k] = Update(ev[k], bad[k]) /\ recent'[k] = Remember(recent[k], bad[k])
        /\ \A x \in Key \ {k} : ev'[x] = ev[x] /\ recent'[x] = recent[x]
    BY <1>1, <1>4 DEF ApplyEvaluation, ConsumerType
  <2>2. /\ ev[k] \in [violations : 0..M, clears : 0..M, open : BOOLEAN]
        /\ bad[k] \in BOOLEAN /\ recent[k] \in Seq(BOOLEAN)
    BY <1>1 DEF ConsumerType
  <2>3. EndsWith(recent[k], ev[k].violations, TRUE) /\ EndsWith(recent[k], ev[k].clears, FALSE)
    BY <1>1 DEF CountersInv
  <2>4. /\ EndsWith(recent'[k], ev'[k].violations, TRUE)
        /\ EndsWith(recent'[k], ev'[k].clears, FALSE)
    <3>1. CASE bad[k] = TRUE
      <4>1. ev'[k].violations = Count(ev[k].violations) /\ ev'[k].clears = 0
        BY <2>1, <3>1 DEF Update
      <4>2. QED
        BY <2>1, <2>2, <2>3, <3>1, <4>1, RememberEnds
    <3>2. CASE bad[k] = FALSE
      <4>1. ev'[k].violations = 0 /\ ev'[k].clears = Count(ev[k].clears)
        BY <2>1, <3>2 DEF Update
      <4>2. QED
        BY <2>1, <2>2, <2>3, <3>2, <4>1, RememberEnds
    <3>3. QED
      BY <2>2, <3>1, <3>2
  <2>5. CountersInv'
    BY <1>1, <2>1, <2>4 DEF CountersInv
  <2>6. ASSUME NEW h \in Goroutine, h # g \/ ev'[k].open = ev[k].open
        PROVE  /\ pc'[h] = "open" => recent'[job'[h]] = [n \in 1..M |-> TRUE]
               /\ pc'[h] = "resolve" => recent'[job'[h]] = [n \in 1..M |-> FALSE]
    <3>1. pc'[h] = pc[h] /\ job'[h] = job[h]
      BY <1>1, <1>4, <2>6 DEF ApplyEvaluation, ConsumerType
    <3>2. ASSUME pc[h] \in {"open", "resolve"} PROVE job[h] \in Key \ {k}
      BY <1>1, <1>4, <3>2, AlertsAssumption DEF ApplyEvaluation, JobInv, KeysOf, Goroutine
    <3>3. QED
      BY <1>1, <2>1, <3>1, <3>2 DEF NoFlapping
  <2>7. ASSUME ev'[k].open # ev[k].open
        PROVE  /\ pc'[g] = "open" => recent'[job'[g]] = [n \in 1..M |-> TRUE]
               /\ pc'[g] = "resolve" => recent'[job'[g]] = [n \in 1..M |-> FALSE]
    <3>1. pc'[g] = (IF bad[k] THEN "open" ELSE "resolve") /\ job'[g] = k
      BY <1>1, <1>4, <2>7 DEF ApplyEvaluation, ConsumerType
    <3>2. recent'[k] \in Seq(BOOLEAN)
      BY <2>1, <2>2, RememberType
    <3>3. CASE bad[k] = TRUE
      <4>1. Count(ev[k].violations) = M
        BY <2>1, <2>2, <2>7, <3>3, AlertsAssumption DEF Update, Count
      <4>2. ev'[k].violations = M
        BY <2>1, <3>3, <4>1 DEF Update
      <4>3. recent'[k] = [n \in 1..M |-> TRUE]
        BY <2>4, <3>2, <4>2, EndsWithAll
      <4>4. QED
        BY <3>1, <3>3, <4>3
    <3>4. CASE bad[k] = FALSE
      <4>1. Count(ev[k].clears) = M
        BY <2>1, <2>2, <2>7, <3>4, AlertsAssumption DEF Update, Count
      <4>2. ev'[k].clears = M
        BY <2>1, <3>4, <4>1 DEF Update
      <4>3. recent'[k] = [n \in 1..M |-> FALSE]
        BY <2>4, <3>2, <4>2, EndsWithAll
      <4>4. QED
        BY <3>1, <3>4, <4>3
    <3>5. QED
      BY <2>2, <3>3, <3>4
  <2>8. NoFlapping'
    BY <2>6, <2>7 DEF NoFlapping
  <2>9. QED
    BY <2>5, <2>8 DEF HistoryInv
<1>5. ASSUME NEW g \in Goroutine,
             Open(g) \/ GetOpen(g) \/ Resolve(g) \/ StoreError(g) \/ Publish(g)
      PROVE  HistoryInv'
  <2>1. ev' = ev /\ recent' = recent
    BY <1>5 DEF Open, GetOpen, Resolve, StoreError, Publish
  <2>2. \A h \in Goroutine \ {g} : pc'[h] = pc[h] /\ job'[h] = job[h]
    BY <1>1, <1>5 DEF Open, GetOpen, Resolve, StoreError, Publish, Publishing, Done, ConsumerType
  <2>3. pc'[g] \in {"idle", "getopen", "publish"}
    BY <1>1, <1>5 DEF Open, GetOpen, Resolve, StoreError, Publish, Publishing, Done, ConsumerType
  <2>4. QED
    BY <1>2, <2>1, <2>2, <2>3
<1>6. ASSUME NEW i \in Id, Acknowledge(i) \/ ResolveByID(i) PROVE HistoryInv'
  BY <1>2, <1>6 DEF Acknowledge, ResolveByID, procVars
<1>7. ASSUME NEW q \in requests, PublishRequest(q) PROVE HistoryInv'
  BY <1>2, <1>7 DEF PublishRequest, procVars
<1>8. CASE Crash
  <2>1. \A k \in Key : recent'[k] = <<>> /\ ev'[k] = Fresh
    BY <1>8 DEF Crash
  <2>2. QED
    BY <1>8, <2>1, AlertsAssumption DEF Crash, Fresh, HistoryInv, CountersInv, NoFlapping, EndsWith
<1>9. CASE UNCHANGED vars
  BY <1>2, <1>9 DEF vars, procVars
<1>10. QED
  BY <1>3, <1>4, <1>5, <1>6, <1>7, <1>8, <1>9 DEF Next, Consumer, Operator

(* Evaluator.Update's hysteresis for every M: no alert is opened, and none *)
(* resolved by the processor, on fewer than M verdicts in a row since the  *)
(* processor started, however samples, sweeps and restarts interleave.     *)
THEOREM Hysteresis ==
  Spec => []NoFlapping
<1>1. Init => HistoryInv
  BY AlertsAssumption DEF Init, Fresh, HistoryInv, CountersInv, NoFlapping, EndsWith
<1>2. HistoryInv => NoFlapping
  BY DEF HistoryInv
<1>3. QED
  BY <1>1, <1>2, NextHistory, Invariance, PTL DEF Spec
=============================================================================
