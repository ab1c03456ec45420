--------------------------- MODULE RolloutProofs ---------------------------
(* Proofs about Rollout, for every value of its constants: any devices,    *)
(* rollouts, stages and criteria, any set of failing calls, any number of  *)
(* crashes and PUT requests.                                               *)
EXTENDS Rollout, TLAPS

-----------------------------------------------------------------------------
(* The inductive invariant.                                                *)

(* The operation that holds the mutex has a rollout, its device iterations *)
(* a device, and a rollback visits recorded targets.                       *)
OperationInv ==
  /\ pc # "idle" => cur \in Rollouts
  /\ pc \in {"set", "record", "publish", "revertpub"} => dev \in Device
  /\ pc \in {"rollback", "revertpub"} => \A d \in todo : targets[cur][d] # None

(* Whatever the engine holds in memory or works on has a live row.         *)
ActiveIsLive ==
  /\ \A r \in Rollouts : mem[r].state \in Live => rows[r].state \in Live
  /\ pc # "idle" => rows[cur].state \in Live

(* The stage in memory is never behind the row: a failed write leaves the  *)
(* row behind, never ahead.  A rollout being created is at stage 0.        *)
StageAhead ==
  /\ \A r \in Rollouts : mem[r].state \in Live => mem[r].stage >= rows[r].stage
  /\ \A r \in Rollouts : rows[r].state = "none" => rows[r].stage = 0
  /\ pc # "idle" /\ mem[cur].state = "none" => rows[cur].stage = 0

IInv ==
  /\ TypeOK
  /\ OperationInv
  /\ ActiveIsLive
  /\ StageAhead

-----------------------------------------------------------------------------
(* TypeOK by parts: the shadow, the tables, the engine.                    *)
ShadowType ==
  /\ kv \in [Device -> [cfg : Config, rev : Nat, by : Writer]]
  /\ seq \in Nat
  /\ retained \in [Device -> Nat]
  /\ puts \subseteq [dev : Device, rev : Nat]
  /\ nputs \in Nat

StoreType ==
  /\ rows \in [Rollouts -> [state : {"none"} \union Live \union Terminal, stage : Nat]]
  /\ targets \in [Rollouts -> [Device -> Target \union {None}]]
  /\ ended \subseteq Rollouts

EngineType ==
  /\ up \in BOOLEAN
  /\ pub \in BOOLEAN
  /\ mem \in [Rollouts -> [state : {"none"} \union Live, stage : Nat]]
  /\ pc \in {"idle", "apply", "loop", "set", "record", "publish", "rollback", "revertpub"}
  /\ cur \in Rollouts \union {None}
  /\ todo \subseteq Device
  /\ dev \in Device \union {None}
  /\ pre \in [cfg : Config, by : Writer]
  /\ rev \in Nat
  /\ crashes \in Nat
  /\ env \in Scenario

(* TypeOK is its parts.                                                   *)
LEMMA TypeParts ==
  TypeOK <=> ShadowType /\ StoreType /\ EngineType
BY DEF TypeOK, ShadowType, StoreType, EngineType

(* What UpdateState may do to the rows, whether it succeeds or fails.      *)
LEMMA UpdateStateEffect ==
  ASSUME StoreType, NEW r \in Rollouts, NEW s \in Live \union Terminal, UpdateState(r, s)
  PROVE  /\ rows' \in [Rollouts -> [state : {"none"} \union Live \union Terminal, stage : Nat]]
         /\ \A x \in Rollouts : rows'[x].stage = rows[x].stage
         /\ \A x \in Rollouts \ {r} : rows'[x] = rows[x]
         /\ rows'[r].state \in {s, rows[r].state}
<1>1. CASE rows' = rows
  BY <1>1 DEF StoreType
<1>2. CASE rows' = [rows EXCEPT ![r].state = s]
  BY <1>2 DEF StoreType
<1>3. QED
  BY <1>1, <1>2 DEF UpdateState

(* What Pause and Resume do to the active set.                             *)
LEMMA MemStateEffect ==
  ASSUME EngineType, NEW r \in Rollouts, NEW s \in Live, mem' = [mem EXCEPT ![r].state = s]
  PROVE  /\ mem' \in [Rollouts -> [state : {"none"} \union Live, stage : Nat]]
         /\ mem'[r] = [state |-> s, stage |-> mem[r].stage]
         /\ \A x \in Rollouts \ {r} : mem'[x] = mem[x]
BY DEF EngineType

(* What advanceLocked does to the active set and to the row.               *)
LEMMA AdvanceEffect ==
  ASSUME StoreType, EngineType, NEW r \in Rollouts, TickAdvance(r)
  PROVE  /\ mem' \in [Rollouts -> [state : {"none"} \union Live, stage : Nat]]
         /\ mem'[r] = [state |-> "running", stage |-> mem[r].stage + 1]
         /\ \A x \in Rollouts \ {r} : mem'[x] = mem[x] /\ rows'[x] = rows[x]
         /\ rows' \in [Rollouts -> [state : {"none"} \union Live \union Terminal, stage : Nat]]
         /\ rows'[r].state = rows[r].state
         /\ rows'[r].stage \in {rows[r].stage, mem[r].stage + 1}
<1>1. mem' = [mem EXCEPT ![r].stage = mem[r].stage + 1] /\ mem[r].state = "running"
  BY DEF TickAdvance, AdvanceStage
<1>2. mem[r] \in [state : {"none"} \union Live, stage : Nat]
  BY DEF EngineType
<1>3. CASE rows' = rows
  BY <1>1, <1>2, <1>3 DEF StoreType, EngineType
<1>4. CASE rows' = [rows EXCEPT ![r].stage = mem[r].stage + 1]
  BY <1>1, <1>2, <1>4 DEF StoreType, EngineType
<1>5. QED
  BY <1>3, <1>4 DEF TickAdvance, AdvanceStage

-----------------------------------------------------------------------------
(* The invariant holds before the first rollout.                          *)
LEMMA InitIInv ==
  Init => IInv
<1> SUFFICES ASSUME Init PROVE IInv
  OBVIOUS
<1> USE RolloutAssumption DEF Init, Inactive, Live, Config, Writer, NoSnapshot
<1>1. ShadowType
  BY DEF ShadowType
<1>2. StoreType
  BY DEF StoreType
<1>3. EngineType
  <2>1. pub \in BOOLEAN
    BY Zenon
  <2>2. mem \in [Rollouts -> [state : {"none"} \union Live, stage : Nat]]
    OBVIOUS
  <2>3. pre \in [cfg : Config, by : Writer]
    OBVIOUS
  <2>4. QED
    BY <2>1, <2>2, <2>3 DEF EngineType
<1>4. OperationInv /\ ActiveIsLive /\ StageAhead
  BY DEF OperationInv, ActiveIsLive, StageAhead
<1>5. QED
  BY <1>1, <1>2, <1>3, <1>4, TypeParts DEF IInv

(* Only the KV puts, the MQTT publishes and the PUT handlers touch the     *)
(* shadow.                                                                 *)
LEMMA NextShadow ==
  IInv /\ [Next]_vars => ShadowType'
<1> SUFFICES ASSUME IInv, [Next]_vars PROVE ShadowType'
  OBVIOUS
<1>1. ShadowType /\ StoreType /\ EngineType /\ OperationInv /\ ActiveIsLive /\ StageAhead
  BY TypeParts DEF IInv
<1>2. ASSUME Push PROVE ShadowType'
  BY <1>1, <1>2
     DEF Push, PutDesired, Continue, ShadowType, OperationInv, Config, Writer,
         shadowVars, putVars, storeVars, procVars, opVars
<1>3. ASSUME PushPublish PROVE ShadowType'
  BY <1>1, <1>3
     DEF PushPublish, PublishDesired, Continue, ShadowType, EngineType,
         shadowVars, putVars, storeVars, procVars, opVars
<1>4. ASSUME RevertPublish PROVE ShadowType'
  BY <1>1, <1>4
     DEF RevertPublish, PublishDesired, Continue, ShadowType, EngineType,
         shadowVars, putVars, storeVars, procVars, opVars
<1>5. ASSUME Crash PROVE ShadowType'
  BY <1>1, <1>5
     DEF Crash, Release, ShadowType,
         shadowVars, putVars, storeVars, procVars, opVars
<1>6. ASSUME NEW d \in Device, Revert(d) PROVE ShadowType'
  <2>1. CASE kv' = kv /\ seq' = seq
    BY <1>1, <1>6, <2>1 DEF Revert, ShadowType, putVars
  <2>2. CASE PutDesired(d, targets[cur][d].pre, cur)
    <3>1. targets[cur][d].pre \in Config /\ cur \in Writer
      BY <1>1, <1>6 DEF Revert, StoreType, OperationInv, Target, Writer
    <3>2. QED
      BY <1>1, <1>6, <2>2, <3>1 DEF Revert, PutDesired, ShadowType, putVars
  <2>3. QED
    BY <1>6, <2>1, <2>2 DEF Revert
<1>7. ASSUME NEW d \in Device, PutRequest(d) PROVE ShadowType'
  <2>1. seq' \in Nat /\ nputs' \in Nat
    BY <1>1, <1>7, RolloutAssumption DEF PutRequest, PutDesired, ShadowType
  <2>2. kv' \in [Device -> [cfg : Config, rev : Nat, by : Writer]]
    BY <1>1, <1>7 DEF PutRequest, PutDesired, ShadowType, Config, Writer
  <2>3. puts' \subseteq [dev : Device, rev : Nat] /\ retained' = retained
    BY <1>1, <1>7 DEF PutRequest, ShadowType
  <2>4. QED
    BY <1>1, <2>1, <2>2, <2>3 DEF ShadowType
<1>8. ASSUME NEW q \in puts, PutPublish(q) PROVE ShadowType'
  BY <1>1, <1>8
     DEF PutPublish, PublishDesired, ShadowType,
         shadowVars, putVars, storeVars, procVars, opVars
<1>9. ASSUME NEW r \in Rollouts,
             Create(r) \/ CreateError(r) \/ Pause(r) \/ Resume(r) \/ Abort(r) \/ TickRollback(r) \/ TickComplete(r) \/ TickAdvance(r)
      PROVE  ShadowType'
  BY <1>1, <1>9
     DEF Create, CreateError, Pause, Resume, Abort, TickRollback, TickComplete, TickAdvance,
         AdvanceStage, vars, ShadowType,
         shadowVars, putVars, storeVars, procVars, opVars
<1>10. ASSUME ApplyStage \/ RecordTarget \/ StageApplied \/ RolledBack \/ ResumeAll \/ UNCHANGED vars
      PROVE  ShadowType'
  BY <1>1, <1>10
     DEF ApplyStage, RecordTarget, StageApplied, RolledBack, ResumeAll, vars, ShadowType,
         shadowVars, putVars, storeVars, procVars, opVars
<1>11. ASSUME NEW d \in Device,
             Snapshot(d)
      PROVE  ShadowType'
  BY <1>1, <1>11
     DEF Snapshot, vars, ShadowType,
         shadowVars, putVars, storeVars, procVars, opVars
<1>12. QED
  BY <1>2, <1>3, <1>4, <1>5, <1>6, <1>7, <1>8, <1>9, <1>10, <1>11 DEF Next, Operator, Tick, Step

(* The tables stay well typed.                                             *)
LEMMA NextStore ==
  IInv /\ [Next]_vars => StoreType'
<1> SUFFICES ASSUME IInv, [Next]_vars PROVE StoreType'
  OBVIOUS
<1>1. ShadowType /\ StoreType /\ EngineType /\ OperationInv /\ ActiveIsLive /\ StageAhead
  BY TypeParts DEF IInv
<1>2. ASSUME NEW r \in Rollouts, Create(r) PROVE StoreType'
  BY <1>1, <1>2
     DEF Create, Begin, StoreType, Live,
         shadowVars, putVars, storeVars, procVars, opVars
<1>3. ASSUME NEW r \in Rollouts, CreateError(r) PROVE StoreType'
  BY <1>1, <1>3
     DEF CreateError, StoreType, Live,
         shadowVars, putVars, storeVars, procVars, opVars
<1>4. ASSUME NEW r \in Rollouts, Pause(r) PROVE StoreType'
  BY <1>1, <1>4
     DEF Pause, UpdateState, StoreType, Live,
         shadowVars, putVars, storeVars, procVars, opVars
<1>5. ASSUME NEW r \in Rollouts, Resume(r) PROVE StoreType'
  BY <1>1, <1>5
     DEF Resume, UpdateState, StoreType, Live,
         shadowVars, putVars, storeVars, procVars, opVars
<1>6. ASSUME NEW r \in Rollouts, TickComplete(r) PROVE StoreType'
  BY <1>1, <1>6
     DEF TickComplete, UpdateState, StoreType, Terminal,
         shadowVars, putVars, storeVars, procVars, opVars
<1>7. ASSUME NEW r \in Rollouts, TickAdvance(r) PROVE StoreType'
  BY <1>1, <1>7, AdvanceEffect DEF TickAdvance, AdvanceStage, StoreType
<1>8. ASSUME RecordTarget PROVE StoreType'
  <2>1. cur \in Rollouts /\ dev \in Device
    BY <1>1, <1>8 DEF RecordTarget, OperationInv
  <2>2. [pre |-> pre.cfg, by |-> pre.by, stage |-> mem[cur].stage] \in Target
    BY <1>1, <2>1 DEF EngineType, Target
  <2>3. targets' \in [Rollouts -> [Device -> Target \union {None}]]
    <3>1. CASE targets' = targets
      BY <1>1, <3>1 DEF StoreType
    <3>2. CASE targets' # targets
      <4> DEFINE t == [pre |-> pre.cfg, by |-> pre.by, stage |-> mem[cur].stage]
                 v == IF targets[cur][dev] = None THEN t ELSE targets[cur][dev]
      <4>1. targets' = [targets EXCEPT ![cur] = [targets[cur] EXCEPT ![dev] = v]]
        BY <1>8, <3>2 DEF RecordTarget
      <4>2. v \in Target \union {None}
        BY <1>1, <2>1, <2>2 DEF StoreType
      <4>3. [targets[cur] EXCEPT ![dev] = v] \in [Device -> Target \union {None}]
        BY <1>1, <2>1, <4>2 DEF StoreType
      <4>4. QED
        BY <1>1, <4>1, <4>3 DEF StoreType
    <3>3. QED
      BY <3>1, <3>2
  <2>4. QED
    BY <1>1, <1>8, <2>3 DEF RecordTarget, StoreType
<1>9. ASSUME RolledBack PROVE StoreType'
  BY <1>1, <1>9
     DEF RolledBack, UpdateState, Release, StoreType, Terminal, OperationInv,
         shadowVars, putVars, storeVars, procVars, opVars
<1>10. ASSUME NEW r \in Rollouts,
             Abort(r) \/ TickRollback(r)
      PROVE  StoreType'
  BY <1>1, <1>10
     DEF Abort, TickRollback, vars, StoreType,
         shadowVars, putVars, storeVars, procVars, opVars
<1>11. ASSUME ApplyStage \/ Push \/ PushPublish \/ StageApplied \/ RevertPublish \/ Crash \/ ResumeAll \/ UNCHANGED vars
      PROVE  StoreType'
  BY <1>1, <1>11
     DEF ApplyStage, Push, PushPublish, StageApplied, RevertPublish, Crash, ResumeAll, vars,
         StoreType,
         shadowVars, putVars, storeVars, procVars, opVars
<1>12. ASSUME NEW d \in Device,
             Snapshot(d) \/ Revert(d) \/ PutRequest(d)
      PROVE  StoreType'
  BY <1>1, <1>12
     DEF Snapshot, Revert, PutRequest, vars, StoreType,
         shadowVars, putVars, storeVars, procVars, opVars
<1>13. ASSUME NEW q \in puts,
             PutPublish(q)
      PROVE  StoreType'
  BY <1>1, <1>13
     DEF PutPublish, vars, StoreType,
         shadowVars, putVars, storeVars, procVars, opVars
<1>14. QED
  BY <1>2, <1>3, <1>4, <1>5, <1>6, <1>7, <1>8, <1>9, <1>10, <1>11, <1>12, <1>13 DEF Next,
       Operator, Tick, Step

(* The engine's memory and the operation it runs stay well formed.         *)
LEMMA NextEngine ==
  IInv /\ [Next]_vars => (EngineType /\ OperationInv)'
<1> SUFFICES ASSUME IInv, [Next]_vars PROVE (EngineType /\ OperationInv)'
  OBVIOUS
<1>1. ShadowType /\ StoreType /\ EngineType /\ OperationInv /\ ActiveIsLive /\ StageAhead
  BY TypeParts DEF IInv
<1>2. ASSUME NEW r \in Rollouts, Create(r) PROVE (EngineType /\ OperationInv)'
  BY <1>1, <1>2, RolloutAssumption
     DEF Create, Begin, EngineType, OperationInv,
         shadowVars, putVars, storeVars, procVars, opVars
<1>3. ASSUME NEW r \in Rollouts, Pause(r) PROVE (EngineType /\ OperationInv)'
  BY <1>1, <1>3, MemStateEffect DEF Pause, EngineType, OperationInv, Live, opVars,
       shadowVars, storeVars
<1>4. ASSUME NEW r \in Rollouts, Resume(r) PROVE (EngineType /\ OperationInv)'
  BY <1>1, <1>4, MemStateEffect DEF Resume, EngineType, OperationInv, Live, opVars,
       shadowVars, storeVars
<1>5. ASSUME NEW r \in Rollouts, Abort(r) PROVE (EngineType /\ OperationInv)'
  BY <1>1, <1>5, RolloutAssumption
     DEF Abort, BeginRollback, Begin, Recorded, EngineType, OperationInv,
         shadowVars, putVars, storeVars, procVars, opVars
<1>6. ASSUME NEW r \in Rollouts, TickRollback(r) PROVE (EngineType /\ OperationInv)'
  BY <1>1, <1>6, RolloutAssumption
     DEF TickRollback, BeginRollback, Begin, Recorded, EngineType, OperationInv,
         shadowVars, putVars, storeVars, procVars, opVars
<1>7. ASSUME NEW r \in Rollouts, TickComplete(r) PROVE (EngineType /\ OperationInv)'
  BY <1>1, <1>7, RolloutAssumption
     DEF TickComplete, UpdateState, EngineType, OperationInv, Inactive,
         shadowVars, putVars, storeVars, procVars, opVars
<1>8. ASSUME NEW r \in Rollouts, TickAdvance(r) PROVE (EngineType /\ OperationInv)'
  BY <1>1, <1>8, AdvanceEffect DEF TickAdvance, AdvanceStage, Begin, EngineType, OperationInv,
      storeVars
<1>9. ASSUME ApplyStage PROVE (EngineType /\ OperationInv)'
  BY <1>1, <1>9, RolloutAssumption
     DEF ApplyStage, StageTargets, EngineType, OperationInv,
         shadowVars, putVars, storeVars, procVars, opVars
<1>10. ASSUME Push PROVE (EngineType /\ OperationInv)'
  BY <1>1, <1>10, RolloutAssumption
     DEF Push, PutDesired, Continue, EngineType, OperationInv, NoSnapshot, Config, Writer,
         ShadowType,
         shadowVars, putVars, storeVars, procVars, opVars
<1>11. ASSUME RecordTarget PROVE (EngineType /\ OperationInv)'
  BY <1>1, <1>11, RolloutAssumption
     DEF RecordTarget, EngineType, OperationInv,
         shadowVars, putVars, storeVars, procVars, opVars
<1>12. ASSUME PushPublish PROVE (EngineType /\ OperationInv)'
  BY <1>1, <1>12, RolloutAssumption
     DEF PushPublish, PublishDesired, Continue, EngineType, OperationInv, NoSnapshot, Config,
         Writer,
         shadowVars, putVars, storeVars, procVars, opVars
<1>13. ASSUME StageApplied PROVE (EngineType /\ OperationInv)'
  BY <1>1, <1>13, RolloutAssumption
     DEF StageApplied, Release, EngineType, OperationInv, NoSnapshot, Live, Config, Writer,
         shadowVars, putVars, storeVars, procVars, opVars
<1>14. ASSUME RevertPublish PROVE (EngineType /\ OperationInv)'
  BY <1>1, <1>14, RolloutAssumption
     DEF RevertPublish, PublishDesired, Continue, EngineType, OperationInv, NoSnapshot, Config,
         Writer,
         shadowVars, putVars, storeVars, procVars, opVars
<1>15. ASSUME RolledBack PROVE (EngineType /\ OperationInv)'
  BY <1>1, <1>15, RolloutAssumption
     DEF RolledBack, UpdateState, Release, EngineType, OperationInv, NoSnapshot, Inactive,
         Config, Writer,
         shadowVars, putVars, storeVars, procVars, opVars
<1>16. ASSUME Crash PROVE (EngineType /\ OperationInv)'
  <2>1. crashes' \in Nat /\ mem' \in [Rollouts -> [state : {"none"} \union Live, stage : Nat]]
    BY <1>1, <1>16, RolloutAssumption DEF Crash, EngineType, Inactive
  <2>2. pre' \in [cfg : Config, by : Writer]
    BY <1>16 DEF Crash, Release, NoSnapshot, Config, Writer
  <2>3. QED
    BY <1>1, <1>16, <2>1, <2>2 DEF Crash, Release, EngineType, OperationInv
<1>17. ASSUME ResumeAll PROVE (EngineType /\ OperationInv)'
  <2>1. mem' \in [Rollouts -> [state : {"none"} \union Live, stage : Nat]]
    <3>1. \A r \in Rollouts : rows[r].state \in Live =>
             rows[r] \in [state : {"none"} \union Live, stage : Nat]
      BY <1>1 DEF StoreType
    <3>2. QED
      BY <1>1, <1>17, <3>1 DEF ResumeAll, EngineType, Inactive
  <2>2. up' \in BOOLEAN /\ pub' \in BOOLEAN
    BY <1>17 DEF ResumeAll
  <2>3. QED
    BY <1>1, <1>17, <2>1, <2>2 DEF ResumeAll, EngineType, OperationInv, opVars, storeVars
<1>18. ASSUME NEW d \in Device, Snapshot(d) PROVE (EngineType /\ OperationInv)'
  <2>1. pre' \in [cfg : Config, by : Writer]
    BY <1>1, <1>18 DEF Snapshot, Continue, NoSnapshot, ShadowType, Config, Writer
  <2>2. UNCHANGED <<up, pub, mem, crashes, env>>
    BY <1>18 DEF Snapshot, procVars
  <2>3. /\ pc' \in {"loop", "set"} /\ cur' = cur /\ todo' \subseteq todo
        /\ dev' \in Device \union {None} /\ (pc' = "set" => dev' \in Device)
        /\ rev' \in {rev, 0} /\ pc = "loop"
    BY <1>18 DEF Snapshot, Continue
  <2>4. EngineType'
    BY <1>1, <2>1, <2>2, <2>3 DEF EngineType
  <2>5. QED
    BY <1>1, <2>3, <2>4 DEF OperationInv
<1>19. ASSUME NEW d \in Device, Revert(d) PROVE (EngineType /\ OperationInv)'
  <2>1. pre' \in [cfg : Config, by : Writer]
    BY <1>1, <1>19 DEF Revert, Continue, NoSnapshot, Config, Writer, EngineType
  <2>2. UNCHANGED <<up, pub, mem, crashes, env, targets>>
    BY <1>19 DEF Revert, procVars, storeVars
  <2>3. /\ pc' \in {"rollback", "revertpub"} /\ cur' = cur /\ todo' \subseteq todo
        /\ dev' \in Device \union {None} /\ (pc' = "revertpub" => dev' \in Device)
        /\ rev' \in {seq + 1, 0} /\ pc = "rollback"
    BY <1>19 DEF Revert, Continue
  <2>4. EngineType'
    BY <1>1, <2>1, <2>2, <2>3 DEF EngineType, ShadowType
  <2>5. QED
    BY <1>1, <2>2, <2>3, <2>4 DEF OperationInv
<1>20. ASSUME NEW r \in Rollouts,
             CreateError(r)
      PROVE  (EngineType /\ OperationInv)'
  BY <1>1, <1>20
     DEF CreateError, vars, EngineType, OperationInv,
         shadowVars, putVars, storeVars, procVars, opVars
<1>21. ASSUME NEW d \in Device,
             PutRequest(d)
      PROVE  (EngineType /\ OperationInv)'
  BY <1>1, <1>21
     DEF PutRequest, vars, EngineType, OperationInv,
         shadowVars, putVars, storeVars, procVars, opVars
<1>22. ASSUME NEW q \in puts,
             PutPublish(q)
      PROVE  (EngineType /\ OperationInv)'
  BY <1>1, <1>22
     DEF PutPublish, vars, EngineType, OperationInv,
         shadowVars, putVars, storeVars, procVars, opVars
<1>23. CASE UNCHANGED vars
  BY <1>1, <1>23 DEF vars, EngineType, OperationInv, shadowVars, putVars, storeVars,
       procVars, opVars
<1>24. QED
  BY <1>2, <1>3, <1>4, <1>5, <1>6, <1>7, <1>8, <1>9, <1>10, <1>11, <1>12, <1>13, <1>14,
       <1>15, <1>16, <1>17, <1>18, <1>19, <1>20, <1>21, <1>22, <1>23 DEF Next, Operator,
       Tick, Step

(* An operation ends before its row becomes terminal, and a restart loads  *)
(* only live rows.                                                         *)
LEMMA NextActive ==
  IInv /\ [Next]_vars => ActiveIsLive'
<1> SUFFICES ASSUME IInv, [Next]_vars PROVE ActiveIsLive'
  OBVIOUS
<1>1. ShadowType /\ StoreType /\ EngineType /\ OperationInv /\ ActiveIsLive /\ StageAhead
  BY TypeParts DEF IInv
<1>2. ASSUME NEW r \in Rollouts, Create(r) PROVE ActiveIsLive'
  BY <1>1, <1>2
     DEF Create, Begin, ActiveIsLive, StoreType, EngineType, Live, OperationInv,
         shadowVars, putVars, storeVars, procVars, opVars
<1>3. ASSUME NEW r \in Rollouts, CreateError(r) PROVE ActiveIsLive'
  BY <1>1, <1>3
     DEF CreateError, ActiveIsLive, StoreType, EngineType, Live,
         shadowVars, putVars, storeVars, procVars, opVars
<1>4. ASSUME NEW r \in Rollouts, Pause(r) PROVE ActiveIsLive'
  <2>1. UpdateState(r, "paused") /\ mem' = [mem EXCEPT ![r].state = "paused"] /\ "paused" \in Live
    BY <1>4 DEF Pause, Live
  <2>2. pc = "idle" /\ pc' = "idle" /\ mem[r].state \in Live
    BY <1>4 DEF Pause, opVars, Live
  <2>3. QED
    BY <1>1, <2>1, <2>2, UpdateStateEffect, MemStateEffect DEF ActiveIsLive, Live
<1>5. ASSUME NEW r \in Rollouts, Resume(r) PROVE ActiveIsLive'
  <2>1. UpdateState(r, "running") /\ mem' = [mem EXCEPT ![r].state = "running"] /\ "running" \in Live
    BY <1>5 DEF Resume, Live
  <2>2. pc = "idle" /\ pc' = "idle" /\ mem[r].state \in Live
    BY <1>5 DEF Resume, opVars, Live
  <2>3. QED
    BY <1>1, <2>1, <2>2, UpdateStateEffect, MemStateEffect DEF ActiveIsLive, Live
<1>6. ASSUME NEW r \in Rollouts, Abort(r) PROVE ActiveIsLive'
  BY <1>1, <1>6
     DEF Abort, BeginRollback, Begin, Recorded, ActiveIsLive, StoreType, EngineType,
         shadowVars, putVars, storeVars, procVars, opVars
<1>7. ASSUME NEW r \in Rollouts, TickRollback(r) PROVE ActiveIsLive'
  BY <1>1, <1>7
     DEF TickRollback, BeginRollback, Begin, Recorded, ActiveIsLive, StoreType, EngineType, Live,
         shadowVars, putVars, storeVars, procVars, opVars
<1>8. ASSUME NEW r \in Rollouts, TickComplete(r) PROVE ActiveIsLive'
  <2>1. UpdateState(r, "completed") /\ mem' = [mem EXCEPT ![r] = Inactive] /\ "completed" \in Terminal
    BY <1>8 DEF TickComplete, Terminal
  <2>2. pc = "idle" /\ pc' = "idle" /\ mem[r].state \in Live
    BY <1>8 DEF TickComplete, opVars, Live
  <2>3. mem'[r].state \notin Live /\ \A x \in Rollouts \ {r} : mem'[x] = mem[x]
    BY <1>1, <2>1 DEF EngineType, Inactive, Live
  <2>4. QED
    BY <1>1, <2>1, <2>2, <2>3, UpdateStateEffect DEF ActiveIsLive, Live
<1>9. ASSUME NEW r \in Rollouts, TickAdvance(r) PROVE ActiveIsLive'
  <2>1. pc = "idle" /\ cur' = r /\ mem[r].state = "running"
    BY <1>9 DEF TickAdvance, AdvanceStage, Begin
  <2>2. mem[r].stage \in Nat
    BY <1>1 DEF EngineType
  <2>3. QED
    BY <1>1, <1>9, <2>1, <2>2, AdvanceEffect DEF ActiveIsLive, Live
<1>10. ASSUME StageApplied PROVE ActiveIsLive'
  BY <1>1, <1>10
     DEF StageApplied, Release, ActiveIsLive, StoreType, EngineType, Inactive, Live, OperationInv,
         shadowVars, putVars, storeVars, procVars, opVars
<1>11. ASSUME RolledBack PROVE ActiveIsLive'
  <2>1. cur \in Rollouts /\ UpdateState(cur, "aborted") /\ "aborted" \in Terminal
    BY <1>1, <1>11 DEF RolledBack, Terminal, OperationInv
  <2>2. pc # "idle" /\ pc' = "idle" /\ mem' = [mem EXCEPT ![cur] = Inactive]
    BY <1>11 DEF RolledBack, Release
  <2>3. mem'[cur].state \notin Live /\ \A x \in Rollouts \ {cur} : mem'[x] = mem[x]
    BY <1>1, <2>1, <2>2 DEF EngineType, Inactive, Live
  <2>4. QED
    BY <1>1, <2>1, <2>2, <2>3, UpdateStateEffect DEF ActiveIsLive, Live
<1>12. ASSUME Crash PROVE ActiveIsLive'
  BY <1>1, <1>12
     DEF Crash, Release, ActiveIsLive, StoreType, EngineType, Inactive, Live,
         shadowVars, putVars, storeVars, procVars, opVars
<1>13. ASSUME ResumeAll PROVE ActiveIsLive'
  <2>1. rows' = rows /\ pc' = pc /\ cur' = cur
    BY <1>13 DEF ResumeAll, storeVars, opVars
  <2>2. mem' = mem \/ mem' = [r \in Rollouts |-> IF rows[r].state \in Live THEN rows[r] ELSE Inactive]
    BY <1>13 DEF ResumeAll
  <2>3. pc # "idle" => cur \in Rollouts
    BY <1>1 DEF OperationInv
  <2>4. \A r \in Rollouts : rows[r].stage \in Nat
    BY <1>1 DEF StoreType
  <2>5. QED
    BY <1>1, <2>1, <2>2, <2>3, <2>4 DEF ActiveIsLive, Inactive, Live
<1>14. ASSUME ApplyStage \/ Push \/ RecordTarget \/ PushPublish \/ RevertPublish \/ UNCHANGED vars
      PROVE  ActiveIsLive'
  <2>1. rows' = rows /\ mem' = mem /\ cur' = cur /\ (pc = "idle" => pc' = "idle")
    BY <1>14 DEF ApplyStage, Push, RecordTarget, PushPublish, RevertPublish, Continue, vars,
         storeVars, procVars, opVars
  <2>2. QED
    BY <1>1, <2>1 DEF ActiveIsLive
<1>15. ASSUME NEW d \in Device,
             Snapshot(d) \/ Revert(d) \/ PutRequest(d)
      PROVE  ActiveIsLive'
  <2>1. rows' = rows /\ mem' = mem /\ cur' = cur /\ (pc = "idle" => pc' = "idle")
    BY <1>15 DEF Snapshot, Revert, PutRequest, Continue, storeVars, procVars, opVars
  <2>2. QED
    BY <1>1, <2>1 DEF ActiveIsLive
<1>16. ASSUME NEW q \in puts,
             PutPublish(q)
      PROVE  ActiveIsLive'
  BY <1>1, <1>16
     DEF PutPublish, vars, ActiveIsLive, StoreType, EngineType,
         shadowVars, putVars, storeVars, procVars, opVars
<1>17. QED
  BY <1>2, <1>3, <1>4, <1>5, <1>6, <1>7, <1>8, <1>9, <1>10, <1>11, <1>12, <1>13, <1>14,
       <1>15, <1>16 DEF Next, Operator, Tick, Step

(* The row's stage is written from the one in memory.                      *)
LEMMA NextStage ==
  IInv /\ [Next]_vars => StageAhead'
<1> SUFFICES ASSUME IInv, [Next]_vars PROVE StageAhead'
  OBVIOUS
<1>1. ShadowType /\ StoreType /\ EngineType /\ OperationInv /\ ActiveIsLive /\ StageAhead
  BY TypeParts DEF IInv
<1>2. ASSUME NEW r \in Rollouts, Create(r) PROVE StageAhead'
  BY <1>1, <1>2
     DEF Create, Begin, StageAhead, ActiveIsLive, StoreType, EngineType, Live, OperationInv,
         shadowVars, putVars, storeVars, procVars, opVars
<1>3. ASSUME NEW r \in Rollouts, CreateError(r) PROVE StageAhead'
  BY <1>1, <1>3
     DEF CreateError, StageAhead, ActiveIsLive, StoreType, EngineType, Live,
         shadowVars, putVars, storeVars, procVars, opVars
<1>4. ASSUME NEW r \in Rollouts, Pause(r) PROVE StageAhead'
  <2>1. UpdateState(r, "paused") /\ mem' = [mem EXCEPT ![r].state = "paused"] /\ "paused" \in Live
    BY <1>4 DEF Pause, Live
  <2>2. pc = "idle" /\ pc' = "idle" /\ mem[r].state \in Live
    BY <1>4 DEF Pause, opVars, Live
  <2>3. /\ \A x \in Rollouts : rows'[x].stage = rows[x].stage /\ mem'[x].stage = mem[x].stage
        /\ \A x \in Rollouts \ {r} : rows'[x] = rows[x] /\ mem'[x] = mem[x]
    BY <1>1, <2>1, UpdateStateEffect, MemStateEffect
  <2>4. rows'[r].state # "none"
    BY <1>1, <2>1, <2>2, UpdateStateEffect DEF ActiveIsLive, Live
  <2>5. QED
    BY <1>1, <2>2, <2>3, <2>4 DEF StageAhead
<1>5. ASSUME NEW r \in Rollouts, Resume(r) PROVE StageAhead'
  <2>1. UpdateState(r, "running") /\ mem' = [mem EXCEPT ![r].state = "running"] /\ "running" \in Live
    BY <1>5 DEF Resume, Live
  <2>2. pc = "idle" /\ pc' = "idle" /\ mem[r].state \in Live
    BY <1>5 DEF Resume, opVars, Live
  <2>3. /\ \A x \in Rollouts : rows'[x].stage = rows[x].stage /\ mem'[x].stage = mem[x].stage
        /\ \A x \in Rollouts \ {r} : rows'[x] = rows[x] /\ mem'[x] = mem[x]
    BY <1>1, <2>1, UpdateStateEffect, MemStateEffect
  <2>4. rows'[r].state # "none"
    BY <1>1, <2>1, <2>2, UpdateStateEffect DEF ActiveIsLive, Live
  <2>5. QED
    BY <1>1, <2>2, <2>3, <2>4 DEF StageAhead
<1>6. ASSUME NEW r \in Rollouts, Abort(r) PROVE StageAhead'
  BY <1>1, <1>6
     DEF Abort, BeginRollback, Begin, Recorded, StageAhead, ActiveIsLive, StoreType,
         EngineType, Live,
         shadowVars, putVars, storeVars, procVars, opVars
<1>7. ASSUME NEW r \in Rollouts, TickRollback(r) PROVE StageAhead'
  BY <1>1, <1>7
     DEF TickRollback, BeginRollback, Begin, Recorded, StageAhead, ActiveIsLive, StoreType,
         EngineType, Live,
         shadowVars, putVars, storeVars, procVars, opVars
<1>8. ASSUME NEW r \in Rollouts, TickComplete(r) PROVE StageAhead'
  <2>1. UpdateState(r, "completed") /\ mem' = [mem EXCEPT ![r] = Inactive] /\ "completed" \in Terminal
    BY <1>8 DEF TickComplete, Terminal
  <2>2. pc = "idle" /\ pc' = "idle" /\ mem[r].state \in Live
    BY <1>8 DEF TickComplete, opVars, Live
  <2>3. mem'[r].state \notin Live /\ \A x \in Rollouts \ {r} : mem'[x] = mem[x]
    BY <1>1, <2>1 DEF EngineType, Inactive, Live
  <2>4. QED
    BY <1>1, <2>1, <2>2, <2>3, UpdateStateEffect DEF StageAhead, ActiveIsLive, Live
<1>9. ASSUME NEW r \in Rollouts, TickAdvance(r) PROVE StageAhead'
  <2>1. pc = "idle" /\ cur' = r /\ mem[r].state = "running"
    BY <1>9 DEF TickAdvance, AdvanceStage, Begin
  <2>2. mem[r].stage \in Nat
    BY <1>1 DEF EngineType
  <2>3. rows[r].stage \in Nat /\ rows[r].stage <= mem[r].stage /\ rows[r].state \in Live
    BY <1>1, <2>1 DEF StageAhead, StoreType, ActiveIsLive, Live
  <2>4. /\ mem'[r] = [state |-> "running", stage |-> mem[r].stage + 1]
        /\ rows'[r].state = rows[r].state
        /\ rows'[r].stage \in {rows[r].stage, mem[r].stage + 1}
    BY <1>1, <1>9, AdvanceEffect
  <2>5. mem'[r].state = "running" /\ mem'[r].stage >= rows'[r].stage /\ rows'[r].state \in Live
    BY <2>2, <2>3, <2>4
  <2>6. \A x \in Rollouts \ {r} : rows'[x] = rows[x] /\ mem'[x] = mem[x]
    BY <1>1, <1>9, AdvanceEffect
  <2>7. QED
    BY <1>1, <2>1, <2>5, <2>6 DEF StageAhead, Live
<1>10. ASSUME StageApplied PROVE StageAhead'
  BY <1>1, <1>10
     DEF StageApplied, Release, StageAhead, ActiveIsLive, StoreType, EngineType, Live,
         Inactive, OperationInv,
         shadowVars, putVars, storeVars, procVars, opVars
<1>11. ASSUME RolledBack PROVE StageAhead'
  <2>1. cur \in Rollouts /\ UpdateState(cur, "aborted") /\ "aborted" \in Terminal
    BY <1>1, <1>11 DEF RolledBack, Terminal, OperationInv
  <2>2. pc # "idle" /\ pc' = "idle" /\ mem' = [mem EXCEPT ![cur] = Inactive]
    BY <1>11 DEF RolledBack, Release
  <2>3. mem'[cur].state \notin Live /\ \A x \in Rollouts \ {cur} : mem'[x] = mem[x]
    BY <1>1, <2>1, <2>2 DEF EngineType, Inactive, Live
  <2>4. QED
    BY <1>1, <2>1, <2>2, <2>3, UpdateStateEffect DEF StageAhead, ActiveIsLive, Live
<1>12. ASSUME Crash PROVE StageAhead'
  BY <1>1, <1>12
     DEF Crash, Release, StageAhead, ActiveIsLive, StoreType, EngineType, Live, Inactive,
         shadowVars, putVars, storeVars, procVars, opVars
<1>13. ASSUME ResumeAll PROVE StageAhead'
  <2>1. rows' = rows /\ pc' = pc /\ cur' = cur
    BY <1>13 DEF ResumeAll, storeVars, opVars
  <2>2. mem' = mem \/ mem' = [r \in Rollouts |-> IF rows[r].state \in Live THEN rows[r] ELSE Inactive]
    BY <1>13 DEF ResumeAll
  <2>3. pc # "idle" => cur \in Rollouts
    BY <1>1 DEF OperationInv
  <2>4. \A r \in Rollouts : rows[r].stage \in Nat
    BY <1>1 DEF StoreType
  <2>5. QED
    BY <1>1, <2>1, <2>2, <2>3, <2>4 DEF StageAhead, ActiveIsLive, Inactive, Live
<1>14. ASSUME ApplyStage \/ Push \/ RecordTarget \/ PushPublish \/ RevertPublish \/ UNCHANGED vars
      PROVE  StageAhead'
  <2>1. rows' = rows /\ mem' = mem /\ cur' = cur /\ (pc = "idle" => pc' = "idle")
    BY <1>14 DEF ApplyStage, Push, RecordTarget, PushPublish, RevertPublish, Continue, vars,
         storeVars, procVars, opVars
  <2>2. QED
    BY <1>1, <2>1 DEF StageAhead
<1>15. ASSUME NEW d \in Device,
             Snapshot(d) \/ Revert(d) \/ PutRequest(d)
      PROVE  StageAhead'
  <2>1. rows' = rows /\ mem' = mem /\ cur' = cur /\ (pc = "idle" => pc' = "idle")
    BY <1>15 DEF Snapshot, Revert, PutRequest, Continue, storeVars, procVars, opVars
  <2>2. QED
    BY <1>1, <2>1 DEF StageAhead
<1>16. ASSUME NEW q \in puts,
             PutPublish(q)
      PROVE  StageAhead'
  BY <1>1, <1>16
     DEF PutPublish, vars, StageAhead, ActiveIsLive, StoreType, EngineType,
         shadowVars, putVars, storeVars, procVars, opVars
<1>17. QED
  BY <1>2, <1>3, <1>4, <1>5, <1>6, <1>7, <1>8, <1>9, <1>10, <1>11, <1>12, <1>13, <1>14,
       <1>15, <1>16 DEF Next, Operator, Tick, Step

(* The invariant is inductive.                                            *)
LEMMA NextIInv ==
  IInv /\ [Next]_vars => IInv'
<1>1. TypeOK' <=> ShadowType' /\ StoreType' /\ EngineType'
  BY TypeParts DEF TypeOK, ShadowType, StoreType, EngineType
<1>2. QED
  BY <1>1, NextShadow, NextStore, NextEngine, NextActive, NextStage DEF IInv

-----------------------------------------------------------------------------
(* The inductive invariant holds in every reachable state.                 *)
THEOREM Invariance ==
  Spec => []IInv
BY InitIInv, NextIInv, PTL DEF Spec

(* Type correctness of the shadow, the tables and the engine.              *)
THEOREM TypeCorrect ==
  Spec => []TypeOK
<1>1. IInv => TypeOK
  BY DEF IInv
<1>2. QED
  BY <1>1, Invariance, PTL

(* A step changes a rollout's row only while the row is live or absent, and*)
(* never lowers its stage.                                                 *)
LEMMA RowSteps ==
  ASSUME IInv, [Next]_vars, NEW x \in Rollouts
  PROVE  /\ rows[x].state \in Terminal => rows'[x] = rows[x]
         /\ rows'[x].stage >= rows[x].stage
<1>1. StoreType /\ EngineType /\ OperationInv /\ ActiveIsLive /\ StageAhead
  BY TypeParts DEF IInv
<1>2. rows[x].stage \in Nat
  BY <1>1 DEF StoreType
<1>3. Live \intersect Terminal = {} /\ "none" \notin Terminal
  BY DEF Live, Terminal
<1>4. ASSUME NEW r \in Rollouts, rows[r].state = "none",
             rows' = [rows EXCEPT ![r] = [state |-> "running", stage |-> 0]]
      PROVE  /\ rows[x].state \in Terminal => rows'[x] = rows[x]
             /\ rows'[x].stage >= rows[x].stage
  BY <1>1, <1>2, <1>3, <1>4 DEF StoreType, StageAhead
<1>5. ASSUME NEW r \in Rollouts, NEW s \in Live \union Terminal,
             rows[r].state \in Live, UpdateState(r, s)
      PROVE  /\ rows[x].state \in Terminal => rows'[x] = rows[x]
             /\ rows'[x].stage >= rows[x].stage
  BY <1>1, <1>2, <1>3, <1>5, UpdateStateEffect
<1>6. CASE rows' = rows
  BY <1>2, <1>6
<1>7. ASSUME NEW r \in Rollouts, Create(r) \/ CreateError(r)
      PROVE  /\ rows[x].state \in Terminal => rows'[x] = rows[x]
             /\ rows'[x].stage >= rows[x].stage
  BY <1>4, <1>7 DEF Create, CreateError
<1>8. ASSUME NEW r \in Rollouts, Pause(r) \/ Resume(r) \/ TickComplete(r)
      PROVE  /\ rows[x].state \in Terminal => rows'[x] = rows[x]
             /\ rows'[x].stage >= rows[x].stage
  <2>1. rows[r].state \in Live
    BY <1>1, <1>8 DEF Pause, Resume, TickComplete, ActiveIsLive, Live
  <2>2. \E s \in Live \union Terminal : UpdateState(r, s)
    BY <1>8 DEF Pause, Resume, TickComplete, Live, Terminal
  <2>3. QED
    BY <1>5, <2>1, <2>2
<1>9. ASSUME NEW r \in Rollouts, TickAdvance(r)
      PROVE  /\ rows[x].state \in Terminal => rows'[x] = rows[x]
             /\ rows'[x].stage >= rows[x].stage
  <2>1. rows[r].state \in Live /\ mem[r].stage \in Nat /\ mem[r].stage >= rows[r].stage
    BY <1>1, <1>9 DEF TickAdvance, AdvanceStage, ActiveIsLive, StageAhead, EngineType, Live
  <2>2. /\ rows'[r].state = rows[r].state
        /\ rows'[r].stage \in {rows[r].stage, mem[r].stage + 1}
        /\ x # r => rows'[x] = rows[x]
    BY <1>1, <1>9, AdvanceEffect
  <2>3. CASE x = r
    BY <1>2, <1>3, <2>1, <2>2, <2>3
  <2>4. QED
    BY <1>2, <2>2, <2>3
<1>10. ASSUME RolledBack
       PROVE  /\ rows[x].state \in Terminal => rows'[x] = rows[x]
              /\ rows'[x].stage >= rows[x].stage
  <2>1. cur \in Rollouts /\ rows[cur].state \in Live /\ UpdateState(cur, "aborted")
    BY <1>1, <1>10 DEF RolledBack, OperationInv, ActiveIsLive
  <2>2. QED
    BY <1>5, <2>1 DEF Terminal
<1>11. ASSUME NEW r \in Rollouts, Abort(r) \/ TickRollback(r) PROVE rows' = rows
  BY <1>11 DEF Abort, TickRollback, storeVars
<1>12. ASSUME NEW d \in Device, Snapshot(d) \/ Revert(d) \/ PutRequest(d) PROVE rows' = rows
  BY <1>12 DEF Snapshot, Revert, PutRequest, storeVars
<1>13. ASSUME NEW q \in puts, PutPublish(q) PROVE rows' = rows
  BY <1>13 DEF PutPublish, storeVars
<1>14. ASSUME \/ ApplyStage \/ Push \/ RecordTarget \/ PushPublish \/ StageApplied
              \/ RevertPublish \/ Crash \/ ResumeAll \/ UNCHANGED vars
       PROVE  rows' = rows
  BY <1>14 DEF ApplyStage, Push, RecordTarget, PushPublish, StageApplied, RevertPublish,
               Crash, ResumeAll, vars, storeVars
<1>15. QED
  BY <1>6, <1>7, <1>8, <1>9, <1>10, <1>11, <1>12, <1>13, <1>14
     DEF Next, Operator, Tick, Step

(* A completed or aborted row is final: whatever calls fail and however    *)
(* often the process restarts, nothing writes it again.                    *)
THEOREM TerminalRowsFinal ==
  Spec => TerminalIsFinal
<1>1. IInv /\ [Next]_vars => [\A r \in Rollouts : rows[r].state \in Terminal => rows'[r] = rows[r]]_vars
  BY RowSteps
<1>2. QED
  BY <1>1, Invariance, PTL DEF Spec, TerminalIsFinal

(* The stage of a rollout's row never goes back.                           *)
THEOREM StageMonotonic ==
  Spec => StageNeverRegresses
<1>1. IInv /\ [Next]_vars => [\A r \in Rollouts : rows'[r].stage >= rows[r].stage]_vars
  BY RowSteps
<1>2. QED
  BY <1>1, Invariance, PTL DEF Spec, StageNeverRegresses
=============================================================================
