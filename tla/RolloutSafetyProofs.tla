------------------------ MODULE RolloutSafetyProofs ------------------------
(***************************************************************************)
(* Proofs of what a rollout does to devices, on top of RolloutProofs: that *)
(* memory is what a restart would load, that a stage reaches only its      *)
(* devices, that an ended rollout stays ended, that a snapshot is older    *)
(* than the rollout, that an abort reverts, that a completed rollout       *)
(* reached everybody, and that a reconnecting device finds the latest      *)
(* entry.  Each holds in environments where certain calls succeed, for any *)
(* devices, rollouts, stages, and any number of crashes and PUT requests   *)
(* those environments allow.                                               *)
(***************************************************************************)
EXTENDS RolloutProofs, SequenceTheorems

-----------------------------------------------------------------------------
(* The inductive invariants.                                               *)

InLoop == {"loop", "set", "record", "publish"}
Applying == {"apply"} \union InLoop
Reverting == {"rollback", "revertpub"}

(* A process is down only after a crash.                                   *)
Uptime == crashes <= env.crashes /\ (crashes = 0 => up)

(* In every environment.  A process that is down has nothing in memory; an *)
(* iteration's device is still on the list; a rollback is one of an active *)
(* rollout; rows were validated, and targets belong to rollouts that exist.*)
ProcessInv ==
  /\ pc # "idle" => up
  /\ ~up => \A r \in Rollouts : mem[r] = Inactive
  /\ \A r \in Rollouts : mem[r].state = "none" => mem[r] = Inactive
  /\ pc \in {"set", "record", "publish", "revertpub"} => dev \in todo
  /\ pc \in Reverting => mem[cur].state \in Live
  /\ \A r \in Rollouts : rows[r].state # "none" => validate(r)
  /\ \A r \in Rollouts : rows[r].state = "none" => \A d \in Device : targets[r][d] = None

(* What ResumeAll would make of r.                                         *)
Loaded(r) == IF rows[r].state \in Live THEN rows[r] ELSE Inactive

(* While an operation runs, memory may differ from the rows only for its   *)
(* own rollout, and only because Create has not added it yet.              *)
MemoryAgrees ==
  /\ up => \A r \in Rollouts : (pc = "idle" \/ r # cur) => mem[r] = Loaded(r)
  /\ pc # "idle" =>
       \/ mem[cur] = rows[cur]
       \/ mem[cur] = Inactive /\ rows[cur] = [state |-> "running", stage |-> 0]

(* What was published as ended is terminal in the table.                   *)
EndedIsTerminal == \A r \in ended : rows[r].state \in Terminal

(* Written, recorded and about to be written are only devices of a stage   *)
(* the row has reached.                                                    *)
StageBounds ==
  /\ \A r \in Rollouts, d \in Device :
       (kv[d].by = r \/ targets[r][d] # None) => d \in StageTargets(r, rows[r].stage)
  /\ pc \in InLoop => \A d \in todo : d \in StageTargets(cur, rows[cur].stage)

(* Whatever bears a rollout's name, as config or as writer, was recorded   *)
(* by it before, but for the device between push and record.               *)
TouchedIsRecorded ==
  /\ \A r \in Rollouts, d \in Device :
       (kv[d].by = r \/ kv[d].cfg = r) =>
         targets[r][d] # None \/ (pc = "record" /\ cur = r /\ dev = d)
  /\ \A r, x \in Rollouts, d \in Device :
       (targets[x][d] # None /\ targets[x][d].pre = r) => targets[r][d] # None
  /\ \A r \in Rollouts, d \in Device :
       targets[r][d] # None => targets[r][d].by # r /\ targets[r][d].pre # r
  /\ pc \in {"loop", "set", "record"} => \A d \in todo : targets[cur][d] = None
  /\ pc = "publish" => \A d \in todo \ {dev} : targets[cur][d] = None
  /\ pc \in {"set", "record"} =>
       /\ pre.by # cur /\ pre.cfg # cur
       /\ \A r \in Rollouts : pre.cfg = r => targets[r][dev] # None

(* Device d runs r's config, written by r.                                 *)
On(r, d) == kv[d].cfg = r /\ kv[d].by = r

(* Of the devices r has changed only those are on its config that had none *)
(* before, or are in S.                                                    *)
Reverted(r, S) ==
  \A d \in Device : On(r, d) => targets[r][d] # None /\ (targets[r][d].pre = None \/ d \in S)

(* An aborted rollout is reverted, one being rolled back up to its list.   *)
AbortProgress ==
  /\ \A r \in Rollouts : rows[r].state = "aborted" => Reverted(r, {})
  /\ pc \in Reverting => Reverted(cur, todo)
  /\ pc = "revertpub" => ~On(cur, dev)

(* A rollout's config is on a device because the rollout wrote it there or *)
(* another rollout's rollback put it back.                                 *)
WrittenOrRestored ==
  \A r \in Rollouts, d \in Device :
    kv[d].cfg = r => kv[d].by = r \/ \E x \in Rollouts \ {r} : RestoredBy(x, d)

(* r's config is on d, or somebody else has written d since.               *)
Reached(r, d) == kv[d].cfg = r \/ kv[d].by \notin {r, "nobody"}

(* r goes forward: it is active, or being created, and not rolled back.    *)
Forward(r) == IF pc # "idle" /\ cur = r THEN pc \in Applying ELSE mem[r].state \in Live

(* A completed rollout has reached its last stage, an active one its own,  *)
(* one in applyStage all of the stage but the devices on its list.         *)
StageProgress ==
  /\ \A r \in Rollouts : rows[r].state = "completed" =>
       \A d \in StageTargets(r, LastStage(r)) : Reached(r, d)
  /\ \A r \in Rollouts : (mem[r].state \in Live /\ (pc = "idle" \/ cur # r)) =>
       \A d \in StageTargets(r, mem[r].stage) : Reached(r, d)
  /\ \A r \in Rollouts : Forward(r) =>
       \A d \in Device : targets[r][d] # None => Reached(r, d)
  /\ pc \in InLoop =>
       \A d \in StageTargets(cur, mem[cur].stage) : Reached(cur, d) \/ d \in todo
  /\ pc \in {"record", "publish"} => Reached(cur, dev)

(* The one device whose message is behind is about to be published.        *)
OneBehind ==
  /\ pub /\ puts = {}
  /\ \A d \in Device :
       retained[d] = kv[d].rev \/ (pc \in {"record", "publish", "revertpub"} /\ dev = d)
  /\ pc \in {"record", "publish", "revertpub"} => rev = kv[dev].rev

SoleWriter == Reliable({"audit", "publish", "mqtt"}) /\ env.puts = 0

(* The inductive invariant: what holds in every environment, and what in   *)
(* those where the calls it rests on succeed.                              *)
SafetyInv ==
  /\ IInv
  /\ Uptime
  /\ ProcessInv
  /\ WrittenOrRestored
  /\ StateWritesSucceed => MemoryAgrees /\ EndedIsTerminal /\ StageBounds
  /\ Reliable({"audit", "target"}) => TouchedIsRecorded
  /\ Reliable({"kv", "audit", "target"}) => AbortProgress
  /\ Reliable({"kv", "audit", "target", "list"}) => StageProgress
  /\ SoleWriter => OneBehind

-----------------------------------------------------------------------------
(* The environment is chosen once.                                         *)
LEMMA EnvFixed == [Next]_vars => env' = env
  BY DEF Next, Operator, Tick, Step, Create, CreateError, Pause, Resume, Abort, TickRollback,
      TickComplete, TickAdvance, ApplyStage, Push, RecordTarget, PushPublish, StageApplied,
      RevertPublish, RolledBack, Snapshot, Revert, PutRequest, PutPublish, Crash, ResumeAll, vars

(* Before the first rollout.                                               *)
LEMMA InitSafety == Init => SafetyInv
<1> SUFFICES ASSUME Init PROVE SafetyInv
  OBVIOUS
<1>1. IInv
  BY InitIInv
<1>2. ProcessInv
  BY DEF Init, ProcessInv, Inactive, Reverting
<1>9. Uptime
  <2>1. env.crashes \in Nat
    BY RolloutAssumption DEF Init
  <2>2. QED
    BY <2>1 DEF Init, Uptime
<1>3. MemoryAgrees /\ EndedIsTerminal
  BY DEF Init, MemoryAgrees, EndedIsTerminal, Loaded, Inactive, Live
<1>4. \A d \in Device : kv[d].by = "nobody" /\ kv[d].cfg \in {"old", None} /\ retained[d] = kv[d].rev
  BY DEF Init
<1>5. StageBounds /\ TouchedIsRecorded /\ WrittenOrRestored
  BY <1>4, RolloutAssumption DEF Init, StageBounds, TouchedIsRecorded, WrittenOrRestored, InLoop
<1>6. AbortProgress /\ StageProgress
  BY DEF Init, AbortProgress, StageProgress, Forward, Inactive, Live, Reverting, InLoop
<1>7. SoleWriter => OneBehind
  <2>1. SoleWriter => pub
    BY DEF Init, SoleWriter, Reliable
  <2>2. QED
    BY <1>4, <2>1 DEF Init, OneBehind
<1>8. QED
  BY <1>1, <1>2, <1>3, <1>5, <1>6, <1>7, <1>9 DEF SafetyInv

(* Only Crash counts, and takes the process down.                          *)
LEMMA NextUptime ==
  ASSUME IInv, Uptime, [Next]_vars
  PROVE  Uptime'
<1>1. crashes \in Nat /\ env.crashes \in Nat /\ env' = env
  BY EnvFixed, TypeParts, RolloutAssumption DEF IInv, EngineType
<1>2. CASE Crash
  BY <1>1, <1>2 DEF Crash, Uptime
<1>3. CASE crashes' = crashes /\ (up => up')
  BY <1>1, <1>3 DEF Uptime
<1>4. ASSUME NEW r \in Rollouts, Operator(r) \/ Tick(r) PROVE crashes' = crashes /\ (up => up')
  BY <1>4 DEF Operator, Tick, Create, CreateError, Pause, Resume, Abort, TickRollback,
      TickComplete, TickAdvance, procVars
<1>5. ASSUME Step PROVE crashes' = crashes /\ (up => up')
  BY <1>5 DEF Step, ApplyStage, Push, RecordTarget, PushPublish, StageApplied,
      RevertPublish, RolledBack, Snapshot, Revert, procVars
<1>6. ASSUME \/ \E d \in Device : PutRequest(d)
             \/ \E q \in puts : PutPublish(q)
             \/ UNCHANGED vars
      PROVE  crashes' = crashes /\ (up => up')
  BY <1>6 DEF PutRequest, PutPublish, vars, procVars
<1>7. ASSUME ResumeAll PROVE crashes' = crashes /\ (up => up')
  BY <1>7, Zenon DEF ResumeAll
<1>8. QED
  BY <1>2, <1>3, <1>4, <1>5, <1>6, <1>7 DEF Next

(* Without crashes the process is up and neither crashes nor restarts.     *)
LEMMA NoRestart ==
  ASSUME IInv, Uptime, env.crashes = 0
  PROVE  up /\ ~Crash /\ ~ResumeAll
<1>1. crashes \in Nat
  BY TypeParts DEF IInv, EngineType
<1>2. crashes = 0 /\ ~(crashes < env.crashes)
  BY <1>1 DEF Uptime
<1>3. up
  BY <1>2 DEF Uptime
<1>4. QED
  BY <1>2, <1>3, Zenon DEF Crash, ResumeAll

(* The part that holds in every environment is kept by every step.         *)
LEMMA NextProcess ==
  ASSUME IInv, ProcessInv, [Next]_vars
  PROVE  ProcessInv'
<1>1. ShadowType /\ StoreType /\ EngineType /\ OperationInv /\ ActiveIsLive
  BY TypeParts DEF IInv
<1>2. ASSUME NEW r \in Rollouts, Create(r) PROVE ProcessInv'
  BY <1>1, <1>2 DEF Create, Begin, ProcessInv, StoreType, EngineType, ActiveIsLive, Live,
      Reverting, procVars, validate
<1>3. ASSUME NEW r \in Rollouts, CreateError(r) PROVE ProcessInv'
  BY <1>1, <1>3 DEF CreateError, ProcessInv, StoreType, Reverting, procVars, opVars, validate
<1>4. ASSUME NEW r \in Rollouts, NEW s \in Live \union Terminal, UpdateState(r, s),
             rows[r].state \in Live
      PROVE  \A x \in Rollouts : rows'[x].state = "none" <=> rows[x].state = "none"
  BY <1>1, <1>4, UpdateStateEffect DEF Live, Terminal
<1>5. ASSUME NEW r \in Rollouts, Pause(r) \/ Resume(r) PROVE ProcessInv'
  <2>1. PICK s \in Live : mem' = [mem EXCEPT ![r].state = s] /\ UpdateState(r, s)
    BY <1>5 DEF Pause, Resume, Live
  <2>2. up /\ up' /\ pc = "idle" /\ pc' = "idle" /\ targets' = targets /\ mem[r].state \in Live
    BY <1>5 DEF Pause, Resume, opVars, Live
  <2>3. /\ mem'[r].state \in Live
        /\ \A x \in Rollouts \ {r} : mem'[x] = mem[x]
    <3>1. /\ mem'[r] = [state |-> s, stage |-> mem[r].stage]
          /\ \A x \in Rollouts \ {r} : mem'[x] = mem[x]
      BY <1>1, <2>1, MemStateEffect
    <3>2. QED
      BY <3>1
  <2>4. \A x \in Rollouts : rows'[x].state = "none" <=> rows[x].state = "none"
    BY <1>1, <1>4, <2>1, <2>2 DEF ActiveIsLive
  <2>5. QED
    BY <2>2, <2>3, <2>4 DEF ProcessInv, Reverting, Live, validate
<1>6. ASSUME NEW r \in Rollouts, Abort(r) \/ TickRollback(r) PROVE ProcessInv'
  BY <1>1, <1>6 DEF Abort, TickRollback, BeginRollback, Begin, ProcessInv, Live, storeVars,
      procVars, Reverting, validate
<1>7. ASSUME NEW r \in Rollouts, TickComplete(r) PROVE ProcessInv'
  <2>1. up /\ up' /\ pc = "idle" /\ pc' = "idle" /\ targets' = targets /\ UpdateState(r, "completed")
    BY <1>7 DEF TickComplete, opVars
  <2>2. rows[r].state \in Live /\ "completed" \in Live \union Terminal
    BY <1>1, <1>7 DEF TickComplete, ActiveIsLive, Live, Terminal
  <2>3. mem'[r] = Inactive /\ \A x \in Rollouts \ {r} : mem'[x] = mem[x]
    BY <1>1, <1>7 DEF TickComplete, EngineType
  <2>4. \A x \in Rollouts : rows'[x].state = "none" <=> rows[x].state = "none"
    BY <1>4, <2>1, <2>2
  <2>5. QED
    BY <2>1, <2>3, <2>4 DEF ProcessInv, Reverting, validate
<1>8. ASSUME NEW r \in Rollouts, TickAdvance(r) PROVE ProcessInv'
  <2>1. up /\ up' /\ pc' = "apply" /\ targets' = targets
    BY <1>8 DEF TickAdvance, Begin
  <2>2. /\ mem'[r].state = "running" /\ rows'[r].state = rows[r].state
        /\ \A x \in Rollouts \ {r} : mem'[x] = mem[x] /\ rows'[x].state = rows[x].state
    <3>1. /\ mem'[r] = [state |-> "running", stage |-> mem[r].stage + 1]
          /\ \A x \in Rollouts \ {r} : mem'[x] = mem[x] /\ rows'[x] = rows[x]
          /\ rows'[r].state = rows[r].state
      BY <1>1, <1>8, AdvanceEffect
    <3>2. QED
      BY <3>1
  <2>3. QED
    BY <2>1, <2>2 DEF ProcessInv, Reverting, validate
<1>9. ASSUME ApplyStage PROVE ProcessInv'
  BY <1>1, <1>9 DEF ApplyStage, ProcessInv, storeVars, procVars, Reverting, validate
<1>10. ASSUME NEW d \in Device, Snapshot(d) PROVE ProcessInv'
  BY <1>1, <1>10 DEF Snapshot, Continue, ProcessInv, storeVars, procVars, Reverting, validate
<1>11. ASSUME Push PROVE ProcessInv'
  BY <1>1, <1>11 DEF Push, Continue, ProcessInv, storeVars, procVars, Reverting, validate
<1>12. ASSUME RecordTarget PROVE ProcessInv'
  <2>1. \A r \in Rollouts : r # cur => targets'[r] = targets[r]
    BY <1>1, <1>12 DEF RecordTarget, StoreType
  <2>2. rows[cur].state # "none"
    BY <1>1, <1>12 DEF RecordTarget, ActiveIsLive, Live
  <2>3. QED
    BY <1>1, <1>12, <2>1, <2>2 DEF RecordTarget, ProcessInv, procVars, Reverting, validate
<1>13. ASSUME PushPublish PROVE ProcessInv'
  BY <1>1, <1>13 DEF PushPublish, Continue, ProcessInv, storeVars, procVars, Reverting, validate
<1>14. ASSUME StageApplied PROVE ProcessInv'
  BY <1>1, <1>14 DEF StageApplied, Release, ProcessInv, storeVars, EngineType, OperationInv,
      Reverting, validate
<1>15. ASSUME NEW d \in Device, Revert(d) PROVE ProcessInv'
  BY <1>1, <1>15 DEF Revert, Continue, ProcessInv, storeVars, procVars, Reverting, validate
<1>16. ASSUME RevertPublish PROVE ProcessInv'
  BY <1>1, <1>16 DEF RevertPublish, Continue, ProcessInv, storeVars, procVars, Reverting, validate
<1>17. ASSUME RolledBack PROVE ProcessInv'
  <2>1. /\ cur \in Rollouts /\ rows[cur].state \in Live
        /\ UpdateState(cur, "aborted") /\ "aborted" \in Live \union Terminal
    BY <1>1, <1>17 DEF RolledBack, OperationInv, ActiveIsLive, Terminal
  <2>2. pc' = "idle" /\ up' = up /\ targets' = targets /\ mem' = [mem EXCEPT ![cur] = Inactive]
    BY <1>17 DEF RolledBack, Release
  <2>3. mem'[cur] = Inactive /\ \A x \in Rollouts \ {cur} : mem'[x] = mem[x]
    BY <1>1, <2>1, <2>2 DEF EngineType
  <2>4. \A x \in Rollouts : rows'[x].state = "none" <=> rows[x].state = "none"
    BY <1>4, <2>1
  <2>5. QED
    BY <2>2, <2>3, <2>4 DEF ProcessInv, Reverting, validate
<1>18. ASSUME Crash PROVE ProcessInv'
  BY <1>1, <1>18 DEF Crash, Release, ProcessInv, storeVars, Reverting, validate
<1>19. ASSUME ResumeAll PROVE ProcessInv'
  <2>1. pc = "idle" /\ pc' = "idle" /\ up' /\ rows' = rows /\ targets' = targets
    BY <1>19 DEF ResumeAll, ProcessInv, opVars, storeVars
  <2>2. \A r \in Rollouts : mem'[r] = mem[r] \/ mem'[r] = Inactive \/ mem'[r].state \in Live
    BY <1>19 DEF ResumeAll
  <2>3. QED
    BY <2>1, <2>2 DEF ProcessInv, Reverting, Live, validate
<1>20. ASSUME \/ \E d \in Device : PutRequest(d)
              \/ \E q \in puts : PutPublish(q)
              \/ UNCHANGED vars
       PROVE  ProcessInv'
  <2>1. UNCHANGED <<rows, targets, up, mem, pc, cur, todo, dev>>
    BY <1>20 DEF PutRequest, PutPublish, vars, storeVars, procVars, opVars
  <2>2. QED
    BY <2>1 DEF ProcessInv, validate
<1>21. QED
  BY <1>2, <1>3, <1>5, <1>6, <1>7, <1>8, <1>9, <1>10, <1>11, <1>12, <1>13, <1>14, <1>15,
     <1>16, <1>17, <1>18, <1>19, <1>20 DEF Next, Operator, Tick, Step

-----------------------------------------------------------------------------
(* What the steps do to the tables and to the active set.                  *)

(* A write of the rollouts table that succeeds.                            *)
LEMMA UpdateStateSucceeds ==
  ASSUME StoreType, StateWritesSucceed, NEW r \in Rollouts, NEW s, UpdateState(r, s)
  PROVE  /\ rows'[r] = [state |-> s, stage |-> rows[r].stage]
         /\ \A x \in Rollouts \ {r} : rows'[x] = rows[x]
<1>1. rows' = [rows EXCEPT ![r].state = s]
  BY DEF UpdateState, StateWritesSucceed
<1>2. QED
  BY <1>1 DEF StoreType

(* A stage advance that is persisted.                                      *)
LEMMA AdvanceStageSucceeds ==
  ASSUME StoreType, StateWritesSucceed, NEW r \in Rollouts, NEW k, AdvanceStage(r, k)
  PROVE  /\ rows'[r] = [state |-> rows[r].state, stage |-> k]
         /\ \A x \in Rollouts \ {r} : rows'[x] = rows[x]
<1>1. rows' = [rows EXCEPT ![r].stage = k]
  BY DEF AdvanceStage, StateWritesSucceed
<1>2. QED
  BY <1>1 DEF StoreType

(* The steps of a loop over devices and of the PUT handlers write neither  *)
(* the rollouts table nor the active set, and keep the operation.          *)
Quiet ==
  \/ ApplyStage \/ Push \/ RecordTarget \/ PushPublish \/ RevertPublish
  \/ \E d \in Device : Snapshot(d) \/ Revert(d) \/ PutRequest(d)
  \/ \E q \in puts : PutPublish(q)
  \/ UNCHANGED vars

(* They leave the table, the active set and the operation's rollout alone. *)
LEMMA QuietEffect ==
  ASSUME Quiet
  PROVE  /\ rows' = rows /\ ended' = ended /\ mem' = mem /\ up' = up /\ cur' = cur
         /\ pc' = "idle" <=> pc = "idle"
<1>1. ASSUME ApplyStage \/ Push \/ RecordTarget \/ PushPublish \/ RevertPublish
      PROVE  /\ rows' = rows /\ ended' = ended /\ mem' = mem /\ up' = up /\ cur' = cur
             /\ pc' = "idle" <=> pc = "idle"
  BY <1>1 DEF ApplyStage, Push, RecordTarget, PushPublish, RevertPublish, Continue, storeVars, procVars
<1>2. ASSUME NEW d \in Device, Snapshot(d) \/ Revert(d) \/ PutRequest(d)
      PROVE  /\ rows' = rows /\ ended' = ended /\ mem' = mem /\ up' = up /\ cur' = cur
             /\ pc' = "idle" <=> pc = "idle"
  BY <1>2 DEF Snapshot, Revert, PutRequest, Continue, storeVars, procVars, opVars
<1>3. ASSUME (\E q \in puts : PutPublish(q)) \/ UNCHANGED vars
      PROVE  /\ rows' = rows /\ ended' = ended /\ mem' = mem /\ up' = up /\ cur' = cur
             /\ pc' = "idle" <=> pc = "idle"
  BY <1>3 DEF PutPublish, vars, storeVars, procVars, opVars
<1>4. QED
  BY <1>1, <1>2, <1>3 DEF Quiet

(* Next by what the steps write.                                           *)
LEMMA NextCases ==
  ASSUME [Next]_vars
  PROVE  \/ Quiet
         \/ \E r \in Rollouts : \/ Create(r) \/ CreateError(r) \/ Pause(r) \/ Resume(r) \/ Abort(r)
                                \/ TickRollback(r) \/ TickComplete(r) \/ TickAdvance(r)
         \/ StageApplied \/ RolledBack \/ Crash \/ ResumeAll
BY DEF Next, Operator, Tick, Step, Quiet

(* Memory agrees with the rows as long as the rows' writes succeed.        *)
LEMMA NextMemory ==
  ASSUME IInv, ProcessInv, StateWritesSucceed, MemoryAgrees, [Next]_vars
  PROVE  MemoryAgrees'
<1>1. ShadowType /\ StoreType /\ EngineType /\ OperationInv /\ ActiveIsLive
  BY TypeParts DEF IInv
<1>2. ASSUME Quiet PROVE MemoryAgrees'
  BY <1>2, QuietEffect DEF MemoryAgrees, Loaded
<1>3. ASSUME NEW r \in Rollouts, Create(r) PROVE MemoryAgrees'
  <2>1. /\ up /\ pc = "idle" /\ mem' = mem /\ pc' = "apply" /\ cur' = r /\ rows[r].state = "none"
        /\ rows'[r] = [state |-> "running", stage |-> 0]
        /\ \A x \in Rollouts \ {r} : rows'[x] = rows[x]
    BY <1>1, <1>3 DEF Create, Begin, procVars, StoreType
  <2>2. mem[r] = Inactive
    BY <2>1 DEF MemoryAgrees, Loaded, Live
  <2>3. QED
    BY <2>1, <2>2 DEF MemoryAgrees, Loaded
<1>4. ASSUME NEW r \in Rollouts, CreateError(r) PROVE FALSE
  BY <1>4 DEF CreateError, StateWritesSucceed
<1>5. ASSUME NEW r \in Rollouts, Pause(r) \/ Resume(r) PROVE MemoryAgrees'
  <2>1. PICK s \in Live : mem' = [mem EXCEPT ![r].state = s] /\ UpdateState(r, s)
    BY <1>5 DEF Pause, Resume, Live
  <2>2. up /\ pc = "idle" /\ pc' = "idle" /\ mem[r].state \in Live
    BY <1>5 DEF Pause, Resume, opVars, Live
  <2>3. mem[r] = rows[r]
    BY <2>2, <1>1 DEF MemoryAgrees, Loaded, ActiveIsLive
  <2>4. /\ mem'[r] = [state |-> s, stage |-> mem[r].stage]
        /\ \A x \in Rollouts \ {r} : mem'[x] = mem[x]
    BY <1>1, <2>1, MemStateEffect
  <2>5. /\ rows'[r] = [state |-> s, stage |-> rows[r].stage]
        /\ \A x \in Rollouts \ {r} : rows'[x] = rows[x]
    BY <1>1, <2>1, UpdateStateSucceeds
  <2>6. QED
    BY <2>2, <2>3, <2>4, <2>5 DEF MemoryAgrees, Loaded
<1>6. ASSUME NEW r \in Rollouts, Abort(r) \/ TickRollback(r) PROVE MemoryAgrees'
  <2>1. /\ up /\ pc = "idle" /\ pc' = "rollback" /\ cur' = r /\ mem[r].state \in Live
        /\ rows' = rows /\ mem' = mem
    BY <1>6 DEF Abort, TickRollback, BeginRollback, Begin, storeVars, procVars, Live
  <2>2. mem[r] = rows[r]
    BY <2>1, <1>1 DEF MemoryAgrees, Loaded, ActiveIsLive
  <2>3. QED
    BY <2>1, <2>2 DEF MemoryAgrees, Loaded
<1>7. ASSUME NEW r \in Rollouts, TickComplete(r) PROVE MemoryAgrees'
  <2>1. up /\ pc = "idle" /\ pc' = "idle" /\ UpdateState(r, "completed")
    BY <1>7 DEF TickComplete, opVars
  <2>2. mem'[r] = Inactive /\ \A x \in Rollouts \ {r} : mem'[x] = mem[x]
    BY <1>1, <1>7 DEF TickComplete, EngineType
  <2>3. /\ rows'[r] = [state |-> "completed", stage |-> rows[r].stage]
        /\ \A x \in Rollouts \ {r} : rows'[x] = rows[x]
    BY <1>1, <2>1, UpdateStateSucceeds
  <2>4. rows'[r].state \notin Live
    BY <2>3 DEF Live
  <2>5. QED
    BY <2>1, <2>2, <2>3, <2>4 DEF MemoryAgrees, Loaded
<1>8. ASSUME NEW r \in Rollouts, TickAdvance(r) PROVE MemoryAgrees'
  <2>1. /\ up /\ pc = "idle" /\ pc' = "apply" /\ cur' = r /\ mem[r].state = "running"
        /\ AdvanceStage(r, mem[r].stage + 1)
    BY <1>8 DEF TickAdvance, Begin
  <2>2. mem[r] = rows[r]
    BY <2>1, <1>1 DEF MemoryAgrees, Loaded, ActiveIsLive, Live
  <2>3. /\ mem'[r] = [state |-> "running", stage |-> mem[r].stage + 1]
        /\ \A x \in Rollouts \ {r} : mem'[x] = mem[x]
    BY <1>1, <1>8, AdvanceEffect
  <2>4. /\ rows'[r] = [state |-> rows[r].state, stage |-> mem[r].stage + 1]
        /\ \A x \in Rollouts \ {r} : rows'[x] = rows[x]
    BY <1>1, <2>1, AdvanceStageSucceeds
  <2>5. QED
    BY <2>1, <2>2, <2>3, <2>4 DEF MemoryAgrees, Loaded
<1>9. ASSUME StageApplied PROVE MemoryAgrees'
  <2>1. /\ pc # "idle" /\ cur \in Rollouts /\ pc' = "idle" /\ rows' = rows /\ up' = up
        /\ mem'[cur] = IF mem[cur].state = "none" THEN [state |-> "running", stage |-> 0] ELSE mem[cur]
        /\ \A x \in Rollouts \ {cur} : mem'[x] = mem[x]
    BY <1>1, <1>9 DEF StageApplied, Release, storeVars, OperationInv, EngineType
  <2>2. rows[cur].state \in Live
    BY <1>1, <2>1 DEF ActiveIsLive
  <2>3. mem'[cur] = rows[cur]
    BY <2>1, <2>2 DEF MemoryAgrees, Inactive, Live
  <2>4. QED
    BY <2>1, <2>2, <2>3 DEF MemoryAgrees, Loaded
<1>10. ASSUME RolledBack PROVE MemoryAgrees'
  <2>1. /\ pc # "idle" /\ cur \in Rollouts /\ pc' = "idle" /\ up' = up /\ UpdateState(cur, "aborted")
        /\ mem'[cur] = Inactive /\ \A x \in Rollouts \ {cur} : mem'[x] = mem[x]
    BY <1>1, <1>10 DEF RolledBack, Release, OperationInv, EngineType
  <2>2. /\ rows'[cur] = [state |-> "aborted", stage |-> rows[cur].stage]
        /\ \A x \in Rollouts \ {cur} : rows'[x] = rows[x]
    BY <1>1, <2>1, UpdateStateSucceeds
  <2>3. rows'[cur].state \notin Live
    BY <2>2 DEF Live
  <2>4. QED
    BY <2>1, <2>2, <2>3 DEF MemoryAgrees, Loaded
<1>11. ASSUME Crash PROVE MemoryAgrees'
  BY <1>11 DEF Crash, Release, MemoryAgrees
<1>12. ASSUME ResumeAll PROVE MemoryAgrees'
  <2>1. pc' = "idle" /\ rows' = rows
    BY <1>12 DEF ResumeAll, ProcessInv, opVars, storeVars
  <2>2. \A r \in Rollouts : mem'[r] = Loaded(r)
    BY <1>12 DEF ResumeAll, StateWritesSucceed, Loaded
  <2>3. QED
    BY <2>1, <2>2 DEF MemoryAgrees, Loaded
<1>13. QED
  BY <1>2, <1>3, <1>4, <1>5, <1>6, <1>7, <1>8, <1>9, <1>10, <1>11, <1>12, NextCases

(* What was announced as ended is terminal in the table.                   *)
LEMMA NextEnded ==
  ASSUME IInv, StateWritesSucceed, EndedIsTerminal, [Next]_vars
  PROVE  EndedIsTerminal'
<1>1. StoreType /\ OperationInv
  BY TypeParts DEF IInv
<1>2. \A x \in ended : rows'[x].state \in Terminal
  BY <1>1, RowSteps DEF EndedIsTerminal, StoreType
<1>3. ASSUME NEW r \in Rollouts, NEW s \in Terminal, UpdateState(r, s), ended' = ended \union {r}
      PROVE  EndedIsTerminal'
  <2>1. rows'[r] = [state |-> s, stage |-> rows[r].stage]
    BY <1>1, <1>3, UpdateStateSucceeds
  <2>2. QED
    BY <1>2, <1>3, <2>1 DEF EndedIsTerminal
<1>4. ASSUME NEW r \in Rollouts, TickComplete(r) PROVE EndedIsTerminal'
  BY <1>3, <1>4 DEF TickComplete, Terminal
<1>5. ASSUME RolledBack PROVE EndedIsTerminal'
  BY <1>1, <1>3, <1>5 DEF RolledBack, Terminal, OperationInv
<1>6. ASSUME ended' = ended PROVE EndedIsTerminal'
  BY <1>2, <1>6 DEF EndedIsTerminal
<1>7. ASSUME Quiet PROVE ended' = ended
  BY <1>7, QuietEffect
<1>8. ASSUME NEW r \in Rollouts,
             \/ Create(r) \/ CreateError(r) \/ Pause(r) \/ Resume(r) \/ Abort(r)
             \/ TickRollback(r) \/ TickAdvance(r)
      PROVE  ended' = ended
  BY <1>8 DEF Create, CreateError, Pause, Resume, Abort, TickRollback, TickAdvance, storeVars
<1>9. ASSUME StageApplied \/ Crash \/ ResumeAll PROVE ended' = ended
  BY <1>9 DEF StageApplied, Crash, ResumeAll, storeVars
<1>10. QED
  BY <1>4, <1>5, <1>6, <1>7, <1>8, <1>9, NextCases

(* The percentages increase, so a stage contains the one before.           *)
LEMMA StagesGrow ==
  ASSUME NEW r \in Rollouts, NEW k \in Nat, validate(r), k < LastStage(r)
  PROVE  StageTargets(r, k) \subseteq StageTargets(r, k + 1)
<1>1. Percent[r] \in Seq(0..100) /\ Cohort[r] \subseteq Device
  BY RolloutAssumption
<1>2. k + 1 \in 1..Len(Percent[r]) /\ k + 2 \in 1..Len(Percent[r])
  BY <1>1 DEF LastStage
<1>3. Percent[r][k + 2] > Percent[r][k + 1]
  BY <1>2 DEF validate
<1>4. Percent[r][k + 1] \in 0..100 /\ Percent[r][k + 2] \in 0..100
  BY <1>1, <1>2, ElementOfSeq
<1>5. \A d \in Cohort[r] : Bucket[d] \in 0..99
  BY <1>1, RolloutAssumption
<1>6. ASSUME NEW d \in Cohort[r], Bucket[d] < Percent[r][k + 1] PROVE Bucket[d] < Percent[r][k + 2]
  <2> DEFINE b == Bucket[d]
             p == Percent[r][k + 1]
             q == Percent[r][k + 2]
  <2>1. b \in 0..99 /\ p \in 0..100 /\ q \in 0..100 /\ b < p /\ q > p
    BY <1>3, <1>4, <1>5, <1>6
  <2> HIDE DEF b, p, q
  <2>2. b < q
    BY <2>1
  <2>3. QED
    BY <2>2 DEF b, q
<1>7. (k + 1) + 1 = k + 2
  OBVIOUS
<1>8. QED
  BY <1>6, <1>7 DEF StageTargets

(* The KV entry a put leaves behind.                                       *)
LEMMA PutEffect ==
  ASSUME ShadowType, NEW d \in Device, NEW c, NEW w, PutDesired(d, c, w)
  PROVE  /\ kv'[d] = [cfg |-> c, rev |-> seq + 1, by |-> w]
         /\ \A x \in Device \ {d} : kv'[x] = kv[x]
BY DEF PutDesired, ShadowType

(* A target that is recorded stays as it is; at most cur's dev is new.     *)
LEMMA RecordEffect ==
  ASSUME StoreType, EngineType, OperationInv, RecordTarget
  PROVE  /\ cur \in Rollouts /\ dev \in Device
         /\ \A r \in Rollouts, d \in Device :
              (r # cur \/ d # dev \/ targets[r][d] # None) => targets'[r][d] = targets[r][d]
         /\ \/ targets'[cur][dev] = targets[cur][dev]
            \/ /\ targets[cur][dev] = None
               /\ targets'[cur][dev] = [pre |-> pre.cfg, by |-> pre.by, stage |-> mem[cur].stage]
         /\ "target" \notin env.faults => targets'[cur][dev] # None
<1>1. cur \in Rollouts /\ dev \in Device
  BY DEF RecordTarget, OperationInv
<1> DEFINE t == [pre |-> pre.cfg, by |-> pre.by, stage |-> mem[cur].stage]
           v == IF targets[cur][dev] = None THEN t ELSE targets[cur][dev]
<1>4. t # None
  <2>1. t \in Target
    BY <1>1 DEF EngineType, Target
  <2>2. QED
    BY <2>1, NoTargetAssumption
<1>2. CASE targets' = targets
  <2>1. ASSUME "target" \notin env.faults PROVE targets'[cur][dev] # None
    <3>1. targets' = [targets EXCEPT ![cur] = [targets[cur] EXCEPT ![dev] = v]]
      BY <2>1 DEF RecordTarget
    <3>2. targets'[cur][dev] = v
      BY <1>1, <3>1 DEF StoreType
    <3>3. QED
      BY <1>4, <3>2
  <2>2. QED
    BY <1>1, <1>2, <2>1
<1>3. CASE targets' # targets
  <2>1. targets' = [targets EXCEPT ![cur] = [targets[cur] EXCEPT ![dev] = v]]
    BY <1>3 DEF RecordTarget
  <2>2. targets'[cur][dev] = v /\ \A r \in Rollouts, d \in Device : (r # cur \/ d # dev) => targets'[r][d] = targets[r][d]
    BY <1>1, <2>1 DEF StoreType
  <2>3. QED
    BY <1>1, <1>4, <2>2
<1>5. QED
  BY <1>2, <1>3

(* The steps between operations write neither shadow nor targets; an       *)
(* operation begins with applyStage or with a rollback.                    *)
LEMMA OutsideEffect ==
  ASSUME \/ \E r \in Rollouts : \/ Create(r) \/ CreateError(r) \/ Pause(r) \/ Resume(r) \/ Abort(r)
                                \/ TickRollback(r) \/ TickComplete(r) \/ TickAdvance(r)
         \/ StageApplied \/ RolledBack \/ Crash
         \/ ResumeAll /\ pc = "idle"
  PROVE  kv' = kv /\ targets' = targets /\ pc' \in {"idle", "apply", "rollback"}
<1>1. ASSUME NEW r \in Rollouts,
             \/ Create(r) \/ CreateError(r) \/ Pause(r) \/ Resume(r) \/ Abort(r)
             \/ TickRollback(r) \/ TickComplete(r) \/ TickAdvance(r)
      PROVE  kv' = kv /\ targets' = targets /\ pc' \in {"idle", "apply", "rollback"}
  BY <1>1 DEF Create, CreateError, Pause, Resume, Abort, TickRollback, TickComplete, TickAdvance,
      BeginRollback, Begin, shadowVars, storeVars, opVars
<1>2. ASSUME StageApplied \/ RolledBack \/ Crash \/ (ResumeAll /\ pc = "idle")
      PROVE  kv' = kv /\ targets' = targets /\ pc' \in {"idle", "apply", "rollback"}
  BY <1>2 DEF StageApplied, RolledBack, Crash, ResumeAll, Release, shadowVars, storeVars, opVars
<1>3. QED
  BY <1>1, <1>2

(* Only advanceLocked changes the stage in a row.                          *)
LEMMA StageEffect ==
  ASSUME IInv, [Next]_vars, NEW x \in Rollouts, ~TickAdvance(x)
  PROVE  rows'[x].stage = rows[x].stage
<1>1. StoreType /\ EngineType /\ OperationInv /\ StageAhead
  BY TypeParts DEF IInv
<1>2. ASSUME Quiet PROVE rows'[x].stage = rows[x].stage
  BY <1>2, QuietEffect
<1>3. ASSUME NEW r \in Rollouts, Create(r) \/ CreateError(r) PROVE rows'[x].stage = rows[x].stage
  BY <1>1, <1>3 DEF Create, CreateError, StoreType, StageAhead
<1>4. ASSUME NEW r \in Rollouts, Pause(r) \/ Resume(r) \/ TickComplete(r)
      PROVE  rows'[x].stage = rows[x].stage
  <2>1. \E s \in Live \union Terminal : UpdateState(r, s)
    BY <1>4 DEF Pause, Resume, TickComplete, Live, Terminal
  <2>2. QED
    BY <1>1, <2>1, UpdateStateEffect
<1>5. ASSUME NEW r \in Rollouts, TickAdvance(r) PROVE rows'[x].stage = rows[x].stage
  <2>1. r # x
    BY <1>5
  <2>2. QED
    BY <1>1, <1>5, <2>1, AdvanceEffect
<1>6. ASSUME RolledBack PROVE rows'[x].stage = rows[x].stage
  <2>1. cur \in Rollouts /\ UpdateState(cur, "aborted") /\ "aborted" \in Live \union Terminal
    BY <1>1, <1>6 DEF RolledBack, OperationInv, Terminal
  <2>2. QED
    BY <1>1, <2>1, UpdateStateEffect
<1>7. ASSUME \/ \E r \in Rollouts : Abort(r) \/ TickRollback(r)
             \/ StageApplied \/ Crash \/ ResumeAll
      PROVE  rows'[x].stage = rows[x].stage
  BY <1>7 DEF Abort, TickRollback, StageApplied, Crash, ResumeAll, storeVars
<1>8. QED
  BY <1>2, <1>3, <1>4, <1>5, <1>6, <1>7, NextCases

(* Devices are written, recorded and listed within the stage of the row.   *)
LEMMA NextStageBounds ==
  ASSUME IInv, ProcessInv, StateWritesSucceed, MemoryAgrees, StageBounds, [Next]_vars
  PROVE  StageBounds'
<1>1. ShadowType /\ StoreType /\ EngineType /\ OperationInv /\ ActiveIsLive
  BY TypeParts DEF IInv
<1>2. ASSUME NEW r \in Rollouts, NEW d \in Device, d \in StageTargets(r, rows[r].stage)
      PROVE  d \in StageTargets(r, rows'[r].stage)
  <2>1. CASE TickAdvance(r)
    <3>1. /\ up /\ pc = "idle" /\ mem[r].state = "running" /\ mem[r].stage < LastStage(r)
          /\ AdvanceStage(r, mem[r].stage + 1)
      BY <2>1 DEF TickAdvance
    <3>2. mem[r] = rows[r] /\ rows[r].state # "none" /\ rows[r].stage \in Nat
      BY <1>1, <3>1 DEF MemoryAgrees, Loaded, ActiveIsLive, Live, StoreType
    <3>3. rows'[r] = [state |-> rows[r].state, stage |-> rows[r].stage + 1]
      BY <1>1, <3>1, <3>2, AdvanceStageSucceeds
    <3>4. StageTargets(r, rows[r].stage) \subseteq StageTargets(r, rows[r].stage + 1)
      BY <3>1, <3>2, StagesGrow DEF ProcessInv
    <3>5. QED
      BY <1>2, <3>3, <3>4
  <2>2. CASE ~TickAdvance(r)
    BY <1>2, <2>2, StageEffect
  <2>3. QED
    BY <2>1, <2>2
<1>3. ASSUME kv' = kv, targets' = targets,
             pc' \in InLoop => pc \in InLoop /\ cur' = cur /\ todo' \subseteq todo
      PROVE  StageBounds'
  <2>1. \A r \in Rollouts, d \in Device :
          (kv'[d].by = r \/ targets'[r][d] # None) => d \in StageTargets(r, rows'[r].stage)
    BY <1>2, <1>3 DEF StageBounds
  <2>2. ASSUME pc' \in InLoop, NEW d \in todo' PROVE d \in StageTargets(cur', rows'[cur'].stage)
    BY <1>1, <1>2, <1>3, <2>2 DEF StageBounds, OperationInv, EngineType, InLoop
  <2>3. QED
    BY <2>1, <2>2 DEF StageBounds, StageTargets
<1>4. ASSUME ApplyStage PROVE StageBounds'
  <2>1. /\ kv' = kv /\ targets' = targets /\ rows' = rows /\ cur' = cur /\ cur \in Rollouts
        /\ todo' \subseteq StageTargets(cur, mem[cur].stage)
        /\ pc # "idle"
    BY <1>1, <1>4 DEF ApplyStage, shadowVars, storeVars, OperationInv
  <2>2. mem[cur].stage = rows[cur].stage
    BY <2>1 DEF MemoryAgrees, Inactive
  <2>3. QED
    BY <2>1, <2>2 DEF StageBounds, StageTargets
<1>5. ASSUME NEW d \in Device, NEW c, NEW w, PutDesired(d, c, w), targets' = targets, rows' = rows,
             w \in Rollouts => d \in StageTargets(w, rows[w].stage),
             pc' \in InLoop => pc \in InLoop /\ cur' = cur /\ todo' \subseteq todo
      PROVE  StageBounds'
  <2>1. /\ kv'[d] = [cfg |-> c, rev |-> seq + 1, by |-> w]
        /\ \A x \in Device \ {d} : kv'[x] = kv[x]
    BY <1>1, <1>5, PutEffect
  <2>2. \A r \in Rollouts, x \in Device :
          (kv'[x].by = r \/ targets'[r][x] # None) => x \in StageTargets(r, rows'[r].stage)
    BY <1>5, <2>1 DEF StageBounds
  <2>3. ASSUME pc' \in InLoop, NEW x \in todo' PROVE x \in StageTargets(cur', rows'[cur'].stage)
    BY <1>5, <2>3 DEF StageBounds
  <2>4. QED
    BY <2>2, <2>3 DEF StageBounds, StageTargets
<1>6. ASSUME Push PROVE StageBounds'
  <2>1. /\ dev \in Device /\ dev \in todo /\ cur \in Rollouts /\ pc \in InLoop
        /\ targets' = targets /\ rows' = rows /\ cur' = cur /\ todo' \subseteq todo
    BY <1>1, <1>6 DEF Push, Continue, storeVars, ProcessInv, OperationInv, InLoop
  <2>2. dev \in StageTargets(cur, rows[cur].stage)
    BY <2>1 DEF StageBounds
  <2>3. CASE PutDesired(dev, cur, cur)
    BY <1>5, <2>1, <2>2, <2>3
  <2>4. CASE kv' = kv
    BY <1>3, <2>1, <2>4
  <2>5. QED
    BY <1>6, <2>3, <2>4 DEF Push
<1>7. ASSUME RecordTarget PROVE StageBounds'
  <2>1. /\ dev \in todo /\ pc \in InLoop /\ kv' = kv /\ rows' = rows /\ cur' = cur /\ todo' = todo
    BY <1>7 DEF RecordTarget, shadowVars, ProcessInv, InLoop
  <2>2. /\ cur \in Rollouts /\ dev \in Device
        /\ \A r \in Rollouts, d \in Device :
             (r # cur \/ d # dev) => targets'[r][d] = targets[r][d]
    BY <1>1, <1>7, RecordEffect
  <2>3. dev \in StageTargets(cur, rows[cur].stage)
    BY <2>1 DEF StageBounds
  <2>4. QED
    BY <2>1, <2>2, <2>3 DEF StageBounds, StageTargets
<1>8. ASSUME NEW d \in Device, Revert(d) PROVE StageBounds'
  <2>1. /\ cur \in Rollouts /\ targets[cur][d] # None /\ targets' = targets /\ rows' = rows
        /\ pc' \notin InLoop
    BY <1>1, <1>8 DEF Revert, Continue, storeVars, OperationInv, InLoop
  <2>2. d \in StageTargets(cur, rows[cur].stage)
    BY <2>1 DEF StageBounds
  <2>3. CASE PutDesired(d, targets[cur][d].pre, cur)
    BY <1>5, <2>1, <2>2, <2>3
  <2>4. CASE kv' = kv
    BY <1>3, <2>1, <2>4
  <2>5. QED
    BY <1>8, <2>3, <2>4 DEF Revert
<1>9. ASSUME NEW d \in Device, PutRequest(d) PROVE StageBounds'
  <2>1. /\ PutDesired(d, "manual", "operator") /\ targets' = targets /\ rows' = rows
        /\ pc' = pc /\ cur' = cur /\ todo' = todo
    BY <1>9 DEF PutRequest, storeVars, opVars
  <2>2. "operator" \notin Rollouts
    BY RolloutAssumption
  <2>3. QED
    BY <1>5, <2>1, <2>2
<1>10. ASSUME \/ \E d \in Device : Snapshot(d)
              \/ \E q \in puts : PutPublish(q)
              \/ PushPublish \/ RevertPublish \/ UNCHANGED vars
       PROVE  StageBounds'
  <2>1. /\ kv' = kv /\ targets' = targets
        /\ pc' \in InLoop => pc \in InLoop /\ cur' = cur /\ todo' \subseteq todo
    BY <1>10 DEF Snapshot, PutPublish, PushPublish, RevertPublish, Continue, InLoop,
        vars, shadowVars, storeVars, opVars
  <2>2. QED
    BY <1>3, <2>1
<1>11. ASSUME \/ \E r \in Rollouts : \/ Create(r) \/ CreateError(r) \/ Pause(r) \/ Resume(r) \/ Abort(r)
                                     \/ TickRollback(r) \/ TickComplete(r) \/ TickAdvance(r)
              \/ StageApplied \/ RolledBack \/ Crash \/ ResumeAll
       PROVE  StageBounds'
  <2>1. kv' = kv /\ targets' = targets /\ pc' \in {"idle", "apply", "rollback"}
    BY <1>11, OutsideEffect DEF ResumeAll, ProcessInv
  <2>2. QED
    BY <1>3, <2>1 DEF InLoop
<1>12. QED
  BY <1>4, <1>6, <1>7, <1>8, <1>9, <1>10, <1>11, NextCases DEF Quiet

-----------------------------------------------------------------------------
(* What a rollout writes it has recorded, with what was there before.      *)
LEMMA NextTouched ==
  ASSUME IInv, Uptime, ProcessInv, Reliable({"audit", "target"}), TouchedIsRecorded, [Next]_vars
  PROVE  TouchedIsRecorded'
<1>1. ShadowType /\ StoreType /\ EngineType /\ OperationInv
  BY TypeParts DEF IInv
<1>2. "audit" \notin env.faults /\ "target" \notin env.faults /\ ~Crash
  BY NoRestart DEF Reliable
<1> DEFINE Records ==
             /\ \A r, x \in Rollouts, d \in Device :
                  (targets[x][d] # None /\ targets[x][d].pre = r) => targets[r][d] # None
             /\ \A r \in Rollouts, d \in Device :
                  targets[r][d] # None => targets[r][d].by # r /\ targets[r][d].pre # r
           Listed ==
             /\ pc \in {"loop", "set", "record"} => \A d \in todo : targets[cur][d] = None
             /\ pc = "publish" => \A d \in todo \ {dev} : targets[cur][d] = None
           Snapped ==
             pc \in {"set", "record"} =>
               /\ pre.by # cur /\ pre.cfg # cur
               /\ \A r \in Rollouts : pre.cfg = r => targets[r][dev] # None
           Known(r, d) == targets[r][d] # None \/ (pc = "record" /\ cur = r /\ dev = d)
<1>3. \A r \in Rollouts, d \in Device : (kv[d].by = r \/ kv[d].cfg = r) => Known(r, d)
  BY DEF TouchedIsRecorded
<1>4. Records /\ Listed /\ Snapped
  BY DEF TouchedIsRecorded
<1>5. ASSUME \A r \in Rollouts, d \in Device : (kv'[d].by = r \/ kv'[d].cfg = r) => Known(r, d)',
             Records', Listed', Snapped'
      PROVE  TouchedIsRecorded'
  BY <1>5 DEF TouchedIsRecorded
<1>6. ASSUME kv' = kv, targets' = targets, pc # "record",
             pc' \in {"idle", "apply", "rollback", "revertpub"}
      PROVE  TouchedIsRecorded'
  BY <1>3, <1>4, <1>5, <1>6
<1>7. ASSUME UNCHANGED <<kv, targets, opVars>> PROVE TouchedIsRecorded'
  BY <1>7 DEF TouchedIsRecorded, opVars
<1>8. ASSUME ApplyStage PROVE TouchedIsRecorded'
  <2>1. /\ kv' = kv /\ targets' = targets /\ cur' = cur /\ pc = "apply" /\ pc' = "loop"
        /\ \A d \in todo' : targets[cur][d] = None
    BY <1>1, <1>8, RolloutAssumption
       DEF ApplyStage, Recorded, StageTargets, shadowVars, storeVars, OperationInv
  <2>2. QED
    BY <1>3, <1>4, <1>5, <2>1
<1>9. ASSUME NEW d \in Device, Snapshot(d) PROVE TouchedIsRecorded'
  <2>1. /\ kv' = kv /\ targets' = targets /\ cur' = cur /\ pc = "loop" /\ d \in todo
        /\ cur \in Rollouts /\ todo' \subseteq todo
    BY <1>1, <1>9 DEF Snapshot, Continue, shadowVars, storeVars, OperationInv
  <2>2. targets[cur][d] = None
    BY <1>4, <2>1
  <2>3. CASE pc' = "loop"
    BY <1>3, <1>4, <1>5, <2>1, <2>3
  <2>4. CASE pc' = "set"
    <3>1. pre' = [cfg |-> kv[d].cfg, by |-> kv[d].by] /\ dev' = d
      BY <1>9, <2>4 DEF Snapshot, Continue
    <3>2. Snapped'
      BY <1>3, <2>1, <2>2, <3>1
    <3>3. QED
      BY <1>3, <1>4, <1>5, <2>1, <2>4, <3>2
  <2>5. QED
    BY <1>9, <2>3, <2>4 DEF Snapshot, Continue
<1>10. ASSUME Push PROVE TouchedIsRecorded'
  <2>1. /\ targets' = targets /\ cur' = cur /\ pc = "set" /\ dev \in Device /\ cur \in Rollouts
        /\ todo' \subseteq todo
    BY <1>1, <1>10 DEF Push, Continue, storeVars, OperationInv
  <2>2. CASE kv' = kv /\ pc' = "loop"
    BY <1>3, <1>4, <1>5, <2>1, <2>2
  <2>3. CASE PutDesired(dev, cur, cur) /\ pc' = "record" /\ dev' = dev /\ pre' = pre
    <3>1. /\ kv'[dev] = [cfg |-> cur, rev |-> seq + 1, by |-> cur]
          /\ \A x \in Device \ {dev} : kv'[x] = kv[x]
      BY <1>1, <2>1, <2>3, PutEffect
    <3>2. \A r \in Rollouts, d \in Device : (kv'[d].by = r \/ kv'[d].cfg = r) => Known(r, d)'
      BY <1>3, <2>1, <2>3, <3>1
    <3>3. QED
      BY <1>4, <1>5, <2>1, <2>3, <3>2
  <2>4. QED
    BY <1>2, <1>10, <2>2, <2>3 DEF Push, Continue
<1>11. ASSUME RecordTarget PROVE TouchedIsRecorded'
  <2>1. /\ kv' = kv /\ cur' = cur /\ dev' = dev /\ todo' = todo /\ pc = "record" /\ pc' = "publish"
        /\ dev \in todo /\ todo \subseteq Device
    BY <1>1, <1>11 DEF RecordTarget, shadowVars, ProcessInv, EngineType
  <2>2. /\ cur \in Rollouts /\ dev \in Device
        /\ \A r \in Rollouts, d \in Device : (r # cur \/ d # dev) => targets'[r][d] = targets[r][d]
        /\ targets'[cur][dev] # None
        /\ \/ targets'[cur][dev] = targets[cur][dev]
           \/ targets'[cur][dev] = [pre |-> pre.cfg, by |-> pre.by, stage |-> mem[cur].stage]
    BY <1>1, <1>2, <1>11, RecordEffect
  <2>3. targets[cur][dev] = None
    BY <1>4, <2>1
  <2>4. targets'[cur][dev].pre = pre.cfg /\ targets'[cur][dev].by = pre.by
    BY <2>2, <2>3
  <2>5. \A r \in Rollouts, d \in Device : targets[r][d] # None => targets'[r][d] # None
    BY <2>2
  <2>6. \A r \in Rollouts, d \in Device : (kv'[d].by = r \/ kv'[d].cfg = r) => Known(r, d)'
    BY <1>3, <2>1, <2>2, <2>5
  <2>7. Records'
    BY <1>4, <2>1, <2>2, <2>4, <2>5
  <2>8. Listed' /\ Snapped'
    BY <1>4, <2>1, <2>2
  <2>9. QED
    BY <1>5, <2>6, <2>7, <2>8
<1>12. ASSUME PushPublish PROVE TouchedIsRecorded'
  <2>1. /\ kv' = kv /\ targets' = targets /\ cur' = cur /\ pc = "publish" /\ pc' = "loop"
        /\ todo' = todo \ {dev}
    BY <1>12 DEF PushPublish, Continue, storeVars
  <2>2. QED
    BY <1>3, <1>4, <1>5, <2>1
<1>13. ASSUME NEW d \in Device, Revert(d) PROVE TouchedIsRecorded'
  <2>1. /\ targets' = targets /\ cur \in Rollouts /\ pc = "rollback" /\ targets[cur][d] # None
        /\ pc' \in {"rollback", "revertpub"}
    BY <1>1, <1>13 DEF Revert, Continue, storeVars, OperationInv
  <2>2. CASE kv' = kv
    BY <1>6, <2>1, <2>2
  <2>3. CASE PutDesired(d, targets[cur][d].pre, cur)
    <3>1. /\ kv'[d].cfg = targets[cur][d].pre /\ kv'[d].by = cur
          /\ \A x \in Device \ {d} : kv'[x] = kv[x]
      <4>1. /\ kv'[d] = [cfg |-> targets[cur][d].pre, rev |-> seq + 1, by |-> cur]
            /\ \A x \in Device \ {d} : kv'[x] = kv[x]
        BY <1>1, <2>3, PutEffect
      <4>2. QED
        BY <4>1
    <3>2. \A r \in Rollouts, x \in Device : (kv'[x].by = r \/ kv'[x].cfg = r) => Known(r, x)'
      BY <1>3, <1>4, <2>1, <3>1
    <3>3. QED
      BY <1>4, <1>5, <2>1, <3>2
  <2>4. QED
    BY <1>13, <2>2, <2>3 DEF Revert
<1>14. ASSUME RevertPublish PROVE TouchedIsRecorded'
  BY <1>6, <1>14 DEF RevertPublish, Continue, storeVars
<1>15. ASSUME NEW d \in Device, PutRequest(d) PROVE TouchedIsRecorded'
  <2>1. PutDesired(d, "manual", "operator") /\ targets' = targets /\ UNCHANGED opVars
    BY <1>15 DEF PutRequest, storeVars
  <2>2. /\ kv'[d].cfg \notin Rollouts /\ kv'[d].by \notin Rollouts
        /\ \A x \in Device \ {d} : kv'[x] = kv[x]
    <3>1. "manual" \notin Rollouts /\ "operator" \notin Rollouts
      BY RolloutAssumption
    <3>2. /\ kv'[d] = [cfg |-> "manual", rev |-> seq + 1, by |-> "operator"]
          /\ \A x \in Device \ {d} : kv'[x] = kv[x]
      BY <1>1, <2>1, PutEffect
    <3>3. QED
      BY <3>1, <3>2
  <2>3. QED
    BY <1>3, <1>4, <1>5, <2>1, <2>2 DEF opVars
<1>16. ASSUME (\E q \in puts : PutPublish(q)) \/ UNCHANGED vars PROVE TouchedIsRecorded'
  BY <1>7, <1>16 DEF PutPublish, storeVars, shadowVars, vars
<1>17. ASSUME \/ \E r \in Rollouts : \/ Create(r) \/ CreateError(r) \/ Pause(r) \/ Resume(r) \/ Abort(r)
                                     \/ TickRollback(r) \/ TickComplete(r) \/ TickAdvance(r)
              \/ StageApplied \/ RolledBack \/ ResumeAll
       PROVE  TouchedIsRecorded'
  <2>1. kv' = kv /\ targets' = targets /\ pc' \in {"idle", "apply", "rollback"}
    BY <1>17, OutsideEffect DEF ResumeAll, ProcessInv
  <2>2. pc # "record"
    BY <1>17 DEF Create, CreateError, Pause, Resume, Abort, TickRollback, TickComplete, TickAdvance,
        StageApplied, RolledBack, ResumeAll, ProcessInv
  <2>3. QED
    BY <1>6, <2>1, <2>2
<1>18. QED
  BY <1>2, <1>8, <1>9, <1>10, <1>11, <1>12, <1>13, <1>14, <1>15, <1>16, <1>17, NextCases
     DEF Quiet

(* A rollout's row becomes aborted only at the end of its rollback, and    *)
(* completed only on a tick of its last stage.                             *)
LEMMA EndEffect ==
  ASSUME IInv, [Next]_vars, NEW x \in Rollouts
  PROVE  /\ rows'[x].state = "aborted" =>
              rows[x].state = "aborted" \/ (RolledBack /\ x = cur)
         /\ rows'[x].state = "completed" =>
              rows[x].state = "completed" \/ TickComplete(x)
<1>1. StoreType /\ EngineType /\ OperationInv
  BY TypeParts DEF IInv
<1> DEFINE Fact == /\ rows'[x].state = "aborted" =>
                        rows[x].state = "aborted" \/ (RolledBack /\ x = cur)
                   /\ rows'[x].state = "completed" =>
                        rows[x].state = "completed" \/ TickComplete(x)
<1>2. ASSUME rows' = rows PROVE Fact
  BY <1>2
<1>3. ASSUME NEW r \in Rollouts, Create(r) \/ CreateError(r) PROVE Fact
  <2>1. rows'[x] = rows[x] \/ rows'[x] = [state |-> "running", stage |-> 0]
    BY <1>1, <1>3 DEF Create, CreateError, StoreType
  <2>2. QED
    BY <2>1
<1>4. ASSUME NEW r \in Rollouts, Pause(r) \/ Resume(r) PROVE Fact
  <2>1. PICK s \in Live : UpdateState(r, s)
    BY <1>4 DEF Pause, Resume, Live
  <2>2. rows'[x].state \in {s, rows[x].state}
    BY <1>1, <2>1, UpdateStateEffect
  <2>3. QED
    BY <2>1, <2>2 DEF Live
<1>5. ASSUME NEW r \in Rollouts, TickComplete(r) PROVE Fact
  <2>1. UpdateState(r, "completed") /\ "completed" \in Live \union Terminal
    BY <1>5 DEF TickComplete, Terminal
  <2>2. rows'[r].state \in {"completed", rows[r].state} /\ \A y \in Rollouts \ {r} : rows'[y] = rows[y]
    BY <1>1, <2>1, UpdateStateEffect
  <2>3. QED
    BY <1>5, <2>2
<1>6. ASSUME NEW r \in Rollouts, TickAdvance(r) PROVE Fact
  <2>1. rows'[r].state = rows[r].state /\ \A y \in Rollouts \ {r} : rows'[y] = rows[y]
    BY <1>1, <1>6, AdvanceEffect
  <2>2. QED
    BY <2>1
<1>7. ASSUME RolledBack PROVE Fact
  <2>1. cur \in Rollouts /\ UpdateState(cur, "aborted") /\ "aborted" \in Live \union Terminal
    BY <1>1, <1>7 DEF RolledBack, OperationInv, Terminal
  <2>2. rows'[cur].state \in {"aborted", rows[cur].state} /\ \A y \in Rollouts \ {cur} : rows'[y] = rows[y]
    BY <1>1, <2>1, UpdateStateEffect
  <2>3. QED
    BY <1>7, <2>2
<1>8. ASSUME \/ \E r \in Rollouts : Abort(r) \/ TickRollback(r)
             \/ StageApplied \/ Crash \/ ResumeAll
      PROVE  Fact
  BY <1>8 DEF Abort, TickRollback, StageApplied, Crash, ResumeAll, storeVars
<1>9. QED
  BY <1>2, <1>3, <1>4, <1>5, <1>6, <1>7, <1>8, NextCases, QuietEffect

(* A rollback takes the devices on its list off the rollout's config; an   *)
(* aborted rollout's config comes back on no device.                       *)
LEMMA NextAbort ==
  ASSUME IInv, Uptime, ProcessInv, Reliable({"kv", "audit", "target"}),
         TouchedIsRecorded, AbortProgress, [Next]_vars
  PROVE  AbortProgress'
<1>1. ShadowType /\ StoreType /\ EngineType /\ OperationInv /\ ActiveIsLive
  BY TypeParts DEF IInv
<1>2. "kv" \notin env.faults /\ "audit" \notin env.faults /\ ~Crash
  BY NoRestart DEF Reliable
<1>3. "aborted" \notin Live
  BY DEF Live
<1> DEFINE Rev(r, d, S) == targets[r][d] # None /\ (targets[r][d].pre = None \/ d \in S)
           OnNext(r, d) == kv'[d].cfg = r /\ kv'[d].by = r
<1>4. \A r \in Rollouts, d \in Device : rows[r].state = "aborted" /\ On(r, d) => Rev(r, d, {})
  BY DEF AbortProgress, Reverted
<1>5. pc \in Reverting => \A d \in Device : On(cur, d) => Rev(cur, d, todo)
  BY DEF AbortProgress, Reverted
<1>6. ASSUME \A r \in Rollouts, d \in Device : rows'[r].state = "aborted" /\ OnNext(r, d) => Rev(r, d, {})',
             pc' \in Reverting => \A d \in Device : OnNext(cur', d) => Rev(cur, d, todo)',
             pc' = "revertpub" => ~OnNext(cur', dev')
      PROVE  AbortProgress'
  BY <1>6 DEF AbortProgress, Reverted, On
<1>7. ASSUME \A r \in Rollouts : rows'[r].state = "aborted" => rows[r].state = "aborted",
             kv' = kv, targets' = targets, pc' \notin Reverting
      PROVE  AbortProgress'
  BY <1>4, <1>6, <1>7 DEF On, Reverting
<1>8. ASSUME NEW r \in Rollouts, Abort(r) \/ TickRollback(r) PROVE AbortProgress'
  <2>1. /\ kv' = kv /\ targets' = targets /\ rows' = rows /\ pc = "idle" /\ pc' = "rollback" /\ cur' = r
        /\ todo' = {d \in Recorded(r) : targets[r][d].pre # None}
    BY <1>8 DEF Abort, TickRollback, BeginRollback, Begin, shadowVars, storeVars
  <2>2. \A d \in Device : On(r, d) => targets[r][d] # None
    BY <2>1 DEF TouchedIsRecorded, On
  <2>3. \A d \in Device : On(r, d) => Rev(r, d, todo')
    BY <2>1, <2>2 DEF Recorded
  <2>4. QED
    BY <1>4, <1>6, <2>1, <2>3 DEF On
<1>9. ASSUME Push PROVE AbortProgress'
  <2>1. /\ PutDesired(dev, cur, cur) /\ targets' = targets /\ rows' = rows /\ pc' = "record"
        /\ dev \in Device /\ cur \in Rollouts /\ rows[cur].state \in Live
    BY <1>1, <1>2, <1>9 DEF Push, storeVars, OperationInv, ActiveIsLive
  <2>2. /\ kv'[dev] = [cfg |-> cur, rev |-> seq + 1, by |-> cur]
        /\ \A x \in Device \ {dev} : kv'[x] = kv[x]
    BY <1>1, <2>1, PutEffect
  <2>3. QED
    BY <1>3, <1>4, <1>6, <2>1, <2>2 DEF On, Reverting
<1>10. ASSUME RecordTarget PROVE AbortProgress'
  <2>1. kv' = kv /\ rows' = rows /\ pc' = "publish" /\ rows[cur].state \in Live
    BY <1>1, <1>10 DEF RecordTarget, shadowVars, ActiveIsLive
  <2>2. /\ cur \in Rollouts
        /\ \A r \in Rollouts, d \in Device : r # cur => targets'[r][d] = targets[r][d]
    BY <1>1, <1>10, RecordEffect
  <2>3. QED
    BY <1>3, <1>4, <1>6, <2>1, <2>2 DEF On, Reverting
<1>11. ASSUME NEW d \in Device, Revert(d) PROVE AbortProgress'
  <2>1. /\ PutDesired(d, targets[cur][d].pre, cur) /\ targets' = targets /\ rows' = rows
        /\ pc = "rollback" /\ pc' = "revertpub" /\ cur' = cur /\ todo' = todo /\ dev' = d
        /\ cur \in Rollouts /\ rows[cur].state \in Live /\ targets[cur][d] # None
    BY <1>1, <1>2, <1>11 DEF Revert, storeVars, OperationInv, ActiveIsLive
  <2>2. /\ kv'[d] = [cfg |-> targets[cur][d].pre, rev |-> seq + 1, by |-> cur]
        /\ \A x \in Device \ {d} : kv'[x] = kv[x]
    BY <1>1, <2>1, PutEffect
  <2>3. targets[cur][d].pre # cur
    BY <2>1 DEF TouchedIsRecorded
  <2>4. ~OnNext(cur, d) /\ \A r \in Rollouts \ {cur} : ~OnNext(r, d)
    BY <2>2, <2>3
  <2>5. \A r \in Rollouts, x \in Device : OnNext(r, x) => x # d /\ On(r, x)
    BY <2>1, <2>2, <2>4 DEF On
  <2>6. QED
    BY <1>3, <1>4, <1>5, <1>6, <2>1, <2>4, <2>5 DEF Reverting
<1>12. ASSUME RevertPublish PROVE AbortProgress'
  <2>1. /\ kv' = kv /\ targets' = targets /\ rows' = rows /\ pc = "revertpub" /\ pc' = "rollback"
        /\ cur' = cur /\ todo' = todo \ {dev}
    BY <1>12 DEF RevertPublish, Continue, storeVars
  <2>2. ~On(cur, dev)
    BY <2>1 DEF AbortProgress
  <2>3. QED
    BY <1>4, <1>5, <1>6, <2>1, <2>2 DEF On, Reverting
<1>13. ASSUME RolledBack PROVE AbortProgress'
  <2>1. /\ kv' = kv /\ targets' = targets /\ pc = "rollback" /\ todo = {} /\ pc' = "idle" /\ cur \in Rollouts
    BY <1>1, <1>13 DEF RolledBack, Release, shadowVars, OperationInv
  <2>2. \A r \in Rollouts : rows'[r].state = "aborted" => rows[r].state = "aborted" \/ r = cur
    BY EndEffect
  <2>3. \A d \in Device : On(cur, d) => Rev(cur, d, {})
    BY <1>5, <2>1 DEF Reverting
  <2>4. QED
    BY <1>4, <1>6, <2>1, <2>2, <2>3 DEF On, Reverting
<1>14. ASSUME NEW d \in Device, PutRequest(d) PROVE AbortProgress'
  <2>1. /\ PutDesired(d, "manual", "operator") /\ targets' = targets /\ rows' = rows
        /\ pc' = pc /\ cur' = cur /\ todo' = todo /\ dev' = dev
    BY <1>14 DEF PutRequest, storeVars, opVars
  <2>2. /\ kv'[d] = [cfg |-> "manual", rev |-> seq + 1, by |-> "operator"]
        /\ \A x \in Device \ {d} : kv'[x] = kv[x]
    BY <1>1, <2>1, PutEffect
  <2>3. \A r \in Rollouts, x \in Device : OnNext(r, x) => On(r, x)
    BY <2>2, RolloutAssumption DEF On
  <2>4. pc \in Reverting => cur \in Rollouts
    BY <1>1 DEF OperationInv, Reverting
  <2>5. pc = "revertpub" => dev \in Device /\ ~On(cur, dev)
    BY <1>1 DEF AbortProgress, OperationInv
  <2>6. QED
    BY <1>4, <1>5, <1>6, <2>1, <2>3, <2>4, <2>5 DEF Reverting
<1>15. ASSUME (\E q \in puts : PutPublish(q)) \/ UNCHANGED vars PROVE AbortProgress'
  <2>1. UNCHANGED <<kv, targets, rows, pc, cur, todo, dev>>
    BY <1>15 DEF PutPublish, vars, shadowVars, storeVars, opVars
  <2>2. QED
    BY <2>1 DEF AbortProgress, Reverted, On
<1>16. ASSUME ApplyStage \/ PushPublish \/ (\E d \in Device : Snapshot(d)) PROVE AbortProgress'
  <2>1. kv' = kv /\ targets' = targets /\ rows' = rows /\ pc' \notin Reverting
    BY <1>16 DEF ApplyStage, PushPublish, Snapshot, Continue, shadowVars, storeVars, Reverting
  <2>2. QED
    BY <1>7, <2>1
<1>17. ASSUME \/ \E r \in Rollouts : \/ Create(r) \/ CreateError(r) \/ Pause(r) \/ Resume(r)
                                     \/ TickComplete(r) \/ TickAdvance(r)
              \/ StageApplied \/ ResumeAll
       PROVE  AbortProgress'
  <2>1. kv' = kv /\ targets' = targets
    BY <1>17, OutsideEffect DEF ResumeAll, ProcessInv
  <2>2. pc' \notin Reverting /\ ~RolledBack
    <3>1. pc' \in {"idle", "apply"} /\ (pc = "idle" \/ pc = "loop")
      BY <1>17 DEF Create, CreateError, Pause, Resume, TickComplete, TickAdvance, Begin, opVars,
          StageApplied, Release, ResumeAll, ProcessInv
    <3>2. QED
      BY <3>1 DEF Reverting, RolledBack
  <2>3. \A r \in Rollouts : rows'[r].state = "aborted" => rows[r].state = "aborted"
    BY <2>2, EndEffect
  <2>4. QED
    BY <1>7, <2>1, <2>2, <2>3
<1>18. QED
  BY <1>2, <1>8, <1>9, <1>10, <1>11, <1>12, <1>13, <1>14, <1>15, <1>16, <1>17, NextCases
     DEF Quiet

(* A forward rollout reaches the devices of its stage, one by one, and a   *)
(* device once reached stays so until its rollout is rolled back.          *)
LEMMA NextProgress ==
  ASSUME IInv, Uptime, ProcessInv, Reliable({"kv", "audit", "target", "list"}),
         StageProgress, [Next]_vars
  PROVE  StageProgress'
<1>1. ShadowType /\ StoreType /\ EngineType /\ OperationInv /\ ActiveIsLive
  BY TypeParts DEF IInv
<1>2. /\ env.faults \intersect {"list", "target"} = {} /\ "kv" \notin env.faults
      /\ "audit" \notin env.faults /\ ~Crash /\ ~ResumeAll
  BY NoRestart DEF Reliable
<1> DEFINE NextReached(r, d) == kv'[d].cfg = r \/ kv'[d].by \notin {r, "nobody"}
<1>3. /\ \A r \in Rollouts : rows[r].state = "completed" =>
           \A d \in StageTargets(r, LastStage(r)) : Reached(r, d)
      /\ \A r \in Rollouts : (mem[r].state \in Live /\ (pc = "idle" \/ cur # r)) =>
           \A d \in StageTargets(r, mem[r].stage) : Reached(r, d)
      /\ \A r \in Rollouts : Forward(r) =>
           \A d \in Device : targets[r][d] # None => Reached(r, d)
      /\ pc \in InLoop =>
           \A d \in StageTargets(cur, mem[cur].stage) : Reached(cur, d) \/ d \in todo
      /\ pc \in {"record", "publish"} => Reached(cur, dev)
  BY DEF StageProgress
<1>4. ASSUME \A r \in Rollouts : rows'[r].state = "completed" =>
               \A d \in StageTargets(r, LastStage(r)) : NextReached(r, d),
             \A r \in Rollouts : (mem'[r].state \in Live /\ (pc' = "idle" \/ cur' # r)) =>
               \A d \in StageTargets(r, mem'[r].stage) : NextReached(r, d),
             \A r \in Rollouts : Forward(r)' =>
               \A d \in Device : targets'[r][d] # None => NextReached(r, d),
             pc' \in InLoop =>
               \A d \in StageTargets(cur', mem'[cur'].stage) : NextReached(cur', d) \/ d \in todo',
             pc' \in {"record", "publish"} => NextReached(cur', dev')
      PROVE  StageProgress'
  BY <1>4 DEF StageProgress, Reached, StageTargets, LastStage
<1>5. \A r \in Rollouts : \A k : StageTargets(r, k) \subseteq Device
  BY RolloutAssumption DEF StageTargets
<1>6. \A r \in Rollouts : rows'[r].state = "completed" =>
        rows[r].state = "completed" \/ TickComplete(r)
  BY EndEffect
<1>7. ASSUME kv' = kv PROVE \A r, d : Reached(r, d) => NextReached(r, d)
  BY <1>7 DEF Reached
<1>8. ASSUME NEW r \in Rollouts, Create(r) PROVE StageProgress'
  <2>1. /\ kv' = kv /\ targets' = targets /\ mem' = mem /\ pc = "idle" /\ pc' = "apply" /\ cur' = r
        /\ rows[r].state = "none"
        /\ rows'[r] = [state |-> "running", stage |-> 0]
        /\ \A x \in Rollouts \ {r} : rows'[x] = rows[x]
    BY <1>1, <1>8 DEF Create, Begin, shadowVars, procVars, StoreType
  <2>2. \A d \in Device : targets[r][d] = None
    BY <2>1 DEF ProcessInv
  <2>3. \A x \in Rollouts \ {r} : Forward(x)' => Forward(x)
    BY <2>1 DEF Forward
  <2>4. \A x \in Rollouts : rows'[x].state = "completed" => rows[x].state = "completed"
    BY <2>1
  <2>5. QED
    BY <1>3, <1>4, <1>7, <2>1, <2>2, <2>3, <2>4 DEF InLoop
<1>9. ASSUME NEW r \in Rollouts, CreateError(r) PROVE StageProgress'
  <2>1. /\ kv' = kv /\ targets' = targets /\ mem' = mem /\ pc = "idle" /\ pc' = "idle"
        /\ rows'[r] = [state |-> "running", stage |-> 0]
        /\ \A x \in Rollouts \ {r} : rows'[x] = rows[x]
    BY <1>1, <1>9 DEF CreateError, shadowVars, procVars, opVars, StoreType
  <2>2. \A x \in Rollouts : rows'[x].state = "completed" => rows[x].state = "completed"
    BY <2>1
  <2>3. \A x \in Rollouts : Forward(x)' => Forward(x)
    BY <2>1 DEF Forward
  <2>4. QED
    BY <1>3, <1>4, <1>7, <2>1, <2>2, <2>3 DEF InLoop
<1>10. ASSUME NEW r \in Rollouts, Pause(r) \/ Resume(r) PROVE StageProgress'
  <2>1. PICK s \in Live : mem' = [mem EXCEPT ![r].state = s]
    BY <1>10 DEF Pause, Resume, Live
  <2>2. /\ kv' = kv /\ targets' = targets /\ pc = "idle" /\ pc' = "idle" /\ mem[r].state \in Live
    BY <1>10 DEF Pause, Resume, shadowVars, opVars, Live
  <2>3. /\ mem'[r] = [state |-> s, stage |-> mem[r].stage]
        /\ \A x \in Rollouts \ {r} : mem'[x] = mem[x]
    BY <1>1, <2>1, MemStateEffect
  <2>4. \A x \in Rollouts : mem'[x].stage = mem[x].stage /\ (mem'[x].state \in Live => mem[x].state \in Live)
    BY <2>2, <2>3
  <2>5. \A x \in Rollouts : TickComplete(x) => mem[x].stage = LastStage(x) /\ mem[x].state \in Live
    BY DEF TickComplete, Live
  <2>6. \A x \in Rollouts : Forward(x)' => Forward(x)
    BY <2>2, <2>4 DEF Forward
  <2>7. QED
    BY <1>3, <1>4, <1>6, <1>7, <2>2, <2>4, <2>5, <2>6 DEF InLoop
<1>11. ASSUME NEW r \in Rollouts, Abort(r) \/ TickRollback(r) PROVE StageProgress'
  <2>1. /\ kv' = kv /\ targets' = targets /\ mem' = mem /\ rows' = rows
        /\ pc = "idle" /\ pc' = "rollback" /\ cur' = r
    BY <1>11 DEF Abort, TickRollback, BeginRollback, Begin, shadowVars, storeVars, procVars
  <2>2. \A x \in Rollouts : Forward(x)' => Forward(x)
    BY <2>1 DEF Forward, Applying, InLoop
  <2>3. QED
    BY <1>3, <1>4, <1>7, <2>1, <2>2 DEF InLoop
<1>12. ASSUME NEW r \in Rollouts, TickComplete(r) PROVE StageProgress'
  <2>1. /\ kv' = kv /\ targets' = targets /\ pc = "idle" /\ pc' = "idle" /\ UpdateState(r, "completed")
        /\ mem[r].state \in Live /\ mem[r].stage = LastStage(r)
    BY <1>12 DEF TickComplete, shadowVars, opVars, Live
  <2>2. mem'[r].state \notin Live /\ \A x \in Rollouts \ {r} : mem'[x] = mem[x]
    BY <1>1, <1>12 DEF TickComplete, EngineType, Inactive, Live
  <2>3. \A x \in Rollouts \ {r} : rows'[x] = rows[x]
    BY <1>1, <2>1, UpdateStateEffect DEF Terminal
  <2>4. \A x \in Rollouts : Forward(x)' => Forward(x)
    BY <2>1, <2>2 DEF Forward
  <2>5. \A x \in Rollouts : rows'[x].state = "completed" =>
          \A d \in StageTargets(x, LastStage(x)) : Reached(x, d)
    BY <1>3, <2>1, <2>3
  <2>6. \A x \in Rollouts : mem'[x].state \in Live =>
          \A d \in StageTargets(x, mem'[x].stage) : Reached(x, d)
    BY <1>3, <2>1, <2>2
  <2>7. QED
    BY <1>3, <1>4, <1>7, <2>1, <2>4, <2>5, <2>6 DEF InLoop
<1>13. ASSUME NEW r \in Rollouts, TickAdvance(r) PROVE StageProgress'
  <2>1. /\ kv' = kv /\ targets' = targets /\ pc = "idle" /\ pc' = "apply" /\ cur' = r
        /\ mem[r].state \in Live
    BY <1>13 DEF TickAdvance, Begin, shadowVars, Live
  <2>2. /\ rows'[r].state = rows[r].state
        /\ \A x \in Rollouts \ {r} : mem'[x] = mem[x] /\ rows'[x] = rows[x]
    BY <1>1, <1>13, AdvanceEffect
  <2>3. \A x \in Rollouts : rows'[x].state = rows[x].state
    BY <2>2
  <2>4. \A x \in Rollouts : Forward(x)' => Forward(x)
    BY <2>1, <2>2 DEF Forward
  <2>5. QED
    BY <1>3, <1>4, <1>7, <2>1, <2>2, <2>3, <2>4 DEF InLoop
<1>14. ASSUME ApplyStage PROVE StageProgress'
  <2>1. /\ kv' = kv /\ targets' = targets /\ mem' = mem /\ rows' = rows /\ cur' = cur /\ cur \in Rollouts
        /\ pc = "apply" /\ pc' = "loop"
        /\ todo' = StageTargets(cur, mem[cur].stage) \ Recorded(cur)
    BY <1>1, <1>2, <1>14 DEF ApplyStage, shadowVars, storeVars, procVars, OperationInv
  <2>2. \A x \in Rollouts : Forward(x)' => Forward(x)
    BY <2>1 DEF Forward, Applying, InLoop
  <2>3. \A d \in Recorded(cur) : Reached(cur, d)
    BY <1>3, <2>1 DEF Recorded, Forward, Applying
  <2>4. QED
    BY <1>3, <1>4, <1>7, <2>1, <2>2, <2>3
<1>15. ASSUME NEW d \in Device, Snapshot(d) PROVE StageProgress'
  <2>1. /\ kv' = kv /\ targets' = targets /\ mem' = mem /\ rows' = rows /\ cur' = cur /\ todo' = todo
        /\ pc = "loop" /\ pc' = "set"
    BY <1>2, <1>15 DEF Snapshot, shadowVars, storeVars, procVars
  <2>2. \A x \in Rollouts : Forward(x)' => Forward(x)
    BY <2>1 DEF Forward, Applying, InLoop
  <2>3. QED
    BY <1>3, <1>4, <1>7, <2>1, <2>2 DEF InLoop
<1>16. ASSUME NEW d \in Device, NEW c, NEW w, w # "nobody", PutDesired(d, c, w)
       PROVE  \A r, x : (x \in Device /\ Reached(r, x) /\ (r # w \/ c = r)) => NextReached(r, x)
  <2>1. /\ kv'[d] = [cfg |-> c, rev |-> seq + 1, by |-> w]
        /\ \A x \in Device \ {d} : kv'[x] = kv[x]
    BY <1>1, <1>16, PutEffect
  <2>2. QED
    BY <1>16, <2>1 DEF Reached
<1>17. ASSUME Push PROVE StageProgress'
  <2>1. /\ PutDesired(dev, cur, cur) /\ targets' = targets /\ rows' = rows /\ mem' = mem
        /\ pc = "set" /\ pc' = "record" /\ cur' = cur /\ todo' = todo /\ dev' = dev
        /\ dev \in Device /\ cur \in Rollouts
    BY <1>1, <1>2, <1>17 DEF Push, storeVars, procVars, OperationInv
  <2>2. cur # "nobody"
    BY <2>1, RolloutAssumption
  <2>3. \A r \in Rollouts, x \in Device : Reached(r, x) => NextReached(r, x)
    BY <1>16, <2>1, <2>2
  <2>4. NextReached(cur, dev)
    <3>1. kv'[dev] = [cfg |-> cur, rev |-> seq + 1, by |-> cur]
      BY <1>1, <2>1, PutEffect
    <3>2. QED
      BY <3>1
  <2>5. \A x \in Rollouts : Forward(x)' => Forward(x)
    BY <2>1 DEF Forward, Applying, InLoop
  <2>6. QED
    BY <1>3, <1>4, <1>5, <2>1, <2>3, <2>4, <2>5 DEF InLoop
<1>18. ASSUME RecordTarget PROVE StageProgress'
  <2>1. /\ kv' = kv /\ mem' = mem /\ rows' = rows /\ cur' = cur /\ todo' = todo /\ dev' = dev
        /\ pc = "record" /\ pc' = "publish"
    BY <1>18 DEF RecordTarget, shadowVars, procVars
  <2>2. /\ cur \in Rollouts /\ dev \in Device
        /\ \A r \in Rollouts, d \in Device : (r # cur \/ d # dev) => targets'[r][d] = targets[r][d]
    BY <1>1, <1>18, RecordEffect
  <2>3. \A x \in Rollouts : Forward(x)' => Forward(x)
    BY <2>1 DEF Forward, Applying, InLoop
  <2>4. Reached(cur, dev)
    BY <1>3, <2>1
  <2>5. QED
    BY <1>3, <1>4, <1>7, <2>1, <2>2, <2>3, <2>4 DEF InLoop
<1>19. ASSUME PushPublish PROVE StageProgress'
  <2>1. /\ kv' = kv /\ targets' = targets /\ mem' = mem /\ rows' = rows /\ cur' = cur
        /\ todo' = todo \ {dev} /\ pc = "publish" /\ pc' = "loop"
    BY <1>19 DEF PushPublish, Continue, storeVars, procVars
  <2>2. \A x \in Rollouts : Forward(x)' => Forward(x)
    BY <2>1 DEF Forward, Applying, InLoop
  <2>3. Reached(cur, dev)
    BY <1>3, <2>1
  <2>4. QED
    BY <1>3, <1>4, <1>7, <2>1, <2>2, <2>3 DEF InLoop
<1>20. ASSUME StageApplied PROVE StageProgress'
  <2>1. /\ kv' = kv /\ targets' = targets /\ rows' = rows /\ pc = "loop" /\ todo = {} /\ pc' = "idle"
        /\ cur \in Rollouts
        /\ mem'[cur] = IF mem[cur].state = "none" THEN [state |-> "running", stage |-> 0] ELSE mem[cur]
        /\ \A x \in Rollouts \ {cur} : mem'[x] = mem[x]
    BY <1>1, <1>20 DEF StageApplied, Release, shadowVars, storeVars, OperationInv, EngineType
  <2>2. mem'[cur].stage = mem[cur].stage
    BY <2>1 DEF ProcessInv, Inactive
  <2>3. \A d \in StageTargets(cur, mem[cur].stage) : Reached(cur, d)
    BY <1>3, <2>1 DEF InLoop
  <2>4. \A x \in Rollouts : Forward(x)' => Forward(x)
    BY <2>1 DEF Forward, Applying, InLoop
  <2>5. \A x \in Rollouts : mem'[x].state \in Live =>
          \A d \in StageTargets(x, mem'[x].stage) : Reached(x, d)
    BY <1>3, <2>1, <2>2, <2>3
  <2>6. QED
    BY <1>3, <1>4, <1>7, <2>1, <2>4, <2>5 DEF InLoop
<1>21. ASSUME NEW d \in Device, Revert(d) PROVE StageProgress'
  <2>1. /\ PutDesired(d, targets[cur][d].pre, cur) /\ targets' = targets /\ rows' = rows /\ mem' = mem
        /\ pc = "rollback" /\ pc' = "revertpub" /\ cur' = cur
        /\ cur \in Rollouts /\ rows[cur].state # "completed"
    BY <1>1, <1>2, <1>21 DEF Revert, storeVars, procVars, OperationInv, ActiveIsLive, Live
  <2>2. cur # "nobody"
    BY <2>1, RolloutAssumption
  <2>3. \A r \in Rollouts \ {cur}, x \in Device : Reached(r, x) => NextReached(r, x)
    BY <1>16, <2>1, <2>2
  <2>4. ~Forward(cur)' /\ \A x \in Rollouts \ {cur} : Forward(x)' => Forward(x)
    BY <2>1 DEF Forward, Applying, InLoop
  <2>5. QED
    BY <1>3, <1>4, <1>5, <2>1, <2>3, <2>4 DEF InLoop
<1>22. ASSUME RevertPublish PROVE StageProgress'
  <2>1. /\ kv' = kv /\ targets' = targets /\ mem' = mem /\ rows' = rows /\ cur' = cur
        /\ pc = "revertpub" /\ pc' = "rollback"
    BY <1>22 DEF RevertPublish, Continue, storeVars, procVars
  <2>2. \A x \in Rollouts : Forward(x)' => Forward(x)
    BY <2>1 DEF Forward, Applying, InLoop
  <2>3. QED
    BY <1>3, <1>4, <1>7, <2>1, <2>2 DEF InLoop
<1>23. ASSUME RolledBack PROVE StageProgress'
  <2>1. /\ kv' = kv /\ targets' = targets /\ pc = "rollback" /\ pc' = "idle" /\ cur \in Rollouts
    BY <1>1, <1>23 DEF RolledBack, Release, shadowVars, OperationInv
  <2>2. mem'[cur].state \notin Live /\ \A x \in Rollouts \ {cur} : mem'[x] = mem[x]
    BY <1>1, <1>23, <2>1 DEF RolledBack, EngineType, Inactive, Live
  <2>3. \A x \in Rollouts : ~TickComplete(x)
    BY <2>1 DEF TickComplete
  <2>4. \A x \in Rollouts : Forward(x)' => Forward(x)
    BY <2>1, <2>2 DEF Forward
  <2>5. QED
    BY <1>3, <1>4, <1>6, <1>7, <2>1, <2>2, <2>3, <2>4 DEF InLoop
<1>24. ASSUME NEW d \in Device, PutRequest(d) PROVE StageProgress'
  <2>1. /\ PutDesired(d, "manual", "operator") /\ targets' = targets /\ rows' = rows /\ mem' = mem
        /\ pc' = pc /\ cur' = cur /\ todo' = todo /\ dev' = dev
    BY <1>24 DEF PutRequest, storeVars, procVars, opVars
  <2>2. \A r \in Rollouts, x \in Device : Reached(r, x) => NextReached(r, x)
    BY <1>16, <2>1, RolloutAssumption
  <2>3. \A x \in Rollouts : Forward(x)' => Forward(x)
    BY <2>1 DEF Forward
  <2>4. /\ pc \in InLoop => cur \in Rollouts
        /\ pc \in {"record", "publish"} => cur \in Rollouts /\ dev \in Device
    BY <1>1 DEF OperationInv, InLoop
  <2>5. QED
    BY <1>3, <1>4, <1>5, <2>1, <2>2, <2>3, <2>4
<1>25. ASSUME (\E q \in puts : PutPublish(q)) \/ UNCHANGED vars PROVE StageProgress'
  <2>1. UNCHANGED <<kv, targets, rows, mem, pc, cur, todo, dev>>
    BY <1>25 DEF PutPublish, vars, shadowVars, storeVars, procVars, opVars
  <2>2. QED
    BY <2>1 DEF StageProgress, Reached, Forward, StageTargets, LastStage
<1>26. QED
  BY <1>2, <1>8, <1>9, <1>10, <1>11, <1>12, <1>13, <1>14, <1>15, <1>17, <1>18, <1>19, <1>20,
     <1>21, <1>22, <1>23, <1>24, <1>25, NextCases DEF Quiet

(* With the engine as the only writer, every revision it writes is         *)
(* published before it writes the next.                                    *)
LEMMA NextBehind ==
  ASSUME IInv, Uptime, ProcessInv, SoleWriter, OneBehind, [Next]_vars
  PROVE  OneBehind'
<1>1. ShadowType /\ EngineType /\ OperationInv
  BY TypeParts DEF IInv
<1>2. ~Crash /\ ~ResumeAll
  BY NoRestart DEF SoleWriter, Reliable
<1>3. "audit" \notin env.faults /\ "publish" \notin env.faults /\ ~(nputs < env.puts)
  BY <1>1 DEF SoleWriter, Reliable, ShadowType
<1> DEFINE Late == {"record", "publish", "revertpub"}
           InStep(d) == retained[d] = kv[d].rev
<1>4. /\ pub /\ puts = {}
      /\ \A d \in Device : InStep(d) \/ (pc \in Late /\ dev = d)
      /\ pc \in Late => rev = kv[dev].rev
  BY DEF OneBehind
<1>5. ASSUME UNCHANGED <<kv, retained, pub, puts>>, pc \notin Late, pc' \notin Late PROVE OneBehind'
  BY <1>4, <1>5 DEF OneBehind
<1>6. ASSUME NEW d \in Device, NEW c, PutDesired(d, c, cur), UNCHANGED <<retained, pub, puts>>,
             pc \notin Late, dev' = d, rev' = seq + 1, pc' \in Late
      PROVE  OneBehind'
  <2>1. /\ kv'[d] = [cfg |-> c, rev |-> seq + 1, by |-> cur]
        /\ \A x \in Device \ {d} : kv'[x] = kv[x]
    BY <1>1, <1>6, PutEffect
  <2>2. QED
    BY <1>4, <1>6, <2>1 DEF OneBehind
<1>7. ASSUME PublishDesired(dev, rev), UNCHANGED <<kv, pub, puts>>, pc \in Late, pc' \notin Late
      PROVE  OneBehind'
  <2>1. retained' = [retained EXCEPT ![dev] = rev] /\ dev \in Device
    BY <1>1, <1>3, <1>4, <1>7 DEF PublishDesired, OperationInv
  <2>2. retained'[dev] = kv[dev].rev /\ \A x \in Device \ {dev} : retained'[x] = retained[x]
    BY <1>1, <1>4, <1>7, <2>1 DEF ShadowType
  <2>3. QED
    BY <1>4, <1>7, <2>2 DEF OneBehind
<1>8. ASSUME NEW r \in Rollouts,
             \/ Create(r) \/ CreateError(r) \/ Pause(r) \/ Resume(r) \/ Abort(r)
             \/ TickRollback(r) \/ TickComplete(r) \/ TickAdvance(r)
      PROVE  OneBehind'
  <2>1. UNCHANGED <<kv, retained, pub, puts>> /\ pc \notin Late /\ pc' \notin Late
    BY <1>8 DEF Create, CreateError, Pause, Resume, Abort, TickRollback, TickComplete, TickAdvance,
        BeginRollback, Begin, shadowVars, putVars, procVars, opVars
  <2>2. QED
    BY <1>5, <2>1
<1>9. ASSUME StageApplied \/ RolledBack \/ ApplyStage \/ (\E d \in Device : Snapshot(d)) PROVE OneBehind'
  <2>1. UNCHANGED <<kv, retained, pub, puts>> /\ pc \notin Late /\ pc' \notin Late
    BY <1>9 DEF StageApplied, RolledBack, ApplyStage, Snapshot, Release, Continue, shadowVars,
        putVars, procVars
  <2>2. QED
    BY <1>5, <2>1
<1>10. ASSUME Push PROVE OneBehind'
  <2>1. UNCHANGED <<retained, pub, puts>> /\ pc = "set" /\ dev \in Device
    BY <1>1, <1>10 DEF Push, putVars, procVars, OperationInv
  <2>2. CASE PutDesired(dev, cur, cur) /\ pc' = "record" /\ rev' = seq + 1 /\ dev' = dev
    BY <1>6, <2>1, <2>2
  <2>3. CASE kv' = kv /\ pc' = "loop"
    BY <1>5, <2>1, <2>3
  <2>4. QED
    BY <1>3, <1>10, <2>2, <2>3 DEF Push, Continue
<1>11. ASSUME NEW d \in Device, Revert(d) PROVE OneBehind'
  <2>1. UNCHANGED <<retained, pub, puts>> /\ pc = "rollback"
    BY <1>11 DEF Revert, putVars, procVars
  <2>2. CASE PutDesired(d, targets[cur][d].pre, cur) /\ pc' = "revertpub" /\ rev' = seq + 1 /\ dev' = d
    BY <1>6, <2>1, <2>2
  <2>3. CASE kv' = kv /\ pc' = "rollback"
    BY <1>5, <2>1, <2>3
  <2>4. QED
    BY <1>3, <1>11, <2>2, <2>3 DEF Revert, Continue
<1>12. ASSUME RecordTarget PROVE OneBehind'
  <2>1. UNCHANGED <<kv, retained, pub, puts, dev, rev>> /\ pc \in Late /\ pc' \in Late
    BY <1>12 DEF RecordTarget, shadowVars, putVars, procVars
  <2>2. QED
    BY <1>4, <2>1 DEF OneBehind
<1>13. ASSUME PushPublish \/ RevertPublish PROVE OneBehind'
  <2>1. /\ PublishDesired(dev, rev) /\ UNCHANGED <<kv, pub, puts>>
        /\ pc \in Late /\ pc' \notin Late
    BY <1>13 DEF PushPublish, RevertPublish, Continue, putVars, procVars
  <2>2. QED
    BY <1>7, <2>1
<1>14. ASSUME (\E d \in Device : PutRequest(d)) \/ (\E q \in puts : PutPublish(q)) PROVE FALSE
  BY <1>3, <1>4, <1>14 DEF PutRequest
<1>15. ASSUME UNCHANGED vars PROVE OneBehind'
  BY <1>15 DEF OneBehind, vars, shadowVars, putVars, procVars, opVars
<1>16. QED
  BY <1>2, <1>8, <1>9, <1>10, <1>11, <1>12, <1>13, <1>14, <1>15, NextCases DEF Quiet

-----------------------------------------------------------------------------
(* A rollout's config comes onto a device in no third way.                 *)
LEMMA NextWritten ==
  ASSUME IInv, WrittenOrRestored, [Next]_vars
  PROVE  WrittenOrRestored'
<1>1. ShadowType /\ StoreType /\ EngineType /\ OperationInv
  BY TypeParts DEF IInv
<1>2. ASSUME kv' = kv, targets' = targets PROVE WrittenOrRestored'
  BY <1>2 DEF WrittenOrRestored, RestoredBy
<1>3. ASSUME NEW d \in Device, NEW c, NEW w, PutDesired(d, c, w), targets' = targets,
             \A r \in Rollouts : c = r =>
               w = r \/ (w \in Rollouts /\ targets[w][d] # None /\ c = targets[w][d].pre)
      PROVE  WrittenOrRestored'
  <2>1. /\ kv'[d].cfg = c /\ kv'[d].by = w
        /\ \A x \in Device \ {d} : kv'[x] = kv[x]
    <3>1. /\ kv'[d] = [cfg |-> c, rev |-> seq + 1, by |-> w]
          /\ \A x \in Device \ {d} : kv'[x] = kv[x]
      BY <1>1, <1>3, PutEffect
    <3>2. QED
      BY <3>1
  <2>2. ASSUME NEW r \in Rollouts, NEW y \in Device, kv'[y].cfg = r
        PROVE  kv'[y].by = r \/ \E x \in Rollouts \ {r} : RestoredBy(x, y)'
    <3>1. CASE y = d
      BY <1>3, <2>1, <2>2, <3>1 DEF RestoredBy
    <3>2. CASE y # d
      BY <1>3, <2>1, <2>2, <3>2 DEF RestoredBy, WrittenOrRestored
    <3>3. QED
      BY <3>1, <3>2
  <2>3. QED
    BY <2>2 DEF WrittenOrRestored
<1>4. ASSUME Push PROVE WrittenOrRestored'
  <2>1. dev \in Device /\ cur \in Rollouts /\ targets' = targets
    BY <1>1, <1>4 DEF Push, storeVars, OperationInv
  <2>2. CASE PutDesired(dev, cur, cur)
    BY <1>3, <2>1, <2>2
  <2>3. QED
    BY <1>2, <1>4, <2>1, <2>2 DEF Push
<1>5. ASSUME NEW d \in Device, Revert(d) PROVE WrittenOrRestored'
  <2>1. cur \in Rollouts /\ targets[cur][d] # None /\ targets' = targets
    BY <1>1, <1>5 DEF Revert, storeVars, OperationInv
  <2>2. CASE PutDesired(d, targets[cur][d].pre, cur)
    BY <1>3, <2>1, <2>2
  <2>3. QED
    BY <1>2, <1>5, <2>1, <2>2 DEF Revert
<1>6. ASSUME NEW d \in Device, PutRequest(d) PROVE WrittenOrRestored'
  <2>1. PutDesired(d, "manual", "operator") /\ targets' = targets /\ "manual" \notin Rollouts
    BY <1>6, RolloutAssumption DEF PutRequest, storeVars
  <2>2. QED
    BY <1>3, <2>1
<1>7. ASSUME RecordTarget PROVE WrittenOrRestored'
  <2>1. kv' = kv
    BY <1>7 DEF RecordTarget, shadowVars
  <2>2. \A x \in Rollouts, d \in Device : targets[x][d] # None => targets'[x][d] = targets[x][d]
    BY <1>1, <1>7 DEF RecordTarget, StoreType, OperationInv
  <2>3. \A x \in Rollouts, d \in Device : RestoredBy(x, d) => RestoredBy(x, d)'
    BY <2>1, <2>2 DEF RestoredBy
  <2>4. QED
    BY <2>1, <2>3 DEF WrittenOrRestored
<1>8. ASSUME \/ \E r \in Rollouts : \/ Create(r) \/ CreateError(r) \/ Pause(r) \/ Resume(r) \/ Abort(r)
                                    \/ TickRollback(r) \/ TickComplete(r) \/ TickAdvance(r)
             \/ ApplyStage \/ (\E d \in Device : Snapshot(d)) \/ PushPublish \/ StageApplied
             \/ RevertPublish \/ RolledBack \/ Crash \/ ResumeAll
             \/ (\E q \in puts : PutPublish(q)) \/ UNCHANGED vars
      PROVE  WrittenOrRestored'
  <2>1. kv' = kv /\ targets' = targets
    BY <1>8 DEF Create, CreateError, Pause, Resume, Abort, TickRollback, TickComplete, TickAdvance,
                ApplyStage, Snapshot, PushPublish, StageApplied, RevertPublish, RolledBack, Crash,
                ResumeAll, PutPublish, vars, shadowVars, storeVars
  <2>2. QED
    BY <1>2, <2>1
<1>9. QED
  BY <1>4, <1>5, <1>6, <1>7, <1>8 DEF Next, Operator, Tick, Step

-----------------------------------------------------------------------------
(* The conditional invariant is inductive.                                 *)
LEMMA NextSafety ==
  SafetyInv /\ [Next]_vars => SafetyInv'
<1> SUFFICES ASSUME SafetyInv, [Next]_vars PROVE SafetyInv'
  OBVIOUS
<1>1. IInv /\ Uptime /\ ProcessInv
  BY DEF SafetyInv
<1>2. IInv' /\ Uptime' /\ ProcessInv' /\ WrittenOrRestored'
  BY <1>1, NextIInv, NextUptime, NextProcess, NextWritten DEF SafetyInv
<1>3. env' = env
  BY EnvFixed
<1>4. StateWritesSucceed' => (MemoryAgrees /\ EndedIsTerminal /\ StageBounds)'
  <2>1. StateWritesSucceed' => StateWritesSucceed
    BY <1>3 DEF StateWritesSucceed
  <2>2. QED
    BY <1>1, <2>1, NextMemory, NextEnded, NextStageBounds DEF SafetyInv
<1>5. Reliable({"audit", "target"})' => TouchedIsRecorded'
  <2>1. Reliable({"audit", "target"})' => Reliable({"audit", "target"})
    BY <1>3 DEF Reliable
  <2>2. QED
    BY <1>1, <2>1, NextTouched DEF SafetyInv
<1>6. Reliable({"kv", "audit", "target"})' => AbortProgress'
  <2>1. Reliable({"kv", "audit", "target"})' =>
          Reliable({"kv", "audit", "target"}) /\ Reliable({"audit", "target"})
    BY <1>3 DEF Reliable
  <2>2. QED
    BY <1>1, <2>1, NextAbort DEF SafetyInv
<1>7. Reliable({"kv", "audit", "target", "list"})' => StageProgress'
  <2>1. Reliable({"kv", "audit", "target", "list"})' => Reliable({"kv", "audit", "target", "list"})
    BY <1>3 DEF Reliable
  <2>2. QED
    BY <1>1, <2>1, NextProgress DEF SafetyInv
<1>8. SoleWriter' => OneBehind'
  <2>1. SoleWriter' => SoleWriter
    BY <1>3 DEF SoleWriter, Reliable
  <2>2. QED
    BY <1>1, <2>1, NextBehind DEF SafetyInv
<1>9. QED
  BY <1>2, <1>4, <1>5, <1>6, <1>7, <1>8 DEF SafetyInv

(* The conditional invariant holds in every reachable state.               *)
THEOREM SafetyInvariance ==
  Spec => []SafetyInv
BY InitSafety, NextSafety, PTL DEF Spec

(* A restart between operations would load what the engine has in memory:  *)
(* Pause, Resume, advanceLocked, completeLocked and rollbackLocked write   *)
(* the row they change, whatever else fails and however often it crashes.  *)
THEOREM RestartLoadsMemory ==
  Spec => []MemoryMatchesRow
<1>1. SafetyInv => MemoryMatchesRow
  BY DEF SafetyInv, MemoryAgrees, Loaded, MemoryMatchesRow
<1>2. QED
  BY <1>1, SafetyInvariance, PTL

(* No device outside the stage in the row was written by the rollout       *)
(* (advanceLocked persists the stage before applyStage pushes to it).      *)
THEOREM StagesBoundWrites ==
  Spec => []BlastRadius
<1>1. SafetyInv => BlastRadius
  BY DEF SafetyInv, StageBounds, BlastRadius
<1>2. QED
  BY <1>1, SafetyInvariance, PTL

(* A rollout announced as completed or aborted is never active again, over *)
(* any number of crashes and restarts (ListNonTerminal, ResumeAll).        *)
THEOREM EndedStaysEnded ==
  Spec => []EndedNeverRevived
<1>1. ASSUME SafetyInv, StateWritesSucceed, NEW r \in ended PROVE mem[r] = Inactive
  <2>1. StoreType /\ EngineType /\ ActiveIsLive
    BY <1>1, TypeParts DEF SafetyInv, IInv
  <2>2. r \in Rollouts /\ rows[r].state \notin Live
    BY <1>1, <2>1 DEF SafetyInv, EndedIsTerminal, StoreType, Terminal, Live
  <2>3. mem[r].state = "none"
    BY <2>1, <2>2 DEF ActiveIsLive, EngineType
  <2>4. QED
    BY <1>1, <2>2, <2>3 DEF SafetyInv, ProcessInv
<1>2. SafetyInv => EndedNeverRevived
  BY <1>1 DEF EndedNeverRevived
<1>3. QED
  BY <1>2, SafetyInvariance, PTL

(* The snapshot RecordTarget stores is what somebody else wrote before the *)
(* rollout first touched the device, with any number of overlapping        *)
(* rollouts and PUT requests.                                              *)
THEOREM SnapshotIsOlder ==
  Spec => []SnapshotPredatesRollout
<1>1. SafetyInv => SnapshotPredatesRollout
  BY DEF SafetyInv, TouchedIsRecorded, Recorded, SnapshotPredatesRollout
<1>2. QED
  BY <1>1, SafetyInvariance, PTL

(* An aborted rollout's config is only on devices that had none before, as *)
(* rollbackLocked leaves them, or on those where the rollback of a rollout *)
(* that overlapped with it put it back, which rollbackLocked allows.       *)
THEOREM AbortedIsReverted ==
  Spec => []AbortReverts
<1>1. SafetyInv => AbortReverts
  <2>1. SUFFICES ASSUME SafetyInv, Reliable({"kv", "audit", "target"}),
                        NEW r \in Rollouts, rows[r].state = "aborted",
                        NEW d \in Device, kv[d].cfg = r
                 PROVE  \/ kv[d].by = r /\ targets[r][d] # None /\ targets[r][d].pre = None
                        \/ \E x \in Rollouts \ {r} : RestoredBy(x, d)
    BY DEF AbortReverts
  <2>2. CASE kv[d].by = r
    BY <2>1, <2>2 DEF SafetyInv, AbortProgress, Reverted, On
  <2>3. CASE kv[d].by # r
    BY <2>1, <2>3 DEF SafetyInv, WrittenOrRestored
  <2>4. QED
    BY <2>2, <2>3
<1>2. QED
  BY <1>1, SafetyInvariance, PTL

(* A completed rollout reached every device of its last stage (applyStage, *)
(* advanceLocked, completeLocked), whatever operators PUT meanwhile.       *)
THEOREM CompletedReached ==
  Spec => []ReliableCompletion
<1>1. SafetyInv => ReliableCompletion
  BY DEF SafetyInv, StageProgress, Reached, ReliableCompletion, CompletedReachesAll
<1>2. QED
  BY <1>1, SafetyInvariance, PTL

(* Between operations every retained message carries the latest revision   *)
(* when the engine is the only writer (PublishDesired).                    *)
THEOREM RetainedUpToDate ==
  Spec => []SoleWriterRetained
<1>1. SafetyInv => SoleWriterRetained
  BY DEF SafetyInv, SoleWriter, OneBehind, SoleWriterRetained, RetainedIsLatest
<1>2. QED
  BY <1>1, SafetyInvariance, PTL
=============================================================================
