------------------------------ MODULE Rollout ------------------------------
(***************************************************************************)
(* The staged rollout engine of cmd/control (internal/rollout), the device *)
(* shadow it writes to (internal/shadow: a JetStream KV bucket with a      *)
(* Postgres audit row per write, and a retained MQTT message per device),  *)
(* the PUT /v1/devices/{id}/shadow/desired handler that writes the same    *)
(* shadow without the engine's mutex, and restarts of the process.         *)
(*                                                                         *)
(* The engine's mutex makes its operations exclude each other, but every   *)
(* call an operation makes to a store or to the broker is a step of its    *)
(* own: PUT handlers run, and the process may die, between any two.        *)
(***************************************************************************)
EXTENDS Integers, FiniteSets, Sequences

CONSTANTS
  Device,         (* claimed devices                                       *)
  Rollouts,       (* rollouts an operator may create; also their configs   *)
  None,           (* no config, no device, no rollout, no target           *)
  Preconfigured,  (* devices with a desired config before any rollout      *)
  Cohort,         (* Cohort[r]: the devices SelectCohort returns           *)
  Bucket,         (* Bucket[d]: the device's hash bucket, 0..99            *)
  Percent,        (* Percent[r]: the percentages of r's stages             *)
  Criteria,       (* Criteria[r]: max rates, in percent, 0 = not checked   *)
  Scenario        (* environments: which rollouts are created, which kinds *)
                  (* of calls may fail, bounds on crashes and PUT requests *)

FaultKind == {"kv", "audit", "target", "list", "state", "resume", "publish", "mqtt"}

ASSUME RolloutAssumption ==
  /\ None \notin Device /\ None \notin Rollouts
  /\ None \notin {"old", "manual", "nobody", "operator"}
  /\ Rollouts \intersect {"old", "manual", "nobody", "operator"} = {}
  /\ Preconfigured \subseteq Device
  /\ Cohort \in [Rollouts -> SUBSET Device]
  /\ Bucket \in [Device -> 0..99]
  /\ Percent \in [Rollouts -> Seq(0..100)]
  /\ Criteria \in [Rollouts -> [rejection : 0..100, disconnect : 0..100, error : 0..100]]
  /\ Scenario \subseteq [rollouts : SUBSET Rollouts, faults : SUBSET FaultKind,
                         crashes : Nat, puts : Nat]

VARIABLES
  kv,        (* kv[d]: the desired entry: config, revision, who wrote it    *)
  seq,       (* the bucket's stream sequence, the source of revisions       *)
  retained,  (* retained[d]: revision in the device's retained MQTT message *)
  puts,      (* PUT handlers between SetDesired and PublishDesired          *)
  nputs,     (* PUT requests so far                                         *)
  rows,      (* rows[r]: the rollouts table: state and current stage        *)
  targets,   (* targets[r][d]: the rollout_targets table                    *)
  ended,     (* rollouts whose completed or aborted event was published     *)
  up,        (* the process runs                                            *)
  pub,       (* the process got its MQTT publisher at startup               *)
  mem,       (* mem[r]: Engine.active, state "none" when absent             *)
  pc,        (* where the engine operation holding the mutex is             *)
  cur,       (* its rollout                                                 *)
  todo,      (* devices its loop has yet to visit                           *)
  dev,       (* the device of the current iteration                         *)
  pre,       (* the snapshot GetDesired returned for dev                    *)
  rev,       (* the revision SetDesired returned for dev                    *)
  crashes,   (* crashes so far                                              *)
  env        (* the environment of this behaviour, chosen once              *)

shadowVars == <<kv, seq, retained>>
putVars == <<puts, nputs>>
storeVars == <<rows, targets, ended>>
procVars == <<up, pub, mem>>
opVars == <<pc, cur, todo, dev, pre, rev>>
vars == <<shadowVars, putVars, storeVars, procVars, opVars, crashes, env>>

-----------------------------------------------------------------------------
Config == Rollouts \union {"old", "manual", None}
Writer == Rollouts \union {"nobody", "operator"}
Terminal == {"completed", "aborted"}
Live == {"running", "paused"}
Target == [pre : Config, by : Writer, stage : Nat]
NoSnapshot == [cfg |-> None, by |-> "nobody"]

(* A missing rollout_targets row is told apart from every row.             *)
ASSUME NoTargetAssumption == None \notin Target

LastStage(r) == Len(Percent[r]) - 1

(* A device belongs to a stage when its bucket is below the percentage.    *)
StageTargets(r, k) == {d \in Cohort[r] : Bucket[d] < Percent[r][k + 1]}

(* Percentages increase strictly and end at 100 at most.                   *)
validate(r) ==
  /\ Percent[r] # <<>>
  /\ \A i \in 1..Len(Percent[r]) :
       Percent[r][i] <= 100 /\ Percent[r][i] > IF i = 1 THEN 0 ELSE Percent[r][i - 1]

(* Whether one of the rates exceeds its maximum (count / targeted > max).  *)
EvaluateHealth(c, targeted, rejected, disconnected, errored) ==
  LET exceeds(count, max) == max > 0 /\ 100 * count > max * targeted
  IN  /\ targeted > 0
      /\ \/ exceeds(rejected, c.rejection)
         \/ exceeds(disconnected, c.disconnect)
         \/ exceeds(errored, c.error)

Recorded(r) == {d \in Device : targets[r][d] # None}

(* The counts evaluateStageHealth may gather.  All targets count as        *)
(* disconnected when List fails, none as errored when the error signal does.*)
StageHealth(r) ==
  LET n == Cardinality(Recorded(r))
  IN  [rejected : 0..n, disconnected : 0..n, errored : 0..n]

Breached(r, h) ==
  EvaluateHealth(Criteria[r], Cardinality(Recorded(r)), h.rejected, h.disconnected, h.errored)

TypeOK ==
  /\ kv \in [Device -> [cfg : Config, rev : Nat, by : Writer]]
  /\ seq \in Nat
  /\ retained \in [Device -> Nat]
  /\ puts \subseteq [dev : Device, rev : Nat]
  /\ nputs \in Nat
  /\ rows \in [Rollouts -> [state : {"none"} \union Live \union Terminal, stage : Nat]]
  /\ targets \in [Rollouts -> [Device -> Target \union {None}]]
  /\ ended \subseteq Rollouts
  /\ up \in BOOLEAN
  /\ pub \in BOOLEAN
  /\ mem \in [Rollouts -> [state : {"none"} \union Live, stage : Nat]]
  /\ pc \in {"idle", "apply", "loop", "set", "record", "publish", "rollback", "revertpub"}
  /\ cur \in Rollouts \union {None}
  /\ todo \subseteq Device
  /\ dev \in Device \union {None}
  /\ pre \in [cfg : Config, by : Writer]
  /\ rev \in Nat
  /\ crashes \in Nat
  /\ env \in Scenario

Inactive == [state |-> "none", stage |-> 0]

Init ==
  /\ env \in Scenario
  /\ kv = [d \in Device |->
             IF d \in Preconfigured
             THEN [cfg |-> "old", rev |-> 1, by |-> "nobody"]
             ELSE [cfg |-> None, rev |-> 0, by |-> "nobody"]]
  /\ seq = 1
  /\ retained = [d \in Device |-> kv[d].rev]
  /\ puts = {}
  /\ nputs = 0
  /\ rows = [r \in Rollouts |-> Inactive]
  /\ targets = [r \in Rollouts |-> [d \in Device |-> None]]
  /\ ended = {}
  /\ up = TRUE
  /\ pub \in {TRUE} \union IF "mqtt" \in env.faults THEN {FALSE} ELSE {}
  /\ mem = [r \in Rollouts |-> Inactive]
  /\ pc = "idle"
  /\ cur = None
  /\ todo = {}
  /\ dev = None
  /\ pre = NoSnapshot
  /\ rev = 0
  /\ crashes = 0

-----------------------------------------------------------------------------
(* The shadow store and its publisher.                                     *)

(* Store.SetDesired's KV put, by writer w.                                 *)
PutDesired(d, c, w) ==
  /\ seq' = seq + 1
  /\ kv' = [kv EXCEPT ![d] = [cfg |-> c, rev |-> seq + 1, by |-> w]]

(* Publisher.PublishDesired, or a failure that is only logged.             *)
PublishDesired(d, n) ==
  \/ /\ pub
     /\ retained' = [retained EXCEPT ![d] = n]
  \/ /\ ~pub \/ "publish" \in env.faults
     /\ UNCHANGED retained

(* PUT .../shadow/desired: 503 without a publisher; a failed audit insert  *)
(* answers 500 although the KV entry is written.                           *)
PutRequest(d) ==
  /\ up /\ pub
  /\ nputs < env.puts
  /\ nputs' = nputs + 1
  /\ PutDesired(d, "manual", "operator")
  /\ \/ puts' = puts \union {[dev |-> d, rev |-> seq + 1]}
     \/ "audit" \in env.faults /\ UNCHANGED puts
  /\ UNCHANGED <<retained, storeVars, procVars, opVars, crashes, env>>

PutPublish(q) ==
  /\ q \in puts
  /\ puts' = puts \ {q}
  /\ PublishDesired(q.dev, q.rev)
  /\ UNCHANGED <<kv, seq, nputs, storeVars, procVars, opVars, crashes, env>>

-----------------------------------------------------------------------------
(* Engine operations.  Begin takes the mutex, Release returns it.          *)

Begin(l, r, S) ==
  /\ pc' = l
  /\ cur' = r
  /\ todo' = S
  /\ UNCHANGED <<dev, pre, rev>>

Release ==
  /\ pc' = "idle"
  /\ cur' = None
  /\ todo' = {}
  /\ dev' = None
  /\ pre' = NoSnapshot
  /\ rev' = 0

(* The loop at label l goes on to the next device.                         *)
Continue(l, d) ==
  /\ pc' = l
  /\ todo' = todo \ {d}
  /\ dev' = None
  /\ pre' = NoSnapshot
  /\ rev' = 0
  /\ UNCHANGED cur

(* Create: the row first, then applyStage, then the active set.            *)
Create(r) ==
  /\ up /\ pc = "idle"
  /\ r \in env.rollouts
  /\ rows[r].state = "none"
  /\ validate(r)
  /\ rows' = [rows EXCEPT ![r] = [state |-> "running", stage |-> 0]]
  /\ Begin("apply", r, {})
  /\ UNCHANGED <<shadowVars, putVars, targets, ended, procVars, crashes, env>>

(* store.Create reports an error although the row was inserted.            *)
CreateError(r) ==
  /\ up /\ pc = "idle"
  /\ "state" \in env.faults
  /\ r \in env.rollouts
  /\ rows[r].state = "none"
  /\ validate(r)
  /\ rows' = [rows EXCEPT ![r] = [state |-> "running", stage |-> 0]]
  /\ UNCHANGED <<shadowVars, putVars, targets, ended, procVars, opVars, crashes, env>>

(* Mutants of ApplyStage: targets of the stage before the one advanced to; *)
(* the whole cohort at once.                                               *)
ApplyStagePrevious ==
  /\ pc = "apply"
  /\ pc' = "loop"
  /\ todo' = StageTargets(cur, 0) \ Recorded(cur)
  /\ UNCHANGED <<shadowVars, putVars, storeVars, procVars, cur, dev, pre, rev, crashes, env>>

ApplyStageCohort ==
  /\ pc = "apply"
  /\ pc' = "loop"
  /\ todo' = Cohort[cur] \ Recorded(cur)
  /\ UNCHANGED <<shadowVars, putVars, storeVars, procVars, cur, dev, pre, rev, crashes, env>>

(* applyStage up to its loop: a failed List or ListTargets ends it.        *)
ApplyStage ==
  /\ pc = "apply"
  /\ pc' = "loop"
  /\ \/ todo' = StageTargets(cur, mem[cur].stage) \ Recorded(cur)
     \/ env.faults \intersect {"list", "target"} # {} /\ todo' = {}
  /\ UNCHANGED <<shadowVars, putVars, storeVars, procVars, cur, dev, pre, rev, crashes, env>>

(* GetDesired: the snapshot to revert to, none when there is no entry.     *)
Snapshot(d) ==
  /\ pc = "loop"
  /\ d \in todo
  /\ \/ /\ pc' = "set"
        /\ dev' = d
        /\ pre' = [cfg |-> kv[d].cfg, by |-> kv[d].by]
        /\ UNCHANGED <<cur, todo, rev>>
     \/ "kv" \in env.faults /\ Continue("loop", d)
  /\ UNCHANGED <<shadowVars, putVars, storeVars, procVars, crashes, env>>

(* SetDesired of the rollout's config.  Any error skips the device, also   *)
(* one of the audit insert that follows the KV put, or of a put whose reply*)
(* was lost (the same outcome, "audit").                                   *)
Push ==
  /\ pc = "set"
  /\ \/ /\ PutDesired(dev, cur, cur)
        /\ pc' = "record"
        /\ rev' = seq + 1
        /\ UNCHANGED <<cur, todo, dev, pre>>
     \/ "audit" \in env.faults /\ PutDesired(dev, cur, cur) /\ Continue("loop", dev)
     \/ "kv" \in env.faults /\ UNCHANGED <<kv, seq>> /\ Continue("loop", dev)
  /\ UNCHANGED <<retained, putVars, storeVars, procVars, crashes, env>>

(* Mutant of RecordTarget: the snapshot is read after the config was set.  *)
RecordTargetLate ==
  /\ pc = "record"
  /\ targets' = [targets EXCEPT ![cur][dev] =
                   IF @ = None
                   THEN [pre |-> kv[dev].cfg, by |-> kv[dev].by, stage |-> mem[cur].stage]
                   ELSE @]
  /\ pc' = "publish"
  /\ UNCHANGED <<shadowVars, putVars, rows, ended, procVars, cur, todo, dev, pre, rev, crashes, env>>

(* RecordTarget: ON CONFLICT DO NOTHING; an error is only logged.          *)
RecordTarget ==
  /\ pc = "record"
  /\ \/ targets' = [targets EXCEPT ![cur][dev] =
                      IF @ = None
                      THEN [pre |-> pre.cfg, by |-> pre.by, stage |-> mem[cur].stage]
                      ELSE @]
     \/ "target" \in env.faults /\ UNCHANGED targets
  /\ pc' = "publish"
  /\ UNCHANGED <<shadowVars, putVars, rows, ended, procVars, cur, todo, dev, pre, rev, crashes, env>>

PushPublish ==
  /\ pc = "publish"
  /\ PublishDesired(dev, rev)
  /\ Continue("loop", dev)
  /\ UNCHANGED <<kv, seq, putVars, storeVars, procVars, crashes, env>>

(* Mutant of StageApplied: Create forgets to add r to the active set.      *)
StageAppliedNotActive ==
  /\ pc = "loop"
  /\ todo = {}
  /\ Release
  /\ UNCHANGED <<shadowVars, putVars, storeVars, procVars, crashes, env>>

(* The end of applyStage; only now does Create add r to the active set.    *)
StageApplied ==
  /\ pc = "loop"
  /\ todo = {}
  /\ mem' = [mem EXCEPT ![cur] =
               IF @.state = "none" THEN [state |-> "running", stage |-> 0] ELSE @]
  /\ Release
  /\ UNCHANGED <<shadowVars, putVars, storeVars, up, pub, crashes, env>>

(* Mutant of UpdateState: a failed update falls back to an upsert of the   *)
(* row as Create writes it.                                                *)
UpdateStateResetsStage(r, s) ==
  \/ rows' = [rows EXCEPT ![r].state = s]
  \/ "state" \in env.faults /\ rows' = [rows EXCEPT ![r] = [state |-> s, stage |-> 0]]

(* UpdateState writes the row, or fails.                                   *)
UpdateState(r, s) ==
  \/ rows' = [rows EXCEPT ![r].state = s]
  \/ "state" \in env.faults /\ UNCHANGED rows

(* AdvanceStage persists the new stage, or fails.                          *)
AdvanceStage(r, k) ==
  \/ rows' = [rows EXCEPT ![r].stage = k]
  \/ "state" \in env.faults /\ UNCHANGED rows

(* Mutant of BeginRollback: only the current stage's targets are visited.  *)
BeginRollbackStage(r) ==
  Begin("rollback", r,
        {d \in Recorded(r) : targets[r][d].pre # None /\ targets[r][d].stage = mem[r].stage})

(* rollbackLocked visits the targets that have a snapshot.                 *)
BeginRollback(r) ==
  Begin("rollback", r, {d \in Recorded(r) : targets[r][d].pre # None})

(* tickOne on a breach.                                                    *)
TickRollback(r) ==
  /\ up /\ pc = "idle"
  /\ mem[r].state = "running"
  /\ \E h \in StageHealth(r) : Breached(r, h)
  /\ BeginRollback(r)
  /\ UNCHANGED <<shadowVars, putVars, storeVars, procVars, crashes, env>>

(* tickOne when healthy and baked, on the last stage: completeLocked.      *)
TickComplete(r) ==
  /\ up /\ pc = "idle"
  /\ mem[r].state = "running"
  /\ \E h \in StageHealth(r) : ~Breached(r, h)
  /\ mem[r].stage = LastStage(r)
  /\ UpdateState(r, "completed")
  /\ mem' = [mem EXCEPT ![r] = Inactive]
  /\ ended' = ended \union {r}
  /\ UNCHANGED <<shadowVars, putVars, targets, up, pub, opVars, crashes, env>>

(* tickOne when healthy and baked, on an earlier stage: advanceLocked.     *)
TickAdvance(r) ==
  /\ up /\ pc = "idle"
  /\ mem[r].state = "running"
  /\ \E h \in StageHealth(r) : ~Breached(r, h)
  /\ mem[r].stage < LastStage(r)
  /\ mem' = [mem EXCEPT ![r].stage = @ + 1]
  /\ AdvanceStage(r, mem[r].stage + 1)
  /\ Begin("apply", r, {})
  /\ UNCHANGED <<shadowVars, putVars, targets, ended, up, pub, crashes, env>>

(* One iteration of rollbackLocked; an error skips the device.             *)
Revert(d) ==
  /\ pc = "rollback"
  /\ d \in todo
  /\ \/ /\ PutDesired(d, targets[cur][d].pre, cur)
        /\ pc' = "revertpub"
        /\ dev' = d
        /\ rev' = seq + 1
        /\ UNCHANGED <<cur, todo, pre>>
     \/ "audit" \in env.faults /\ PutDesired(d, targets[cur][d].pre, cur) /\ Continue("rollback", d)
     \/ "kv" \in env.faults /\ UNCHANGED <<kv, seq>> /\ Continue("rollback", d)
  /\ UNCHANGED <<retained, putVars, storeVars, procVars, crashes, env>>

(* Mutant of RevertPublish: the revert is not published to the device.     *)
RevertPublishSkipped ==
  /\ pc = "revertpub"
  /\ Continue("rollback", dev)
  /\ UNCHANGED <<shadowVars, putVars, storeVars, procVars, crashes, env>>

RevertPublish ==
  /\ pc = "revertpub"
  /\ PublishDesired(dev, rev)
  /\ Continue("rollback", dev)
  /\ UNCHANGED <<kv, seq, putVars, storeVars, procVars, crashes, env>>

(* Mutants of RolledBack: the rollout is not deleted from the active set;  *)
(* a failed UpdateState, which may have committed, returns before deleting *)
(* it.                                                                     *)
RolledBackStaysActive ==
  /\ pc = "rollback"
  /\ todo = {}
  /\ UpdateState(cur, "aborted")
  /\ ended' = ended \union {cur}
  /\ Release
  /\ UNCHANGED <<shadowVars, putVars, targets, procVars, crashes, env>>

RolledBackReturnsError ==
  /\ pc = "rollback"
  /\ todo = {}
  /\ rows' = [rows EXCEPT ![cur].state = "aborted"]
  /\ \/ mem' = [mem EXCEPT ![cur] = Inactive]
     \/ "state" \in env.faults /\ UNCHANGED mem
  /\ ended' = ended \union {cur}
  /\ Release
  /\ UNCHANGED <<shadowVars, putVars, targets, up, pub, crashes, env>>

RolledBack ==
  /\ pc = "rollback"
  /\ todo = {}
  /\ UpdateState(cur, "aborted")
  /\ mem' = [mem EXCEPT ![cur] = Inactive]
  /\ ended' = ended \union {cur}
  /\ Release
  /\ UNCHANGED <<shadowVars, putVars, targets, up, pub, crashes, env>>

(* Mutant of Pause: the row is not updated.                                *)
PauseNotSaved(r) ==
  /\ up /\ pc = "idle"
  /\ mem[r].state = "running"
  /\ mem' = [mem EXCEPT ![r].state = "paused"]
  /\ UNCHANGED <<shadowVars, putVars, storeVars, up, pub, opVars, crashes, env>>

(* Pause and Resume change the active rollout before the row.              *)
Pause(r) ==
  /\ up /\ pc = "idle"
  /\ mem[r].state = "running"
  /\ mem' = [mem EXCEPT ![r].state = "paused"]
  /\ UpdateState(r, "paused")
  /\ UNCHANGED <<shadowVars, putVars, targets, ended, up, pub, opVars, crashes, env>>

Resume(r) ==
  /\ up /\ pc = "idle"
  /\ mem[r].state = "paused"
  /\ mem' = [mem EXCEPT ![r].state = "running"]
  /\ UpdateState(r, "running")
  /\ UNCHANGED <<shadowVars, putVars, targets, ended, up, pub, opVars, crashes, env>>

Abort(r) ==
  /\ up /\ pc = "idle"
  /\ mem[r].state \in Live
  /\ BeginRollback(r)
  /\ UNCHANGED <<shadowVars, putVars, storeVars, procVars, crashes, env>>

-----------------------------------------------------------------------------
Crash ==
  /\ up
  /\ crashes < env.crashes
  /\ crashes' = crashes + 1
  /\ up' = FALSE
  /\ mem' = [r \in Rollouts |-> Inactive]
  /\ puts' = {}
  /\ Release
  /\ UNCHANGED <<shadowVars, nputs, storeVars, pub, env>>

(* runServer: a failed MQTT connect leaves the process without a publisher *)
(* for good; a failed ResumeAll is only logged.                            *)
ResumeAll ==
  /\ ~up
  /\ up' = TRUE
  /\ pub' \in {TRUE} \union IF "mqtt" \in env.faults THEN {FALSE} ELSE {}
  /\ \/ mem' = [r \in Rollouts |-> IF rows[r].state \in Live THEN rows[r] ELSE Inactive]
     \/ "resume" \in env.faults /\ UNCHANGED mem
  /\ UNCHANGED <<shadowVars, putVars, storeVars, opVars, crashes, env>>

Operator(r) == Create(r) \/ CreateError(r) \/ Pause(r) \/ Resume(r) \/ Abort(r)
Tick(r) == TickRollback(r) \/ TickComplete(r) \/ TickAdvance(r)

Step ==
  \/ ApplyStage \/ Push \/ RecordTarget \/ PushPublish \/ StageApplied
  \/ RevertPublish \/ RolledBack
  \/ \E d \in Device : Snapshot(d) \/ Revert(d)

Next ==
  \/ \E r \in Rollouts : Operator(r) \/ Tick(r)
  \/ Step
  \/ \E d \in Device : PutRequest(d)
  \/ \E q \in puts : PutPublish(q)
  \/ Crash
  \/ ResumeAll

Spec == Init /\ [][Next]_vars

(* An operation that holds the mutex goes on, the ticker ticks, a process  *)
(* that died is restarted by its supervisor.                               *)
Fairness ==
  /\ WF_vars(Step)
  /\ WF_vars(ResumeAll)
  /\ \A r \in Rollouts : SF_vars(TickComplete(r) \/ TickAdvance(r) \/ TickRollback(r))

FairSpec == Spec /\ Fairness

-----------------------------------------------------------------------------
(* Properties.                                                             *)

(* A rollout row that says completed or aborted never changes again: no    *)
(* tick, operator request, or restart brings the rollout back, whatever    *)
(* calls fail (ListNonTerminal, completeLocked, rollbackLocked).           *)
TerminalIsFinal ==
  [][\A r \in Rollouts : rows[r].state \in Terminal => rows'[r] = rows[r]]_vars

(* The stage in the row never goes back, not even when a stage advance was *)
(* not persisted and the process restarted (advanceLocked, ResumeAll).     *)
StageNeverRegresses ==
  [][\A r \in Rollouts : rows'[r].stage >= rows[r].stage]_vars

(* No crash, and no failing call of kinds K, in this environment.          *)
Reliable(K) == env.crashes = 0 /\ env.faults \intersect K = {}

(* Writes of the rollouts table succeed; crashes may happen.               *)
StateWritesSucceed == env.faults \intersect {"state", "resume"} = {}

(* Between operations the active set is what a restart would load: what    *)
(* Pause, Resume, advanceLocked, completeLocked and rollbackLocked change  *)
(* in memory they also wrote, as long as those writes succeed.             *)
MemoryMatchesRow ==
  StateWritesSucceed /\ up /\ pc = "idle" =>
    \A r \in Rollouts : mem[r] = IF rows[r].state \in Live THEN rows[r] ELSE Inactive

(* Staged rollout: only devices of the stage in the row (or an earlier one)*)
(* were ever written by the rollout, since advanceLocked persists the stage*)
(* before applyStage pushes to it.                                         *)
BlastRadius ==
  StateWritesSucceed =>
    \A r \in Rollouts, d \in Device :
      kv[d].by = r => d \in StageTargets(r, rows[r].stage)

(* A rollout whose completed or aborted event went out never becomes active*)
(* again, across crashes at any step, as long as UpdateState succeeds.     *)
EndedNeverRevived ==
  StateWritesSucceed => \A r \in ended : mem[r] = Inactive

(* A device's snapshot is from before the first time this rollout touched  *)
(* it (RecordTarget's comment in store.go), with overlapping rollouts and  *)
(* manual PUTs; needs audit inserts and target inserts to succeed.         *)
SnapshotPredatesRollout ==
  Reliable({"audit", "target"}) =>
    \A r \in Rollouts : \A d \in Recorded(r) : targets[r][d].by # r

(* Device d runs what rollout x's rollback put back on it.                 *)
RestoredBy(x, d) == kv[d].by = x /\ targets[x][d] # None /\ kv[d].cfg = targets[x][d].pre

(* After an abort no device is left on the rollout's config as the rollout *)
(* wrote it, except one that had no config to go back to (rollbackLocked); *)
(* needs the shadow and target writes to succeed.  It may be back on that  *)
(* config, though, and only in one way: another rollout took its snapshot  *)
(* while the config was on the device, and its rollback restored the       *)
(* snapshot, whatever had become of the config's own rollout.              *)
AbortReverts ==
  Reliable({"kv", "audit", "target"}) =>
    \A r \in Rollouts : rows[r].state = "aborted" =>
      \A d \in Device : kv[d].cfg = r =>
        \/ kv[d].by = r /\ targets[r][d] # None /\ targets[r][d].pre = None
        \/ \E x \in Rollouts \ {r} : RestoredBy(x, d)

(* A completed rollout reached every device of its last stage: the device  *)
(* has the rollout's config unless somebody else wrote it since.           *)
CompletedReachesAll ==
  \A r \in Rollouts : rows[r].state = "completed" =>
    \A d \in StageTargets(r, LastStage(r)) :
      kv[d].cfg = r \/ kv[d].by \notin {r, "nobody"}

(* It does without crashes and failing reads and shadow writes, whatever   *)
(* operators PUT meanwhile (advanceLocked, applyStage, completeLocked).    *)
ReliableCompletion ==
  Reliable({"kv", "audit", "target", "list"}) => CompletedReachesAll

(* With no request in progress a device's retained message carries its     *)
(* latest desired revision, which is what a reconnecting device picks up   *)
(* (PublishDesired's comment in publisher.go).                             *)
RetainedIsLatest ==
  up /\ pc = "idle" /\ puts = {} => \A d \in Device : retained[d] = kv[d].rev

(* It does when publishes succeed and the engine is the only writer.       *)
SoleWriterRetained ==
  Reliable({"audit", "publish", "mqtt"}) /\ env.puts = 0 => RetainedIsLatest

(* A running rollout does not stay running forever: it is paused by an     *)
(* operator or ends, across restarts.                                      *)
RunningEnds ==
  \A r \in Rollouts :
    rows[r].state = "running" ~> rows[r].state \in Terminal \union {"paused"}
=============================================================================
