-------------------------- MODULE ShadowSyncProofs --------------------------
(***************************************************************************)
(* Proofs about ShadowSync, for any PUT bodies, any sensors and any number *)
(* of PUTs, lost connections, lost reports, failed subscriptions and       *)
(* restarts: type correctness, and that a device left out of the drift     *)
(* list runs what is desired.                                              *)
(***************************************************************************)
EXTENDS ShadowSync, SequenceTheorems, TLAPS

-----------------------------------------------------------------------------
(* The inductive invariant.                                                *)

(* The device runs what the entry of its revision names.                   *)
RunsOwn == cfg.rev # 0 => Runs(cfg.rev)

(* And no report comes from a run of the device still to come.             *)
RunInv ==
  /\ RunsOwn
  /\ \A k \in 1..Len(toControl) : toControl[k].run <= run
  /\ reported.run <= run

(* The revisions on their way to the device are in order, between the one  *)
(* it runs and the retained one.                                           *)
OrderInv ==
  /\ cfg.rev <= retained
  /\ \A k \in 1..Len(toDevice) : cfg.rev <= toDevice[k] /\ toDevice[k] <= retained
  /\ \A k, l \in 1..Len(toDevice) : k <= l => toDevice[k] <= toDevice[l]

(* Config c is the same as d, or one of an earlier revision.               *)
Agrees(c, d) == c.rev <= d.rev /\ (c.rev = d.rev => c = d)

(* Whatever this run of the device has loaded or sent, and what is stored  *)
(* of it, agrees with what it runs.                                        *)
ReportInv ==
  /\ \A s \in snaps : Agrees(s.cfg, cfg)
  /\ \A k \in 1..Len(toControl) : toControl[k].run = run => Agrees(toControl[k].cfg, cfg)
  /\ reported.run = run => Agrees(reported.cfg, cfg)

(* At most one handler of a connection that is gone is under way.  What it *)
(* loaded still runs, and its entry is in order too.                       *)
LateInv ==
  /\ \A h, g \in late : h = g
  /\ \A h \in late : /\ h.base = cfg /\ cfg.rev <= h.rev /\ h.rev <= retained
                     /\ \A k \in 1..Len(toDevice) : h.rev <= toDevice[k]

(* None of this holds once a revision was overtaken or two handlers        *)
(* overlapped.                                                             *)
InOrder == ~overtaken /\ ~overlapped

IInv == TypeOK /\ RunInv /\ (InOrder => OrderInv /\ LateInv /\ ReportInv)
-----------------------------------------------------------------------------
(* What applyPartial returns.                                              *)

(* A rate that passed validation gives an interval of at least 1 ms.       *)
LEMMA IntervalPositive ==
  ASSUME NEW rate \in Int, rate > 0
  PROVE  IntervalMS(rate) \in Nat \ {0}
<1>1. CASE rate > 1000
  BY <1>1 DEF IntervalMS
<1>2. CASE rate <= 1000
  <2>1. 1000 \div rate \in Int /\ 1000 \div rate >= 1
    BY <1>2, SMTT(30)
  <2>2. QED
    BY <1>2, <2>1 DEF IntervalMS
<1>3. QED
  BY <1>1, <1>2

(* An accepted entry makes a config of a config.                           *)
LEMMA ResolveType ==
  ASSUME NEW cur \in Config, NEW rev \in Nat, NEW p \in Patches, Accepts(cur, p)
  PROVE  Resolve(cur, rev, p) \in Config
<1>1. FieldsValid(p)
  BY DEF Accepts
<1>2. (IF "rate" \in DOMAIN p THEN IntervalMS(p["rate"]) ELSE cur.interval) \in Nat \ {0}
  BY <1>1, ShadowSyncAssumption, IntervalPositive DEF FieldsValid, Config
<1>3. Given(p, "sensors", cur.sensors) \in SUBSET KnownSensors
  BY <1>1 DEF FieldsValid, Given, Config
<1>4. Given(p, "batch", cur.batch) \in Nat /\ Given(p, "flush", cur.flush) \in Nat
  BY <1>1, ShadowSyncAssumption DEF FieldsValid, Given, Config
<1>5. Given(p, "mode", cur.mode) \in Mode
  BY <1>1 DEF FieldsValid, Given, Config
<1>6. QED
  BY <1>2, <1>3, <1>4, <1>5 DEF Resolve, Config

(* Config cur runs what p names.                                           *)
Carries(cur, p) ==
  \A f \in DOMAIN p :
    CASE f = "rate"    -> cur.interval = IntervalMS(p["rate"])
      [] f = "sensors" -> cur.sensors = p["sensors"]
      [] f = "batch"   -> cur.batch = p["batch"]
      [] f = "flush"   -> cur.flush = p["flush"]
      [] f = "mode"    -> cur.mode = p["mode"]

(* Applying an entry makes the device run what it names.                   *)
LEMMA ResolveCarries ==
  ASSUME NEW cur \in Config, NEW rev \in Nat, NEW p \in Patches
  PROVE  Carries(Resolve(cur, rev, p), p)
<1>1. DOMAIN p \subseteq Field
  BY ShadowSyncAssumption
<1>2. QED
  BY <1>1 DEF Carries, Resolve, Given, Field

(* Applying the entry a device already runs changes nothing: a revision    *)
(* that is delivered twice is harmless.                                    *)
LEMMA ResolveIdempotent ==
  ASSUME NEW cur \in Config, NEW p \in Patches, Carries(cur, p)
  PROVE  Resolve(cur, cur.rev, p) = cur
<1>1. /\ "rate" \in DOMAIN p => cur.interval = IntervalMS(p["rate"])
      /\ "sensors" \in DOMAIN p => cur.sensors = p["sensors"]
      /\ "batch" \in DOMAIN p => cur.batch = p["batch"]
      /\ "flush" \in DOMAIN p => cur.flush = p["flush"]
      /\ "mode" \in DOMAIN p => cur.mode = p["mode"]
  BY DEF Carries
<1>2. Resolve(cur, cur.rev, p) =
        [rev |-> cur.rev, interval |-> cur.interval, sensors |-> cur.sensors,
         batch |-> cur.batch, flush |-> cur.flush, mode |-> cur.mode]
  BY <1>1 DEF Resolve, Given
<1>3. QED
  BY <1>2 DEF Config
-----------------------------------------------------------------------------
(* Types.                                                                  *)

Report == [cfg : Config, rejected : Nat, run : Nat]

(* The constants of an environment.                                        *)
LEMMA EnvType ==
  ASSUME env \in Scenario
  PROVE  /\ env.kind \in {"agent", "fleet"}
         /\ env.puts \in Nat /\ env.losses \in Nat /\ env.drops \in Nat
         /\ env.failures \in Nat /\ env.restarts \in Nat
<1>1. env \in [kind : {"agent", "fleet"}, puts : Nat, losses : Nat,
               drops : Nat, failures : Nat, restarts : Nat]
  BY ShadowSyncAssumption
<1>2. QED
  BY <1>1

(* The default config is one, and so is the first report's place holder.   *)
LEMMA DefaultType ==
  DefaultConfig \in Config /\ DefaultConfig.rev = 0 /\ NoReport \in Report /\ NoReport.run = 0
<1>1. DefaultConfig \in Config /\ DefaultConfig.rev = 0
  BY ShadowSyncAssumption DEF DefaultConfig, Config, Mode
<1>2. QED
  BY <1>1 DEF NoReport, Report

(* A published report goes to the end of the queue, or nowhere.            *)
LEMMA PublishEffect ==
  ASSUME TypeOK, NEW rep \in Report, NEW online \in BOOLEAN, PublishReported(rep, online),
         env' = env
  PROVE  /\ toControl' = toControl \/ toControl' = Append(toControl, rep)
         /\ toControl' \in Seq(Report)
         /\ drops' \in 0..env'.drops
<1>1. toControl \in Seq(Report) /\ drops \in 0..env.drops /\ env.drops \in Nat
  BY EnvType DEF TypeOK, Report
<1>2. toControl' = toControl \/ toControl' = Append(toControl, rep)
  BY DEF PublishReported
<1>3. toControl' \in Seq(Report)
  BY <1>1, <1>2, AppendProperties
<1>4. drops' \in 0..env'.drops
  BY <1>1 DEF PublishReported
<1>5. QED
  BY <1>2, <1>3, <1>4

(* The head of a queue of revisions is one, and so is the rest.            *)
LEMMA HandledType ==
  ASSUME TypeOK, toDevice # <<>>
  PROVE  /\ Head(toDevice) \in 1..Len(desired)
         /\ Tail(toDevice) \in Seq(1..Len(desired))
         /\ desired[Head(toDevice)] \in Patches
<1>1. Head(toDevice) \in 1..Len(desired) /\ Tail(toDevice) \in Seq(1..Len(desired))
  BY HeadTailProperties DEF TypeOK
<1>2. QED
  BY <1>1, ElementOfSeq DEF TypeOK

(* What a fleet device's client leaves behind.                             *)
LEMMA LeaveClientType ==
  ASSUME TypeOK, LeaveClient
  PROVE  /\ lostcbs' \in Nat /\ late' \subseteq [rev : 1..Len(desired), base : Config]
         /\ overlapped' \in BOOLEAN
<1>1. /\ lostcbs \in Nat /\ late \subseteq [rev : 1..Len(desired), base : Config]
      /\ overlapped \in BOOLEAN /\ cfg \in Config
  BY DEF TypeOK
<1>2. CASE UNCHANGED <<late, overlapped>>
  BY <1>1, <1>2 DEF LeaveClient
<1>3. CASE toDevice # <<>> /\ late' = late \union {[rev |-> Head(toDevice), base |-> cfg]}
           /\ overlapped' = (overlapped \/ late # {})
  <2>1. [rev |-> Head(toDevice), base |-> cfg] \in [rev : 1..Len(desired), base : Config]
    BY <1>1, <1>3, HandledType
  <2>2. late' \subseteq [rev : 1..Len(desired), base : Config] /\ overlapped' \in BOOLEAN
    BY <1>1, <1>3, <2>1
  <2>3. lostcbs' \in Nat
    BY <1>1 DEF LeaveClient
  <2>4. QED
    BY <2>2, <2>3
<1>4. QED
  BY <1>2, <1>3 DEF LeaveClient

(* What the handler of a connection that is gone makes of its entry.       *)
LEMMA LateEffect ==
  ASSUME TypeOK, NEW h \in late, LateHandler(h)
  PROVE  /\ h.rev \in 1..Len(desired) /\ h.rev \in Nat /\ h.base \in Config
         /\ cfg' \in Config
         /\ \/ cfg' = cfg
            \/ /\ cfg' = Resolve(h.base, h.rev, desired[h.rev])
               /\ cfg'.rev = h.rev /\ Carries(cfg', desired[h.rev])
<1>1. h.rev \in 1..Len(desired) /\ h.base \in Config /\ cfg \in Config /\ desired \in Seq(Patches)
  BY DEF TypeOK
<1>2. desired[h.rev] \in Patches /\ h.rev \in Nat
  BY <1>1, ElementOfSeq
<1>3. CASE Accepts(h.base, desired[h.rev])
  <2>1. cfg' = Resolve(h.base, h.rev, desired[h.rev])
    BY <1>3 DEF LateHandler
  <2>2. Resolve(h.base, h.rev, desired[h.rev]) \in Config
    BY <1>1, <1>2, <1>3, ResolveType
  <2>3. Carries(Resolve(h.base, h.rev, desired[h.rev]), desired[h.rev])
    BY <1>1, <1>2, ResolveCarries
  <2>4. Resolve(h.base, h.rev, desired[h.rev]).rev = h.rev
    BY DEF Resolve
  <2>5. QED
    BY <1>1, <1>2, <2>1, <2>2, <2>3, <2>4
<1>4. CASE ~Accepts(h.base, desired[h.rev])
  BY <1>1, <1>2, <1>4 DEF LateHandler
<1>5. QED
  BY <1>3, <1>4

(* Init has the types.                                                     *)
LEMMA InitType ==
  Init => TypeOK
<1> SUFFICES ASSUME Init PROVE TypeOK
  OBVIOUS
<1>1. env.losses \in Nat /\ env.drops \in Nat /\ env.failures \in Nat /\ env.restarts \in Nat
  BY EnvType DEF Init
<1>2. /\ desired \in Seq(Patches) /\ Len(desired) = 0 /\ toDevice \in Seq(1..Len(desired))
      /\ nudges \in Seq(Nat \ {0}) /\ Len(nudges) <= 1 /\ toControl \in Seq(Report)
  BY EmptySeq DEF Init
<1>3. /\ run \in 1..(env.restarts + 1) /\ losses \in 0..env.losses /\ drops \in 0..env.drops
      /\ failed \in 0..env.failures /\ retained \in 0..Len(desired) /\ handled \in 0..Len(desired)
  BY <1>1, <1>2 DEF Init
<1>4. cfg \in Config /\ cfg.rev <= Len(desired) /\ reported \in Report
  BY <1>2, DefaultType DEF Init
<1>5. ticker \in Nat \ {0}
  BY ShadowSyncAssumption DEF Init
<1>6. QED
  BY <1>2, <1>3, <1>4, <1>5 DEF Init, TypeOK, Report

(* A step that loses something stays within the bound on losses.           *)
LEMMA DropsType ==
  ASSUME TypeOK, env' = env, drops' = drops \/ (drops < env.drops /\ drops' = drops + 1)
  PROVE  drops' \in 0..env'.drops
<1>1. drops \in 0..env.drops /\ env.drops \in Nat
  BY EnvType DEF TypeOK
<1>2. QED
  BY <1>1

(* Every step keeps the types.                                             *)
LEMMA NextType ==
  ASSUME TypeOK, [Next]_vars
  PROVE  TypeOK'
<1>1. /\ env.puts \in Nat /\ env.losses \in Nat /\ env.drops \in Nat /\ env.failures \in Nat
      /\ env.restarts \in Nat /\ Len(desired) \in Nat
  BY EnvType, LenProperties DEF TypeOK
<1>2. toControl \in Seq(Report) /\ reported \in Report /\ cfg \in Config /\ run \in Nat
  BY <1>1 DEF TypeOK, Report
<1> USE DEF controlVars, linkVars, fleetVars, loopVars, reportVars, bounds
<1>3. ASSUME NEW p \in Patches, SetDesired(p) PROVE TypeOK'
  <2>1. desired' \in Seq(Patches) /\ Len(desired') = Len(desired) + 1
    BY <1>3, AppendProperties DEF SetDesired, TypeOK
  <2>2. 1..Len(desired) \subseteq 1..Len(desired') /\ 0..Len(desired) \subseteq 0..Len(desired')
    BY <1>1, <2>1
  <2>3. toDevice' \in Seq(1..Len(desired'))
    BY <1>3, <2>2, SeqMonotonic DEF SetDesired, TypeOK
  <2>4. publishing' \subseteq 1..Len(desired') /\ drops' \in 0..env'.drops
    <3>1. publishing \subseteq 1..Len(desired') /\ Len(desired) + 1 \in 1..Len(desired')
      <4>1. publishing \subseteq 1..Len(desired)
        BY DEF TypeOK
      <4>2. Len(desired) + 1 \in 1..Len(desired')
        BY <1>1, <2>1
      <4>3. QED
        BY <2>2, <4>1, <4>2
    <3>2. publishing' \subseteq publishing \union {Len(desired) + 1}
      BY <1>3 DEF SetDesired
    <3>3. drops' \in 0..env'.drops
      BY <1>3, DropsType DEF SetDesired
    <3>4. QED
      BY <3>1, <3>2, <3>3
  <2>5. cfg' \in Config /\ cfg'.rev <= Len(desired')
    <3>1. cfg' = cfg /\ cfg.rev \in Nat /\ cfg.rev <= Len(desired)
      BY <1>2, <1>3 DEF SetDesired, TypeOK, Config
    <3>2. QED
      BY <1>1, <1>2, <2>1, <3>1
  <2>6. late' \subseteq [rev : 1..Len(desired'), base : Config]
    <3>1. late' = late /\ late \subseteq [rev : 1..Len(desired), base : Config]
      BY <1>3 DEF SetDesired, TypeOK
    <3>2. QED
      BY <2>2, <3>1
  <2>7. QED
    BY <1>3, <2>1, <2>2, <2>3, <2>4, <2>5, <2>6 DEF SetDesired, TypeOK
<1>4. ASSUME NEW r \in publishing, PublishDesired(r) PROVE TypeOK'
  <2>1. r \in 1..Len(desired) /\ desired' = desired
    BY <1>4 DEF TypeOK, PublishDesired
  <2>2. toDevice' \in Seq(1..Len(desired))
    <3>1. toDevice' = toDevice \/ toDevice' = Append(toDevice, r)
      BY <1>4 DEF PublishDesired, Deliver
    <3>2. toDevice \in Seq(1..Len(desired))
      BY DEF TypeOK
    <3>3. QED
      BY <2>1, <3>1, <3>2, AppendProperties
  <2>3. publishing' \subseteq 1..Len(desired) /\ drops' \in 0..env'.drops /\ retained' \in 0..Len(desired)
    <3>1. publishing' \subseteq publishing /\ (retained' = r \/ retained' = retained)
      BY <1>4 DEF PublishDesired
    <3>2. drops' \in 0..env'.drops
      BY <1>4, DropsType DEF PublishDesired
    <3>3. retained' \in 0..Len(desired)
      <4>1. r \in 0..Len(desired)
        BY <1>1, <2>1
      <4>2. retained \in 0..Len(desired)
        BY DEF TypeOK
      <4>3. QED
        BY <3>1, <4>1, <4>2
    <3>4. QED
      BY <3>1, <3>2, <3>3 DEF TypeOK
  <2>4. overtaken' \in BOOLEAN
    BY <1>4 DEF PublishDesired, TypeOK
  <2>5. QED
    BY <1>4, <2>1, <2>2, <2>3, <2>4 DEF PublishDesired, TypeOK
<1>5. ASSUME Connect PROVE TypeOK'
  BY <1>5 DEF Connect, TypeOK
<1>6. ASSUME Subscribe PROVE TypeOK'
  <2>1. toDevice' \in Seq(1..Len(desired))
    <3>1. retained # 0 => retained \in 1..Len(desired)
      BY <1>1 DEF TypeOK
    <3>2. QED
      BY <1>6, <3>1, AppendProperties DEF Subscribe, TypeOK
  <2>2. QED
    BY <1>6, <2>1 DEF Subscribe, TypeOK
<1>7. ASSUME SubscribeFails PROVE TypeOK'
  <2>1. failed' \in 0..env'.failures
    BY <1>1, <1>7 DEF SubscribeFails, TypeOK
  <2>2. QED
    BY <1>7, <2>1 DEF SubscribeFails, TypeOK
<1>8. ASSUME LoadConfig PROVE TypeOK'
  <2>1. snaps' \subseteq [cfg : Config, conn : Nat]
    <3>1. losses \in Nat
      BY <1>1 DEF TypeOK
    <3>2. Loaded \in [cfg : Config, conn : Nat]
      BY <1>2, <3>1 DEF Loaded
    <3>3. snaps' = snaps \union {Loaded}
      BY <1>8 DEF LoadConfig
    <3>4. snaps \subseteq [cfg : Config, conn : Nat]
      BY DEF TypeOK
    <3>5. QED
      BY <3>2, <3>3, <3>4
  <2>2. QED
    BY <1>8, <2>1 DEF LoadConfig, TypeOK
<1>9. ASSUME NEW s \in snaps, ReportOnConnect(s) PROVE TypeOK'
  <2> DEFINE rep == ToReported(s.cfg, 0)
             online == up /\ (env.kind = "agent" \/ s.conn = losses)
  <2>1. rep \in Report /\ online \in BOOLEAN
    BY <1>2 DEF ToReported, Report, TypeOK
  <2>2. PublishReported(rep, online) /\ env' = env
    BY <1>9 DEF ReportOnConnect
  <2> HIDE DEF rep, online
  <2>3. toControl' \in Seq(Report) /\ drops' \in 0..env'.drops
    BY <2>1, <2>2, PublishEffect
  <2>4. storing' \subseteq Nat
    BY <1>9 DEF ReportOnConnect, TypeOK
  <2>5. QED
    BY <1>9, <2>3, <2>4 DEF ReportOnConnect, TypeOK, Report
<1>10. Disconnected => up' \in BOOLEAN /\ onc' = "off" /\ toDevice' \in Seq(1..Len(desired))
  BY EmptySeq DEF Disconnected
<1>11. ASSUME ConnectionLost PROVE TypeOK'
  <2>1. losses' \in 0..env'.losses
    BY <1>1, <1>11 DEF ConnectionLost, TypeOK
  <2>2. /\ lostcbs' \in Nat /\ late' \subseteq [rev : 1..Len(desired), base : Config]
        /\ overlapped' \in BOOLEAN
    BY <1>11, LeaveClientType DEF ConnectionLost
  <2>3. snaps' \subseteq [cfg : Config, conn : Nat]
    <3>1. losses \in Nat /\ snaps \subseteq [cfg : Config, conn : Nat]
      BY <1>1 DEF TypeOK
    <3>2. Loaded \in [cfg : Config, conn : Nat]
      BY <1>2, <3>1 DEF Loaded
    <3>3. snaps' = snaps \/ snaps' = snaps \union {Loaded}
      BY <1>11 DEF ConnectionLost
    <3>4. QED
      BY <3>1, <3>2, <3>3
  <2>4. QED
    BY <1>10, <1>11, <2>1, <2>2, <2>3 DEF ConnectionLost, TypeOK
<1>12. ASSUME FleetRedial PROVE TypeOK'
  <2>1. failed' \in 0..env'.failures
    <3>1. failed \in 0..env.failures /\ env' = env
      BY <1>12 DEF FleetRedial, TypeOK
    <3>2. failed' = failed \/ (failed < env.failures /\ failed' = failed + 1)
      BY <1>12 DEF FleetRedial
    <3>3. QED
      BY <1>1, <3>1, <3>2
  <2>2. /\ lostcbs' \in Nat /\ late' \subseteq [rev : 1..Len(desired), base : Config]
        /\ overlapped' \in BOOLEAN
    BY <1>12, LeaveClientType DEF FleetRedial
  <2>3. QED
    BY <1>10, <1>12, <2>1, <2>2 DEF FleetRedial, TypeOK
<1>13. ASSUME Restart PROVE TypeOK'
  <2>1. run' \in 1..(env'.restarts + 1)
    BY <1>1, <1>13 DEF Restart, TypeOK
  <2>2. cfg' \in Config /\ cfg'.rev <= Len(desired') /\ handled' \in 0..Len(desired')
    BY <1>1, <1>13, DefaultType DEF Restart
  <2>3. nudges' \in Seq(Nat \ {0}) /\ Len(nudges') <= 1 /\ ticker' \in Nat \ {0}
    BY <1>13, ShadowSyncAssumption, EmptySeq DEF Restart
  <2>4. QED
    BY <1>10, <1>13, <2>1, <2>2, <2>3 DEF Restart, TypeOK
<1>14. ASSUME ConfigHandler PROVE TypeOK'
  <2> DEFINE r == Head(toDevice)
             new == Resolve(cfg, r, desired[r])
  <2>1. r \in 1..Len(desired) /\ Tail(toDevice) \in Seq(1..Len(desired)) /\ desired[r] \in Patches
    BY <1>14, HandledType DEF ConfigHandler
  <2>2. r \in Nat /\ r <= Len(desired) /\ r \in 0..Len(desired)
    BY <1>1, <2>1
  <2>3. /\ toDevice' \in Seq(1..Len(desired')) /\ handled' \in 0..Len(desired')
        /\ UNCHANGED <<env, desired, up>>
    BY <1>14, <2>1, <2>2 DEF ConfigHandler
  <2>4. CASE Reject(r)
    <3>1. ToReported(cfg, r) \in Report /\ up \in BOOLEAN
      BY <1>2, <2>2 DEF ToReported, Report, TypeOK
    <3>2. toControl' \in Seq(Report) /\ drops' \in 0..env'.drops
      BY <2>3, <2>4, <3>1, PublishEffect DEF Reject
    <3>3. QED
      BY <1>14, <2>3, <2>4, <3>2 DEF ConfigHandler, Reject, TypeOK, Report
  <2>5. CASE Accepts(cfg, desired[r]) /\ Apply(r)
    <3>1. new \in Config /\ new.rev = r
      BY <1>2, <2>1, <2>2, <2>5, ResolveType DEF Resolve
    <3>2. /\ cfg' = new /\ Nudge(new.interval) /\ PublishReported(ToReported(new, 0), up)
          /\ UNCHANGED <<ticker, busy>>
      BY <2>5 DEF Apply
    <3> HIDE DEF new
    <3>3. ToReported(new, 0) \in Report /\ up \in BOOLEAN
      BY <1>2, <3>1 DEF ToReported, Report, TypeOK
    <3>4. toControl' \in Seq(Report) /\ drops' \in 0..env'.drops
      BY <2>3, <3>2, <3>3, PublishEffect
    <3>5. nudges' \in Seq(Nat \ {0}) /\ Len(nudges') <= 1
      <4>1. new.interval \in Nat \ {0}
        BY <3>1 DEF Config
      <4>2. ASSUME NEW ms \in Nat \ {0} PROVE <<ms>> \in Seq(Nat \ {0}) /\ Len(<<ms>>) <= 1
        OBVIOUS
      <4>3. nudges' = nudges \/ nudges' = <<new.interval>>
        BY <3>2 DEF Nudge
      <4>4. QED
        <5>1. nudges \in Seq(Nat \ {0}) /\ Len(nudges) <= 1
          BY DEF TypeOK
        <5>2. CASE nudges' = <<new.interval>>
          BY <4>1, <4>2, <5>2, Zenon
        <5>3. QED
          BY <4>3, <5>1, <5>2, Zenon
    <3>6. dropped' \in BOOLEAN
      BY <3>2 DEF Nudge, TypeOK
    <3>7. cfg' \in Config /\ cfg'.rev <= Len(desired')
      BY <2>2, <2>3, <3>1, <3>2
    <3>8. QED
      BY <1>14, <2>3, <3>2, <3>4, <3>5, <3>6, <3>7 DEF ConfigHandler, TypeOK, Report
  <2>6. QED
    BY <1>14, <2>4, <2>5 DEF ConfigHandler
<1>15. ASSUME Nudged PROVE TypeOK'
  <2>1. ticker' \in Nat \ {0}
    BY <1>15, HeadTailProperties DEF Nudged, TypeOK
  <2>2. nudges' \in Seq(Nat \ {0}) /\ Len(nudges') <= 1
    BY <1>15, EmptySeq DEF Nudged
  <2>3. QED
    BY <1>15, <2>1, <2>2 DEF Nudged, TypeOK
<1>16. ASSUME Tick PROVE TypeOK'
  <2>1. ticker' \in Nat \ {0}
    BY <1>2, <1>16 DEF Tick, TypeOK, Config
  <2>2. QED
    BY <1>16, <2>1 DEF Tick, TypeOK
<1>17. ASSUME TickDone PROVE TypeOK'
  BY <1>17 DEF TickDone, TypeOK
<1>18. ASSUME OnMessage PROVE TypeOK'
  <2>1. Head(toControl) \in Report /\ Tail(toControl) \in Seq(Report)
    BY <1>2, <1>18, HeadTailProperties DEF OnMessage
  <2>2. reported' \in Report /\ stale' \in BOOLEAN
    BY <1>2, <1>18, <2>1 DEF OnMessage, PutReported, TypeOK
  <2>3. toControl' \in Seq(Report) /\ drops' \in 0..env'.drops
    BY <1>18, <2>1, DropsType DEF OnMessage
  <2>4. QED
    BY <1>18, <2>2, <2>3 DEF OnMessage, TypeOK, Report
<1>19. ASSUME Age PROVE TypeOK'
  BY <1>19 DEF Age, TypeOK
<1>20. ASSUME UNCHANGED vars PROVE TypeOK'
  BY <1>20 DEF vars, TypeOK
<1>21. ASSUME NEW c \in storing, StoreConnected(c) PROVE TypeOK'
  BY <1>21 DEF StoreConnected, TypeOK
<1>22. ASSUME LostHandler PROVE TypeOK'
  <2>1. lostcbs' \in Nat
    BY <1>22 DEF LostHandler, TypeOK
  <2>2. QED
    BY <1>22, <2>1 DEF LostHandler, TypeOK
<1>23. ASSUME NEW h \in late, LateLoad(h) PROVE TypeOK'
  <2>1. h \in [rev : 1..Len(desired), base : Config]
    BY DEF TypeOK
  <2>2. [h EXCEPT !.base = cfg] \in [rev : 1..Len(desired), base : Config]
    BY <1>2, <2>1
  <2>3. late' \subseteq [rev : 1..Len(desired), base : Config]
    BY <1>23, <2>2 DEF LateLoad, TypeOK
  <2>4. QED
    BY <1>23, <2>3 DEF LateLoad, TypeOK
<1>24. ASSUME NEW h \in late, LateHandler(h) PROVE TypeOK'
  <2>1. h.rev \in 1..Len(desired) /\ cfg' \in Config /\ (cfg' = cfg \/ cfg'.rev = h.rev)
    BY <1>24, LateEffect
  <2>2. cfg'.rev <= Len(desired)
    BY <1>1, <2>1 DEF TypeOK
  <2>3. handled' \in 0..Len(desired)
    <3>1. handled' = h.rev
      BY <1>24 DEF LateHandler
    <3>2. QED
      BY <1>1, <2>1, <3>1
  <2>4. late' \subseteq [rev : 1..Len(desired), base : Config]
    BY <1>24 DEF LateHandler, TypeOK
  <2>5. QED
    BY <1>24, <2>1, <2>2, <2>3, <2>4 DEF LateHandler, TypeOK
<1>25. QED
  BY <1>3, <1>4, <1>5, <1>6, <1>7, <1>8, <1>9, <1>11, <1>12, <1>13, <1>14, <1>15, <1>16, <1>17,
     <1>18, <1>19, <1>20, <1>21, <1>22, <1>23, <1>24 DEF Next
-----------------------------------------------------------------------------
(* Queues.                                                                 *)

(* What a queue holds after an append.                                     *)
LEMMA QueueAppend ==
  ASSUME NEW S, NEW q \in Seq(S), NEW e \in S, NEW t, t = Append(q, e)
  PROVE  \A k \in 1..Len(t) : \/ k \in 1..Len(q) /\ t[k] = q[k]
                              \/ k = Len(q) + 1 /\ t[k] = e
<1>1. /\ Len(q) \in Nat /\ Len(Append(q, e)) = Len(q) + 1 /\ Append(q, e)[Len(q) + 1] = e
      /\ \A k \in 1..Len(q) : Append(q, e)[k] = q[k]
  BY AppendProperties, LenProperties
<1>2. \A k \in 1..(Len(q) + 1) : k \in 1..Len(q) \/ k = Len(q) + 1
  BY <1>1
<1>3. QED
  BY <1>1, <1>2

(* What a queue held before its head was taken.                            *)
LEMMA QueueTail ==
  ASSUME NEW S, NEW q \in Seq(S), q # <<>>
  PROVE  /\ 1 \in 1..Len(q) /\ Head(q) = q[1]
         /\ \A k \in 1..Len(Tail(q)) : k + 1 \in 1..Len(q) /\ Tail(q)[k] = q[k + 1]
<1>1. Len(q) \in Nat \ {0}
  BY EmptySeq
<1>2. Head(q) = q[1]
  BY <1>1
<1>3. Len(Tail(q)) = Len(q) - 1 /\ \A k \in 1..Len(Tail(q)) : Tail(q)[k] = q[k + 1]
  BY HeadTailProperties
<1>4. \A k \in 1..(Len(q) - 1) : k + 1 \in 1..Len(q)
  BY <1>1
<1>5. QED
  BY <1>1, <1>2, <1>3, <1>4

-----------------------------------------------------------------------------
(* The parts of the invariant.                                             *)

(* Runs says of the device what Carries says of a config.                  *)
LEMMA RunsIsCarries ==
  ASSUME NEW r
  PROVE  Runs(r) <=> cfg.rev = r /\ Carries(cfg, desired[r])
BY DEF Runs, Carries

(* What handling a config message does: the device runs what it ran or     *)
(* what the entry names, and sends a report of that or none.  An entry     *)
(* that it runs already changes nothing.                                   *)
LEMMA HandlerEffect ==
  ASSUME TypeOK, RunInv, ConfigHandler
  PROVE  /\ \/ cfg' = cfg
            \/ cfg'.rev = Head(toDevice) /\ Carries(cfg', desired[Head(toDevice)])
         /\ cfg.rev = Head(toDevice) => cfg' = cfg
         /\ \E rep \in Report : /\ rep.cfg = cfg' /\ rep.run = run
                                /\ toControl' = toControl \/ toControl' = Append(toControl, rep)
<1> DEFINE r == Head(toDevice)
           new == Resolve(cfg, r, desired[r])
<1>1. r \in 1..Len(desired) /\ desired[r] \in Patches /\ r \in Nat /\ r # 0
  BY HandledType DEF ConfigHandler
<1>2. cfg \in Config /\ run \in Nat /\ up \in BOOLEAN /\ env' = env
  BY DEF TypeOK, ConfigHandler
<1> HIDE DEF r
<1>3. CASE Reject(r)
  <2> DEFINE rep == ToReported(cfg, r)
  <2>1. rep \in Report /\ rep.cfg = cfg /\ rep.run = run
    BY <1>1, <1>2 DEF ToReported, Report
  <2>2. PublishReported(rep, up) /\ cfg' = cfg
    BY <1>3 DEF Reject
  <2> HIDE DEF rep
  <2>3. toControl' = toControl \/ toControl' = Append(toControl, rep)
    BY <2>2 DEF PublishReported
  <2>4. QED
    BY <2>1, <2>2, <2>3 DEF r
<1>4. CASE Accepts(cfg, desired[r]) /\ Apply(r)
  <2> DEFINE rep == ToReported(new, 0)
  <2>1. new \in Config /\ new.rev = r /\ Carries(new, desired[r])
    BY <1>1, <1>2, <1>4, ResolveType, ResolveCarries DEF Resolve
  <2>2. cfg.rev = r => new = cfg
    <3>1. cfg.rev = r => Carries(cfg, desired[r])
      BY <1>1, RunsIsCarries DEF RunInv, RunsOwn
    <3>2. QED
      BY <1>1, <1>2, <3>1, ResolveIdempotent
  <2>3. cfg' = new /\ PublishReported(rep, up)
    BY <1>4 DEF Apply
  <2> HIDE DEF new
  <2>4. rep \in Report /\ rep.cfg = new /\ rep.run = run
    BY <1>2, <2>1 DEF ToReported, Report
  <2> HIDE DEF rep
  <2>5. toControl' = toControl \/ toControl' = Append(toControl, rep)
    BY <2>3 DEF PublishReported
  <2>6. QED
    BY <2>1, <2>2, <2>3, <2>4, <2>5 DEF r
<1>5. Reject(r) \/ (Accepts(cfg, desired[r]) /\ Apply(r))
  BY DEF ConfigHandler, r
<1>6. QED
  BY <1>3, <1>4, <1>5

(* A report is added to the reports on their way, or none is.              *)
LEMMA MoreReports ==
  ASSUME TypeOK, NEW rep \in Report, toControl' = toControl \/ toControl' = Append(toControl, rep)
  PROVE  \A k \in 1..Len(toControl') :
           toControl'[k] = rep \/ \E l \in 1..Len(toControl) : toControl'[k] = toControl[l]
<1>1. toControl \in Seq(Report)
  BY DEF TypeOK, Report
<1>2. CASE toControl' = toControl
  BY <1>2
<1>3. CASE toControl' = Append(toControl, rep)
  BY <1>1, <1>3, QueueAppend
<1>4. QED
  BY <1>2, <1>3

(* The reconciler takes a report off the queue.                            *)
LEMMA FewerReports ==
  ASSUME TypeOK, OnMessage
  PROVE  /\ \A k \in 1..Len(toControl') : \E l \in 1..Len(toControl) : toControl'[k] = toControl[l]
         /\ reported' = reported \/ \E l \in 1..Len(toControl) : reported' = toControl[l]
<1>1. toControl \in Seq(Report) /\ toControl # <<>> /\ toControl' = Tail(toControl)
  BY DEF TypeOK, Report, OnMessage
<1>2. /\ 1 \in 1..Len(toControl) /\ Head(toControl) = toControl[1]
      /\ \A k \in 1..Len(toControl') : k + 1 \in 1..Len(toControl) /\ toControl'[k] = toControl[k + 1]
  BY <1>1, QueueTail
<1>3. reported' = reported \/ reported' = Head(toControl)
  BY DEF OnMessage, PutReported
<1>4. QED
  BY <1>2, <1>3


(* Every step keeps RunInv.                                                *)
LEMMA NextRunInv ==
  ASSUME TypeOK, RunInv, [Next]_vars
  PROVE  RunInv'
<1> USE DEF controlVars, linkVars, fleetVars, loopVars, reportVars, bounds
<1>1. run \in Nat /\ cfg.rev \in Nat /\ cfg.rev <= Len(desired) /\ Len(desired) \in Nat
  BY LenProperties DEF TypeOK, Config
<1>2. ASSUME UNCHANGED <<desired, cfg>> PROVE RunsOwn'
  BY <1>2 DEF RunInv, RunsOwn, Runs
<1>3. ASSUME UNCHANGED <<desired, cfg, toControl, reported, run>> PROVE RunInv'
  BY <1>2, <1>3 DEF RunInv
<1>4. ASSUME NEW p \in Patches, SetDesired(p) PROVE RunInv'
  <2>1. UNCHANGED <<cfg, toControl, reported, run>> /\ desired' = Append(desired, p)
    BY <1>4 DEF SetDesired
  <2>2. cfg.rev # 0 => desired'[cfg.rev] = desired[cfg.rev]
    <3>1. desired \in Seq(Patches) /\ (cfg.rev # 0 => cfg.rev \in 1..Len(desired))
      BY <1>1 DEF TypeOK
    <3>2. QED
      BY <2>1, <3>1, AppendProperties
  <2>3. RunsOwn'
    BY <2>1, <2>2 DEF RunInv, RunsOwn, Runs
  <2>4. QED
    BY <2>1, <2>3 DEF RunInv
<1>5. ASSUME NEW s \in snaps, ReportOnConnect(s) PROVE RunInv'
  <2>1. UNCHANGED <<desired, cfg, reported, run>>
    BY <1>5 DEF ReportOnConnect
  <2>2. ToReported(s.cfg, 0) \in Report /\ ToReported(s.cfg, 0).run = run
    BY <1>1 DEF ToReported, Report, TypeOK
  <2>3. toControl' = toControl \/ toControl' = Append(toControl, ToReported(s.cfg, 0))
    BY <1>5 DEF ReportOnConnect, PublishReported
  <2>4. \A k \in 1..Len(toControl') : toControl'[k].run <= run
    BY <1>1, <2>2, <2>3, MoreReports DEF RunInv
  <2>5. QED
    BY <1>2, <2>1, <2>4 DEF RunInv
<1>6. ASSUME Restart PROVE RunInv'
  <2>1. cfg'.rev = 0 /\ run' = run + 1 /\ UNCHANGED <<toControl, reported>>
    BY <1>6, DefaultType DEF Restart
  <2>2. reported.run \in Nat /\ \A k \in 1..Len(toControl) : toControl[k].run \in Nat
    <3>1. toControl \in Seq(Report) /\ reported \in Report
      BY DEF TypeOK, Report
    <3>2. \A k \in 1..Len(toControl) : toControl[k] \in Report
      BY <3>1, ElementOfSeq
    <3>3. QED
      BY <3>1, <3>2 DEF Report
  <2>3. QED
    BY <1>1, <2>1, <2>2 DEF RunInv, RunsOwn
<1>7. ASSUME ConfigHandler PROVE RunInv'
  <2>1. UNCHANGED <<desired, reported, run>>
    BY <1>7 DEF ConfigHandler
  <2>2. PICK rep \in Report : /\ rep.cfg = cfg' /\ rep.run = run
                              /\ toControl' = toControl \/ toControl' = Append(toControl, rep)
    BY <1>7, HandlerEffect
  <2>3. \A k \in 1..Len(toControl') : toControl'[k].run <= run
    <3>1. \A k \in 1..Len(toControl') :
            toControl'[k] = rep \/ \E l \in 1..Len(toControl) : toControl'[k] = toControl[l]
      BY <2>2, MoreReports
    <3>2. run <= run /\ \A l \in 1..Len(toControl) : toControl[l].run <= run
      BY <1>1 DEF RunInv
    <3>3. QED
      BY <2>2, <3>1, <3>2
  <2>4. RunsOwn'
    <3>1. CASE cfg' = cfg
      BY <1>2, <2>1, <3>1
    <3>2. CASE cfg'.rev = Head(toDevice) /\ Carries(cfg', desired[Head(toDevice)])
      BY <2>1, <3>2 DEF RunsOwn, Runs, Carries
    <3>3. QED
      BY <1>7, <3>1, <3>2, HandlerEffect
  <2>5. QED
    BY <2>1, <2>3, <2>4 DEF RunInv
<1>8. ASSUME OnMessage PROVE RunInv'
  <2>1. UNCHANGED <<desired, cfg, run>>
    BY <1>8 DEF OnMessage
  <2>2. (\A k \in 1..Len(toControl') : toControl'[k].run <= run) /\ reported'.run <= run
    BY <1>8, FewerReports DEF RunInv
  <2>3. QED
    BY <1>2, <2>1, <2>2 DEF RunInv
<1>9. ASSUME \/ \E r \in publishing : PublishDesired(r)
             \/ Connect \/ Subscribe \/ SubscribeFails \/ LoadConfig
             \/ \E c \in storing : StoreConnected(c)
             \/ LostHandler \/ \E h \in late : LateLoad(h)
             \/ ConnectionLost \/ FleetRedial \/ Nudged \/ Tick \/ TickDone \/ Age
             \/ UNCHANGED vars
      PROVE  RunInv'
  <2>1. UNCHANGED <<desired, cfg, toControl, reported, run>>
    BY <1>9 DEF PublishDesired, Connect, Subscribe, SubscribeFails, LoadConfig, ConnectionLost,
                StoreConnected, LostHandler, LateLoad, FleetRedial, Nudged, Tick, TickDone, Age, vars
  <2>2. QED
    BY <1>3, <2>1
<1>10. ASSUME NEW h \in late, LateHandler(h) PROVE RunInv'
  <2>1. UNCHANGED <<desired, toControl, reported, run>>
    BY <1>10 DEF LateHandler
  <2>2. RunsOwn'
    <3>1. CASE cfg' = cfg
      BY <1>2, <2>1, <3>1
    <3>2. CASE cfg'.rev = h.rev /\ Carries(cfg', desired[h.rev])
      BY <2>1, <3>2 DEF RunsOwn, Runs, Carries
    <3>3. QED
      BY <1>10, <3>1, <3>2, LateEffect
  <2>3. QED
    BY <2>1, <2>2 DEF RunInv
<1>11. QED
  BY <1>4, <1>5, <1>6, <1>7, <1>8, <1>9, <1>10 DEF Next

(* A revision no older than the retained one is published, or the retained *)
(* one is sent again.                                                      *)
LEMMA PushKeepsOrder ==
  ASSUME TypeOK, OrderInv, NEW r \in 1..Len(desired), retained <= r, retained' = r, cfg' = cfg,
         toDevice' = toDevice \/ toDevice' = Append(toDevice, r)
  PROVE  OrderInv'
<1>1. /\ toDevice \in Seq(1..Len(desired)) /\ Len(toDevice) \in Nat
      /\ \A k \in 1..Len(toDevice) : toDevice[k] \in 1..Len(desired)
      /\ retained \in Nat /\ cfg.rev \in Nat /\ Len(desired) \in Nat
  <2>1. toDevice \in Seq(1..Len(desired)) /\ desired \in Seq(Patches) /\ cfg \in Config
    BY DEF TypeOK
  <2>2. Len(toDevice) \in Nat /\ Len(desired) \in Nat
    BY <2>1, LenProperties
  <2>3. \A k \in 1..Len(toDevice) : toDevice[k] \in 1..Len(desired)
    BY <2>1, ElementOfSeq
  <2>4. retained \in Nat /\ cfg.rev \in Nat
    BY <2>1, <2>2 DEF TypeOK, Config
  <2>5. QED
    BY <2>1, <2>2, <2>3, <2>4
<1>2. /\ cfg.rev <= r
      /\ \A k \in 1..Len(toDevice) : cfg.rev <= toDevice[k] /\ toDevice[k] <= r
  BY <1>1 DEF OrderInv
<1>3. CASE toDevice' = toDevice
  BY <1>2, <1>3 DEF OrderInv
<1>4. CASE toDevice' = Append(toDevice, r)
  <2>1. \A k \in 1..Len(toDevice') : \/ k \in 1..Len(toDevice) /\ toDevice'[k] = toDevice[k]
                                     \/ k = Len(toDevice) + 1 /\ toDevice'[k] = r
    BY <1>1, <1>4, QueueAppend
  <2>2. \A k \in 1..Len(toDevice') : cfg.rev <= toDevice'[k] /\ toDevice'[k] <= r
    BY <1>1, <1>2, <2>1
  <2>3. ASSUME NEW k \in 1..Len(toDevice'), NEW l \in 1..Len(toDevice'), k <= l
        PROVE  toDevice'[k] <= toDevice'[l]
    <3>1. CASE l \in 1..Len(toDevice) /\ toDevice'[l] = toDevice[l]
      <4>1. k \in 1..Len(toDevice) /\ toDevice'[k] = toDevice[k]
        BY <1>1, <2>1, <2>3, <3>1
      <4>2. QED
        BY <2>3, <3>1, <4>1 DEF OrderInv
    <3>2. CASE toDevice'[l] = r
      BY <2>2, <3>2
    <3>3. QED
      BY <2>1, <3>1, <3>2
  <2>4. QED
    BY <1>2, <2>2, <2>3 DEF OrderInv
<1>5. QED
  BY <1>3, <1>4

(* The device handles the oldest revision on its way.                      *)
LEMMA HandlerKeepsOrder ==
  ASSUME TypeOK, RunInv, OrderInv, ConfigHandler
  PROVE  OrderInv' /\ cfg.rev <= Head(toDevice) /\ Head(toDevice) \in Nat
<1>1. /\ toDevice \in Seq(1..Len(desired)) /\ toDevice # <<>>
      /\ toDevice' = Tail(toDevice) /\ retained' = retained
  BY DEF ConfigHandler, TypeOK, controlVars
<1>2. /\ 1 \in 1..Len(toDevice) /\ Head(toDevice) = toDevice[1]
      /\ \A k \in 1..Len(toDevice') : k + 1 \in 1..Len(toDevice) /\ toDevice'[k] = toDevice[k + 1]
  BY <1>1, QueueTail
<1>3. cfg.rev <= Head(toDevice) /\ Head(toDevice) <= retained
  BY <1>2 DEF OrderInv
<1>4. cfg' = cfg \/ cfg'.rev = Head(toDevice)
  BY HandlerEffect
<1>5. Head(toDevice) \in Nat
  BY <1>1, HandledType
<1>6. \A k \in 1..Len(toDevice') : toDevice[1] <= toDevice'[k] /\ cfg.rev <= toDevice'[k]
  BY <1>2 DEF OrderInv
<1>7. \A k \in 1..Len(toDevice') : cfg'.rev <= toDevice'[k] /\ toDevice'[k] <= retained
  BY <1>2, <1>4, <1>6 DEF OrderInv
<1>8. cfg'.rev <= retained
  BY <1>3, <1>4 DEF OrderInv
<1>9. \A k, l \in 1..Len(toDevice') : k <= l => toDevice'[k] <= toDevice'[l]
  BY <1>2 DEF OrderInv
<1>10. QED
  BY <1>1, <1>3, <1>5, <1>7, <1>8, <1>9 DEF OrderInv

(* A handler of a connection that is gone, with nothing beside it: what it *)
(* stores is what ran, or of a later revision.                             *)
LEMMA LateHandlerOrder ==
  ASSUME TypeOK, RunInv, LateInv, NEW h \in late, LateHandler(h)
  PROVE  /\ cfg' = cfg \/ cfg.rev < cfg'.rev
         /\ cfg' = cfg \/ cfg'.rev = h.rev
         /\ late' = {}
<1>1. h.base = cfg /\ cfg.rev <= h.rev /\ \A g \in late : g = h
  BY DEF LateInv
<1>2. late' = {}
  BY <1>1 DEF LateHandler
<1>3. cfg \in Config /\ cfg.rev \in Nat /\ h.rev \in Nat /\ h.rev # 0 /\ desired[h.rev] \in Patches
  <2>1. cfg \in Config /\ h.rev \in 1..Len(desired) /\ desired \in Seq(Patches)
    BY DEF TypeOK
  <2>2. QED
    BY <2>1, ElementOfSeq DEF Config
<1>4. cfg.rev = h.rev => cfg' = cfg
  <2>1. SUFFICES ASSUME cfg.rev = h.rev PROVE cfg' = cfg
    OBVIOUS
  <2>2. Carries(cfg, desired[h.rev])
    BY <1>3, <2>1, RunsIsCarries DEF RunInv, RunsOwn
  <2>3. Resolve(cfg, cfg.rev, desired[h.rev]) = cfg
    BY <1>3, <2>2, ResolveIdempotent
  <2>4. QED
    BY <1>1, <2>1, <2>3, LateEffect
<1>5. cfg' = cfg \/ cfg'.rev = h.rev
  BY LateEffect
<1>6. QED
  BY <1>1, <1>2, <1>3, <1>4, <1>5

(* Every step that publishes no revision after a later one keeps the order.*)
LEMMA NextOrderInv ==
  ASSUME TypeOK, RunInv, OrderInv, LateInv, [Next]_vars, ~overtaken'
  PROVE  OrderInv'
<1> USE DEF controlVars, linkVars, fleetVars, loopVars, reportVars, bounds
<1>1. ASSUME UNCHANGED <<retained, cfg, toDevice>> PROVE OrderInv'
  BY <1>1 DEF OrderInv
<1>2. ASSUME toDevice' = <<>>, cfg'.rev <= retained' PROVE OrderInv'
  <2>1. Len(toDevice') = 0
    BY <1>2
  <2>2. 1..Len(toDevice') = {}
    BY <2>1
  <2>3. QED
    BY <1>2, <2>2 DEF OrderInv
<1>3. ASSUME NEW r \in publishing, PublishDesired(r) PROVE OrderInv'
  <2>1. r \in 1..Len(desired) /\ cfg' = cfg
    BY <1>3 DEF PublishDesired, TypeOK
  <2>2. CASE retained' = r /\ overtaken' = (overtaken \/ r < retained) /\ Deliver(r)
    <3>1. retained <= r
      <4>1. ~(r < retained)
        BY <2>2
      <4>2. retained \in 0..Len(desired) /\ Len(desired) \in Nat
        BY LenProperties DEF TypeOK
      <4>3. QED
        BY <2>1, <4>1, <4>2
    <3>2. toDevice' = toDevice \/ toDevice' = Append(toDevice, r)
      BY <2>2 DEF Deliver
    <3>3. QED
      BY <2>1, <2>2, <3>1, <3>2, PushKeepsOrder
  <2>3. CASE UNCHANGED <<retained, overtaken, toDevice>>
    BY <1>1, <2>1, <2>3
  <2>4. QED
    BY <1>3, <2>2, <2>3 DEF PublishDesired
<1>4. ASSUME Subscribe PROVE OrderInv'
  <2>1. CASE retained = 0
    BY <1>1, <1>4, <2>1 DEF Subscribe
  <2>2. CASE retained # 0
    <3>1. retained \in 1..Len(desired) /\ retained <= retained
      <4>1. retained \in 0..Len(desired) /\ Len(desired) \in Nat
        BY LenProperties DEF TypeOK
      <4>2. QED
        BY <2>2, <4>1
    <3>2. retained' = retained /\ cfg' = cfg /\ toDevice' = Append(toDevice, retained)
      BY <1>4, <2>2 DEF Subscribe
    <3>3. QED
      BY <3>1, <3>2, PushKeepsOrder
  <2>3. QED
    BY <2>1, <2>2
<1>5. ASSUME ConnectionLost \/ FleetRedial PROVE OrderInv'
  BY <1>2, <1>5 DEF ConnectionLost, FleetRedial, Disconnected, OrderInv
<1>6. ASSUME Restart PROVE OrderInv'
  <2>1. toDevice' = <<>> /\ cfg'.rev = 0 /\ retained' = retained
    BY <1>6, DefaultType DEF Restart, Disconnected
  <2>2. 0 <= retained
    BY LenProperties DEF TypeOK
  <2>3. QED
    BY <1>2, <2>1, <2>2
<1>7. ASSUME ConfigHandler PROVE OrderInv'
  BY <1>7, HandlerKeepsOrder
<1>8. ASSUME \/ \E p \in Patches : SetDesired(p)
             \/ \E s \in snaps : ReportOnConnect(s)
             \/ Connect \/ SubscribeFails \/ LoadConfig
             \/ \E c \in storing : StoreConnected(c)
             \/ LostHandler \/ \E h \in late : LateLoad(h)
             \/ OnMessage \/ Nudged \/ Tick \/ TickDone \/ Age
             \/ UNCHANGED vars
      PROVE  OrderInv'
  <2>1. UNCHANGED <<retained, cfg, toDevice>>
    BY <1>8 DEF SetDesired, ReportOnConnect, Connect, SubscribeFails, LoadConfig, OnMessage,
                StoreConnected, LostHandler, LateLoad, Nudged, Tick, TickDone, Age, vars
  <2>2. QED
    BY <1>1, <2>1
<1>9. ASSUME NEW h \in late, LateHandler(h) PROVE OrderInv'
  <2>1. UNCHANGED <<retained, toDevice>> /\ (cfg' = cfg \/ cfg'.rev = h.rev)
    BY <1>9, LateHandlerOrder DEF LateHandler
  <2>2. h.rev <= retained /\ \A k \in 1..Len(toDevice) : h.rev <= toDevice[k]
    BY DEF LateInv
  <2>3. QED
    BY <2>1, <2>2 DEF OrderInv
<1>10. QED
  BY <1>3, <1>4, <1>5, <1>6, <1>7, <1>8, <1>9 DEF Next

(* The device is left by its connection in the middle of an entry.         *)
LEMMA LeaveKeepsLate ==
  ASSUME TypeOK, OrderInv, LateInv, LeaveClient, ~overlapped', toDevice' = <<>>,
         UNCHANGED <<cfg, retained>>
  PROVE  LateInv'
<1>1. 1..Len(toDevice') = {}
  OBVIOUS
<1>2. CASE late' = late
  BY <1>1, <1>2 DEF LateInv
<1>3. CASE toDevice # <<>> /\ late = {} /\ late' = {[rev |-> Head(toDevice), base |-> cfg]}
  <2>1. 1 \in 1..Len(toDevice) /\ Head(toDevice) = toDevice[1]
    <3>1. toDevice \in Seq(1..Len(desired))
      BY DEF TypeOK
    <3>2. QED
      BY <1>3, <3>1, QueueTail
  <2>2. cfg.rev <= Head(toDevice) /\ Head(toDevice) <= retained
    BY <2>1 DEF OrderInv
  <2>3. QED
    BY <1>1, <1>3, <2>2 DEF LateInv
<1>4. QED
  <2>1. CASE UNCHANGED late
    BY <1>2, <2>1
  <2>2. CASE /\ toDevice # <<>>
             /\ late' = late \union {[rev |-> Head(toDevice), base |-> cfg]}
             /\ overlapped' = (overlapped \/ late # {})
    BY <1>3, <2>2
  <2>3. QED
    BY <2>1, <2>2 DEF LeaveClient

(* Every step that starts no handler beside another one keeps LateInv.     *)
LEMMA NextLateInv ==
  ASSUME TypeOK, RunInv, OrderInv, LateInv, [Next]_vars, ~overtaken', ~overlapped'
  PROVE  LateInv'
<1> USE DEF controlVars, linkVars, fleetVars, loopVars, reportVars, bounds
<1>1. ASSUME UNCHANGED <<retained, cfg, toDevice, late>> PROVE LateInv'
  BY <1>1 DEF LateInv
<1>2. ASSUME late' = {} PROVE LateInv'
  BY <1>2 DEF LateInv
<1>3. ASSUME NEW r \in 1..Len(desired), retained <= r, retained' = r, UNCHANGED <<cfg, late>>,
             toDevice' = toDevice \/ toDevice' = Append(toDevice, r)
      PROVE  LateInv'
  <2>1. toDevice \in Seq(1..Len(desired)) /\ Len(desired) \in Nat /\ retained \in 0..Len(desired)
    BY LenProperties DEF TypeOK
  <2>2. \A h \in late : h.rev \in 1..Len(desired)
    BY DEF TypeOK
  <2>3. \A h \in late : h.rev <= r
    BY <1>3, <2>1, <2>2 DEF LateInv
  <2>4. \A k \in 1..Len(toDevice') : toDevice'[k] = r \/ (k \in 1..Len(toDevice) /\ toDevice'[k] = toDevice[k])
    <3>1. CASE toDevice' = toDevice
      BY <3>1
    <3>2. CASE toDevice' = Append(toDevice, r)
      BY <2>1, <3>2, QueueAppend
    <3>3. QED
      BY <1>3, <3>1, <3>2
  <2>5. \A h \in late : \A k \in 1..Len(toDevice') : h.rev <= toDevice'[k]
    BY <2>3, <2>4 DEF LateInv
  <2>6. QED
    BY <1>3, <2>3, <2>5 DEF LateInv
<1>4. ASSUME NEW r \in publishing, PublishDesired(r) PROVE LateInv'
  <2>1. r \in 1..Len(desired) /\ UNCHANGED <<cfg, late>>
    BY <1>4 DEF PublishDesired, TypeOK
  <2>2. CASE retained' = r /\ overtaken' = (overtaken \/ r < retained) /\ Deliver(r)
    <3>1. retained <= r
      <4>1. ~(r < retained)
        BY <2>2
      <4>2. retained \in 0..Len(desired) /\ Len(desired) \in Nat
        BY LenProperties DEF TypeOK
      <4>3. QED
        BY <2>1, <4>1, <4>2
    <3>2. toDevice' = toDevice \/ toDevice' = Append(toDevice, r)
      BY <2>2 DEF Deliver
    <3>3. QED
      BY <1>3, <2>1, <2>2, <3>1, <3>2
  <2>3. CASE UNCHANGED <<retained, overtaken, toDevice>>
    BY <1>1, <2>1, <2>3
  <2>4. QED
    BY <1>4, <2>2, <2>3 DEF PublishDesired
<1>5. ASSUME Subscribe PROVE LateInv'
  <2>1. CASE retained = 0
    BY <1>1, <1>5, <2>1 DEF Subscribe
  <2>2. CASE retained # 0
    <3>1. retained \in 1..Len(desired) /\ retained <= retained
      <4>1. retained \in 0..Len(desired) /\ Len(desired) \in Nat
        BY LenProperties DEF TypeOK
      <4>2. QED
        BY <2>2, <4>1
    <3>2. retained' = retained /\ UNCHANGED <<cfg, late>> /\ toDevice' = Append(toDevice, retained)
      BY <1>5, <2>2 DEF Subscribe
    <3>3. QED
      BY <1>3, <3>1, <3>2
  <2>3. QED
    BY <2>1, <2>2
<1>6. ASSUME ConnectionLost \/ FleetRedial PROVE LateInv'
  BY <1>6, LeaveKeepsLate DEF ConnectionLost, FleetRedial, Disconnected
<1>7. ASSUME Restart PROVE LateInv'
  BY <1>2, <1>7 DEF Restart
<1>8. ASSUME ConfigHandler PROVE LateInv'
  BY <1>2, <1>8 DEF ConfigHandler
<1>9. ASSUME NEW h \in late, LateLoad(h) PROVE LateInv'
  BY <1>9 DEF LateLoad, LateInv
<1>10. ASSUME NEW h \in late, LateHandler(h) PROVE LateInv'
  BY <1>2, <1>10, LateHandlerOrder
<1>11. ASSUME \/ \E p \in Patches : SetDesired(p)
              \/ \E s \in snaps : ReportOnConnect(s)
              \/ Connect \/ SubscribeFails \/ LoadConfig
              \/ \E c \in storing : StoreConnected(c)
              \/ LostHandler \/ OnMessage \/ Nudged \/ Tick \/ TickDone \/ Age
              \/ UNCHANGED vars
       PROVE  LateInv'
  <2>1. UNCHANGED <<retained, cfg, toDevice, late>>
    BY <1>11 DEF SetDesired, ReportOnConnect, Connect, SubscribeFails, LoadConfig, OnMessage,
                 StoreConnected, LostHandler, Nudged, Tick, TickDone, Age, vars
  <2>2. QED
    BY <1>1, <2>1
<1>12. QED
  BY <1>4, <1>5, <1>6, <1>7, <1>8, <1>9, <1>10, <1>11 DEF Next

(* A config that agrees with what runs agrees with a later revision too.   *)
LEMMA AgreesLater ==
  ASSUME NEW c \in Config, NEW d \in Config, NEW e \in Config, Agrees(c, d),
         e = d \/ d.rev < e.rev
  PROVE  Agrees(c, e)
<1>1. c.rev \in Nat /\ d.rev \in Nat /\ e.rev \in Nat
  BY DEF Config
<1>2. CASE e = d
  BY <1>2
<1>3. CASE d.rev < e.rev
  BY <1>1, <1>3 DEF Agrees
<1>4. QED
  BY <1>2, <1>3

(* The configs in snapshots and reports.                                   *)
LEMMA ReportTypes ==
  ASSUME TypeOK
  PROVE  /\ cfg \in Config /\ run \in Nat
         /\ \A s \in snaps : s.cfg \in Config
         /\ \A k \in 1..Len(toControl) : toControl[k] \in Report /\ toControl[k].cfg \in Config
         /\ reported.cfg \in Config
<1>1. toControl \in Seq(Report) /\ reported \in Report /\ snaps \subseteq [cfg : Config, conn : Nat]
  BY DEF TypeOK, Report
<1>2. \A k \in 1..Len(toControl) : toControl[k] \in Report
  BY <1>1, ElementOfSeq
<1>3. \A s \in snaps : s.cfg \in Config
  BY <1>1
<1>4. reported.cfg \in Config /\ \A k \in 1..Len(toControl) : toControl[k].cfg \in Config
  BY <1>1, <1>2 DEF Report
<1>5. run \in 1..(env.restarts + 1) /\ cfg \in Config
  BY DEF TypeOK
<1>6. run \in Nat
  BY <1>5, EnvType DEF TypeOK
<1>7. QED
  BY <1>2, <1>3, <1>4, <1>5, <1>6

(* Every step keeps reports in agreement with what runs.                   *)
LEMMA NextReportInv ==
  ASSUME TypeOK, TypeOK', RunInv, OrderInv, LateInv, ReportInv, [Next]_vars
  PROVE  ReportInv'
<1> USE DEF controlVars, linkVars, fleetVars, loopVars, reportVars, bounds
<1>1. /\ cfg \in Config /\ run \in Nat /\ cfg' \in Config
      /\ \A s \in snaps : s.cfg \in Config
      /\ \A k \in 1..Len(toControl) : toControl[k].cfg \in Config
      /\ reported.cfg \in Config
  BY ReportTypes DEF TypeOK
<1>2. Agrees(cfg, cfg) /\ Agrees(cfg', cfg')
  BY <1>1 DEF Agrees, Config
<1>3. ASSUME UNCHANGED <<cfg, snaps, toControl, reported, run>> PROVE ReportInv'
  BY <1>3 DEF ReportInv
<1>4. ASSUME LoadConfig \/ ConnectionLost PROVE ReportInv'
  <2>1. UNCHANGED <<cfg, toControl, reported, run>>
    BY <1>4 DEF LoadConfig, ConnectionLost
  <2>2. \A s \in snaps' : s \in snaps \/ s.cfg = cfg
    BY <1>4 DEF LoadConfig, ConnectionLost, Loaded
  <2>3. \A s \in snaps' : Agrees(s.cfg, cfg)
    BY <1>2, <2>2 DEF ReportInv
  <2>4. QED
    BY <2>1, <2>3 DEF ReportInv
<1>5. ASSUME NEW s \in snaps, ReportOnConnect(s) PROVE ReportInv'
  <2>1. UNCHANGED <<cfg, reported, run>> /\ snaps' \subseteq snaps
    BY <1>5 DEF ReportOnConnect
  <2>2. ToReported(s.cfg, 0) \in Report /\ ToReported(s.cfg, 0).cfg = s.cfg
    BY <1>1 DEF ToReported, Report
  <2>3. toControl' = toControl \/ toControl' = Append(toControl, ToReported(s.cfg, 0))
    BY <1>5 DEF ReportOnConnect, PublishReported
  <2>4. \A k \in 1..Len(toControl') : toControl'[k].run = run => Agrees(toControl'[k].cfg, cfg)
    BY <2>2, <2>3, MoreReports DEF ReportInv
  <2>5. QED
    BY <2>1, <2>4 DEF ReportInv
<1>6. ASSUME Restart PROVE ReportInv'
  <2>1. snaps' = {} /\ run' = run + 1 /\ UNCHANGED <<toControl, reported>>
    BY <1>6 DEF Restart
  <2>2. reported.run # run' /\ \A k \in 1..Len(toControl) : toControl[k].run # run'
    BY <1>1, <2>1 DEF RunInv
  <2>3. QED
    BY <2>1, <2>2 DEF ReportInv
<1>7. ASSUME ConfigHandler PROVE ReportInv'
  <2>1. UNCHANGED <<snaps, reported, run>>
    BY <1>7 DEF ConfigHandler
  <2>2. PICK rep \in Report : /\ rep.cfg = cfg' /\ rep.run = run
                              /\ toControl' = toControl \/ toControl' = Append(toControl, rep)
    BY <1>7, HandlerEffect
  <2>3. cfg' = cfg \/ cfg.rev < cfg'.rev
    <3>1. cfg.rev <= Head(toDevice) /\ Head(toDevice) \in Nat /\ cfg.rev \in Nat
      BY <1>1, <1>7, HandlerKeepsOrder DEF Config
    <3>2. /\ cfg' = cfg \/ cfg'.rev = Head(toDevice)
          /\ cfg.rev = Head(toDevice) => cfg' = cfg
      BY <1>7, HandlerEffect
    <3>3. QED
      BY <3>1, <3>2
  <2>4. \A c \in Config : Agrees(c, cfg) => Agrees(c, cfg')
    BY <1>1, <2>3, AgreesLater
  <2>5. \A s \in snaps : Agrees(s.cfg, cfg')
    BY <1>1, <2>4 DEF ReportInv
  <2>6. reported.run = run => Agrees(reported.cfg, cfg')
    BY <1>1, <2>4 DEF ReportInv
  <2>7. \A k \in 1..Len(toControl') : toControl'[k].run = run => Agrees(toControl'[k].cfg, cfg')
    <3>1. \A l \in 1..Len(toControl) : toControl[l].run = run => Agrees(toControl[l].cfg, cfg')
      BY <1>1, <2>4 DEF ReportInv
    <3>2. QED
      BY <1>2, <2>2, <3>1, MoreReports
  <2>8. QED
    BY <2>1, <2>5, <2>6, <2>7 DEF ReportInv
<1>8. ASSUME OnMessage PROVE ReportInv'
  <2>1. UNCHANGED <<cfg, snaps, run>>
    BY <1>8 DEF OnMessage
  <2>2. /\ \A k \in 1..Len(toControl') : toControl'[k].run = run => Agrees(toControl'[k].cfg, cfg)
        /\ reported'.run = run => Agrees(reported'.cfg, cfg)
    BY <1>8, FewerReports DEF ReportInv
  <2>3. QED
    BY <2>1, <2>2 DEF ReportInv
<1>9. ASSUME \/ \E p \in Patches : SetDesired(p)
             \/ \E r \in publishing : PublishDesired(r)
             \/ Connect \/ Subscribe \/ SubscribeFails
             \/ \E c \in storing : StoreConnected(c)
             \/ LostHandler \/ \E h \in late : LateLoad(h)
             \/ FleetRedial \/ Nudged \/ Tick \/ TickDone \/ Age
             \/ UNCHANGED vars
      PROVE  ReportInv'
  <2>1. UNCHANGED <<cfg, snaps, toControl, reported, run>>
    BY <1>9 DEF SetDesired, PublishDesired, Connect, Subscribe, SubscribeFails, StoreConnected,
                LostHandler, LateLoad, FleetRedial, Nudged, Tick, TickDone, Age, vars
  <2>2. QED
    BY <1>3, <2>1
<1>10. ASSUME NEW h \in late, LateHandler(h) PROVE ReportInv'
  <2>1. UNCHANGED <<snaps, toControl, reported, run>>
    BY <1>10 DEF LateHandler
  <2>2. cfg' = cfg \/ cfg.rev < cfg'.rev
    BY <1>10, LateHandlerOrder
  <2>3. \A c \in Config : Agrees(c, cfg) => Agrees(c, cfg')
    BY <1>1, <2>2, AgreesLater
  <2>4. \A s \in snaps : Agrees(s.cfg, cfg')
    BY <1>1, <2>3 DEF ReportInv
  <2>5. reported.run = run => Agrees(reported.cfg, cfg')
    BY <1>1, <2>3 DEF ReportInv
  <2>6. \A k \in 1..Len(toControl) : toControl[k].run = run => Agrees(toControl[k].cfg, cfg')
    BY <1>1, <2>3 DEF ReportInv
  <2>7. QED
    BY <2>1, <2>4, <2>5, <2>6 DEF ReportInv
<1>11. QED
  BY <1>4, <1>5, <1>6, <1>7, <1>8, <1>9, <1>10 DEF Next

(* What the history variables say stays, but for a restart, which begins   *)
(* the device's part of it afresh.                                         *)
LEMMA HistoryStays ==
  ASSUME TypeOK, [Next]_vars, InOrder'
  PROVE  ~overtaken /\ (overlapped => Restart)
<1> USE DEF controlVars, linkVars, fleetVars, loopVars, reportVars, bounds
<1>1. ~overtaken' /\ ~overlapped' /\ overtaken \in BOOLEAN /\ overlapped \in BOOLEAN
  BY DEF InOrder, TypeOK
<1>2. CASE Restart
  BY <1>1, <1>2 DEF Restart
<1>3. CASE ConnectionLost \/ FleetRedial \/ ConfigHandler
  <2>1. overtaken' = overtaken
    BY <1>3 DEF ConnectionLost, FleetRedial, ConfigHandler
  <2>2. overlapped' = overlapped \/ overlapped' = (overlapped \/ late # {})
    BY <1>3 DEF ConnectionLost, FleetRedial, ConfigHandler, LeaveClient
  <2>3. QED
    BY <1>1, <2>1, <2>2
<1>4. CASE \E r \in publishing : PublishDesired(r)
  <2>1. overlapped' = overlapped
    BY <1>4 DEF PublishDesired
  <2>2. overtaken' = overtaken \/ \E r \in publishing : overtaken' = (overtaken \/ r < retained)
    BY <1>4 DEF PublishDesired
  <2>3. QED
    BY <1>1, <2>1, <2>2
<1>5. CASE \/ \E p \in Patches : SetDesired(p)
           \/ Connect \/ Subscribe \/ SubscribeFails \/ LoadConfig
           \/ \E s \in snaps : ReportOnConnect(s)
           \/ \E c \in storing : StoreConnected(c)
           \/ LostHandler
           \/ \E h \in late : LateLoad(h) \/ LateHandler(h)
           \/ Nudged \/ Tick \/ TickDone \/ OnMessage \/ Age
           \/ UNCHANGED vars
  <2>1. UNCHANGED <<overtaken, overlapped>>
    BY <1>5 DEF SetDesired, Connect, Subscribe, SubscribeFails, LoadConfig, ReportOnConnect,
                StoreConnected, LostHandler, LateLoad, LateHandler, Nudged, Tick, TickDone,
                OnMessage, Age, vars
  <2>2. QED
    BY <1>1, <2>1
<1>6. QED
  BY <1>2, <1>3, <1>4, <1>5 DEF Next

(* A restart brings everything of the device back in order: it runs the    *)
(* default config, and no report is of the new run.                        *)
LEMMA RestartInOrder ==
  ASSUME TypeOK, RunInv, Restart
  PROVE  OrderInv' /\ LateInv' /\ ReportInv'
<1>1. /\ toDevice' = <<>> /\ cfg'.rev = 0 /\ late' = {} /\ snaps' = {} /\ run' = run + 1
      /\ UNCHANGED <<retained, toControl, reported>>
  BY DefaultType DEF Restart, Disconnected, controlVars, reportVars
<1>2. 0 <= retained /\ 1..Len(toDevice') = {}
  BY <1>1, LenProperties DEF TypeOK
<1>3. run \in Nat
  BY ReportTypes
<1>4. reported.run # run' /\ \A k \in 1..Len(toControl) : toControl[k].run # run'
  BY <1>1, <1>3 DEF RunInv
<1>5. OrderInv' /\ LateInv'
  BY <1>1, <1>2 DEF OrderInv, LateInv
<1>6. ReportInv'
  BY <1>1, <1>4 DEF ReportInv
<1>7. QED
  BY <1>5, <1>6
-----------------------------------------------------------------------------
(* The theorems.                                                           *)

(* The invariant holds in every state.                                     *)
THEOREM Invariance == Spec => []IInv
<1>1. Init => IInv
  <2>1. SUFFICES ASSUME Init PROVE IInv
    OBVIOUS
  <2>2. /\ TypeOK /\ cfg.rev = 0 /\ reported.run = 0 /\ run = 1 /\ retained = 0 /\ snaps = {}
        /\ late = {}
    BY <2>1, InitType, DefaultType DEF Init
  <2>3. Len(toDevice) = 0 /\ Len(toControl) = 0
    BY <2>1, EmptySeq DEF Init
  <2>4. 1..Len(toDevice) = {} /\ 1..Len(toControl) = {}
    BY <2>3
  <2>5. RunInv /\ OrderInv /\ LateInv /\ ReportInv
    BY <2>2, <2>4 DEF RunInv, RunsOwn, OrderInv, LateInv, ReportInv
  <2>6. QED
    BY <2>2, <2>5 DEF IInv
<1>2. IInv /\ [Next]_vars => IInv'
  <2>1. SUFFICES ASSUME IInv, [Next]_vars PROVE IInv'
    OBVIOUS
  <2>2. TypeOK /\ RunInv
    BY <2>1 DEF IInv
  <2>3. TypeOK' /\ RunInv'
    BY <2>1, <2>2, NextType, NextRunInv
  <2>4. ASSUME InOrder' PROVE OrderInv' /\ LateInv' /\ ReportInv'
    <3>1. CASE Restart
      BY <2>2, <3>1, RestartInOrder
    <3>2. CASE ~Restart
      <4>1. OrderInv /\ LateInv /\ ReportInv
        BY <2>1, <2>4, <3>2, HistoryStays DEF IInv, InOrder
      <4>2. ~overtaken' /\ ~overlapped'
        BY <2>4 DEF InOrder
      <4>3. QED
        BY <2>1, <2>2, <2>3, <4>1, <4>2, NextOrderInv, NextLateInv, NextReportInv
    <3>3. QED
      BY <3>1, <3>2
  <2>5. QED
    BY <2>3, <2>4 DEF IInv
<1>3. QED
  BY <1>1, <1>2, PTL DEF Spec

(* Every variable has its type: whatever the PUT bodies, the device's      *)
(* config stays one, with a sample interval of at least a millisecond for  *)
(* the ticker, and the agent's channel holds at most one interval.         *)
THEOREM TypeCorrect == Spec => []TypeOK
<1>1. IInv => TypeOK
  BY DEF IInv
<1>2. QED
  BY <1>1, Invariance, PTL

(* A configured device that the drift list leaves out runs the desired     *)
(* entry and its stored report is its config, for any order of lost, late  *)
(* and connect-time reports, rejections and reconnects, unless the device  *)
(* restarted since that report, a PUT published its revision after a later *)
(* one, or config handlers of two clients of a fleet device overlapped.    *)
THEOREM InSync == Spec => []InSyncIsSound
<1>1. IInv => InSyncIsSound
  <2>1. SUFFICES ASSUME IInv, ~Drift, DesiredRev # 0, reported.run = run, InOrder
                 PROVE  Runs(DesiredRev) /\ reported.cfg = cfg
    BY DEF InSyncIsSound, InOrder
  <2>2. Agrees(reported.cfg, cfg) /\ RunsOwn /\ TypeOK
    BY <2>1 DEF IInv, ReportInv, RunInv
  <2>3. reported.cfg.rev = Len(desired) /\ Len(desired) # 0
    BY <2>1 DEF Drift, DesiredRev
  <2>4. cfg.rev \in Nat /\ cfg.rev <= Len(desired) /\ Len(desired) \in Nat
    BY <2>2, LenProperties DEF TypeOK, Config
  <2>5. Len(desired) <= cfg.rev
    BY <2>2, <2>3 DEF Agrees
  <2>6. cfg.rev = Len(desired)
    BY <2>4, <2>5
  <2>7. reported.cfg = cfg
    BY <2>2, <2>3, <2>6 DEF Agrees
  <2>8. QED
    BY <2>2, <2>3, <2>6, <2>7 DEF RunsOwn, DesiredRev
<1>2. QED
  BY <1>1, Invariance, PTL
=============================================================================
