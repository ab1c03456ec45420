----------------------------- MODULE ShadowSync -----------------------------
(***************************************************************************)
(* The device shadow end to end, for one device: PUTs write the desired    *)
(* entry and publish it retained, the device applies it as a partial       *)
(* update over what it runs and reports at QoS 0, the reconciler of        *)
(* cmd/control stores the report that arrives last, and Drift compares     *)
(* revisions.                                                              *)
(*                                                                         *)
(* The device is either cmd/hostagent ("agent") or a device of cmd/fleet   *)
(* ("fleet").  Both run the config handler and the OnConnect callback on   *)
(* different goroutines of the MQTT client.  They differ in two places:    *)
(* the agent keeps one client that reconnects by itself and resets its     *)
(* ticker through a one-slot channel; a fleet device dials with a fresh    *)
(* client while its connected flag is down, so callbacks of an old client  *)
(* may run beside the new one's, and resets its ticker at every tick.      *)
(***************************************************************************)
EXTENDS Integers, Sequences, FiniteSets

CONSTANTS
  KnownSensors,    (* the sensor types this device can sample              *)
  Patches,         (* bodies of PUT requests: the fields that are set      *)
  DefaultInterval, (* sample interval after a start, in ms                 *)
  Scenario         (* environments: which device, and how often what happens *)

Field == {"rate", "sensors", "batch", "flush", "mode"}

ASSUME ShadowSyncAssumption ==
  /\ \A p \in Patches :
       /\ DOMAIN p \subseteq Field
       /\ "rate" \in DOMAIN p => p["rate"] \in Int
       /\ "sensors" \in DOMAIN p => IsFiniteSet(p["sensors"])
       /\ "batch" \in DOMAIN p => p["batch"] \in Int
       /\ "flush" \in DOMAIN p => p["flush"] \in Int
  /\ DefaultInterval \in Nat \ {0}
  /\ Scenario \subseteq [kind : {"agent", "fleet"}, puts : Nat, losses : Nat,
                         drops : Nat, failures : Nat, restarts : Nat]

VARIABLES
  env,        (* the environment: the device's kind, and bounds on PUTs,   *)
              (* lost connections, lost reports or failed store calls,     *)
              (* failed subscriptions or connections dialed over, and      *)
              (* device restarts                                           *)
  desired,    (* the desired entry: the patch written at each revision     *)
  publishing, (* revisions whose PUT is between the store and the publish  *)
  retained,   (* the revision retained on the config topic, 0 if none      *)
  up,         (* the device's MQTT connection is up                        *)
  onc,        (* where the OnConnect callback of this connection is        *)
  snaps,      (* configs OnConnect callbacks loaded and still have to send *)
  toDevice,   (* config messages the client has not handled yet            *)
  connected,  (* a fleet device's stats.connected                          *)
  storing,    (* connections whose OnConnect has reported and still has to *)
              (* set connected                                             *)
  lostcbs,    (* connection-lost callbacks that still have to clear it     *)
  late,       (* config handlers of connections that are gone: the entry,  *)
              (* and the config they loaded                                *)
  cfg,        (* the config the device runs                                *)
  handled,    (* the last revision this run of the device has handled      *)
  nudges,     (* the agent's intervalChanged channel                       *)
  ticker,     (* the interval the sampling loop's ticker runs at           *)
  busy,       (* the agent's loop is collecting, not in its select         *)
  toControl,  (* reports on their way to the reconciler                    *)
  reported,   (* the stored report, NoReport before the first              *)
  stale,      (* the stored report is older than staleAfter                *)
  run,        (* history: starts of the device process                     *)
  overtaken,  (* history: some revision was published after a later one    *)
  dropped,    (* history: in this run a nudge found the channel full       *)
  overlapped, (* history: in this run the config handlers of two           *)
              (* connections ran at once                                   *)
  losses, drops, failed

bounds == <<losses, drops, failed>>
controlVars == <<desired, publishing, retained, overtaken>>
fleetVars == <<connected, storing, lostcbs, late, overlapped>>
linkVars == <<up, onc, snaps, toDevice, fleetVars>>
loopVars == <<nudges, ticker, busy, dropped>>
reportVars == <<toControl, reported, stale>>
vars == <<env, controlVars, linkVars, cfg, handled, loopVars, reportVars, run, bounds>>

-----------------------------------------------------------------------------
(* Applying a desired entry.                                               *)

Mode == {"continuous", "batched"}
Config == [rev : Nat, interval : Nat \ {0}, sensors : SUBSET KnownSensors,
           batch : Nat, flush : Nat, mode : Mode]

(* defaultAppliedConfig: no sensors listed means all of them.              *)
DefaultConfig ==
  [rev |-> 0, interval |-> DefaultInterval, sensors |-> {}, batch |-> 0,
   flush |-> 0, mode |-> "continuous"]

(* Mutant of IntervalMS: a fast rate rounds down to no interval at all.    *)
IntervalMSZero(rate) == 1000 \div rate

(* int(1000 / rate) milliseconds, at least one: a ticker panics on zero.   *)
IntervalMS(rate) == IF rate > 1000 THEN 1 ELSE 1000 \div rate

Given(p, f, current) == IF f \in DOMAIN p THEN p[f] ELSE current

(* What applyPartial makes of cur if it accepts p.                         *)
Resolve(cur, rev, p) ==
  [rev      |-> rev,
   interval |-> IF "rate" \in DOMAIN p THEN IntervalMS(p["rate"]) ELSE cur.interval,
   sensors  |-> Given(p, "sensors", cur.sensors),
   batch    |-> Given(p, "batch", cur.batch),
   flush    |-> Given(p, "flush", cur.flush),
   mode     |-> Given(p, "mode", cur.mode)]

FieldsValid(p) ==
  /\ "rate" \in DOMAIN p => p["rate"] > 0
  /\ "sensors" \in DOMAIN p => p["sensors"] # {} /\ p["sensors"] \subseteq KnownSensors
  /\ "batch" \in DOMAIN p => p["batch"] >= 1
  /\ "flush" \in DOMAIN p => p["flush"] >= 0
  /\ "mode" \in DOMAIN p => p["mode"] \in Mode

(* applyPartial's validation: batched mode needs a size or an interval,    *)
(* which an earlier entry may have set.                                    *)
Accepts(cur, p) ==
  /\ FieldsValid(p)
  /\ ~ /\ Given(p, "mode", cur.mode) = "batched"
       /\ Given(p, "batch", cur.batch) = 0
       /\ Given(p, "flush", cur.flush) = 0

(* toReported and toRejectedReported: what runs, and what was refused.     *)
ToReported(c, rejected) == [cfg |-> c, rejected |-> rejected, run |-> run]

NoReport == [cfg |-> DefaultConfig, rejected |-> 0, run |-> 0]

DesiredRev == Len(desired)

(* drift.go: no report, another revision, or a report that is too old.     *)
Drift ==
  \/ reported = NoReport
  \/ reported.cfg.rev # DesiredRev
  \/ stale

-----------------------------------------------------------------------------
TypeOK ==
  /\ env \in Scenario
  /\ desired \in Seq(Patches)
  /\ publishing \subseteq 1..Len(desired)
  /\ retained \in 0..Len(desired)
  /\ up \in BOOLEAN
  /\ onc \in {"off", "subscribe", "load", "idle", "deaf"}
  /\ snaps \subseteq [cfg : Config, conn : Nat]
  /\ toDevice \in Seq(1..Len(desired))
  /\ connected \in BOOLEAN /\ storing \subseteq Nat /\ lostcbs \in Nat
  /\ late \subseteq [rev : 1..Len(desired), base : Config]
  /\ cfg \in Config /\ cfg.rev <= Len(desired)
  /\ handled \in 0..Len(desired)
  /\ nudges \in Seq(Nat \ {0}) /\ Len(nudges) <= 1
  /\ ticker \in Nat \ {0}
  /\ busy \in BOOLEAN
  /\ toControl \in Seq([cfg : Config, rejected : Nat, run : Nat])
  /\ reported \in [cfg : Config, rejected : Nat, run : Nat]
  /\ stale \in BOOLEAN
  /\ run \in 1..(env.restarts + 1)
  /\ overtaken \in BOOLEAN /\ dropped \in BOOLEAN /\ overlapped \in BOOLEAN
  /\ losses \in 0..env.losses /\ drops \in 0..env.drops /\ failed \in 0..env.failures

Init ==
  /\ env \in Scenario
  /\ desired = <<>>
  /\ publishing = {}
  /\ retained = 0
  /\ up = FALSE
  /\ onc = "off"
  /\ snaps = {}
  /\ toDevice = <<>>
  /\ connected = FALSE
  /\ storing = {}
  /\ lostcbs = 0
  /\ late = {}
  /\ cfg = DefaultConfig
  /\ handled = 0
  /\ nudges = <<>>
  /\ ticker = DefaultInterval
  /\ busy = FALSE
  /\ toControl = <<>>
  /\ reported = NoReport
  /\ stale = FALSE
  /\ run = 1
  /\ overtaken = FALSE
  /\ dropped = FALSE
  /\ overlapped = FALSE
  /\ losses = 0 /\ drops = 0 /\ failed = 0

-----------------------------------------------------------------------------
(* cmd/control: the PUT handler and the publisher.                         *)

(* SetDesired: the entry gets the next revision.  When the audit insert    *)
(* fails after the KV put, the handler answers 500 and publishes nothing.  *)
SetDesired(p) ==
  /\ Len(desired) < env.puts
  /\ desired' = Append(desired, p)
  /\ \/ /\ publishing' = publishing \union {Len(desired) + 1}
        /\ UNCHANGED drops
     \/ /\ drops < env.drops
        /\ drops' = drops + 1
        /\ UNCHANGED publishing
  /\ UNCHANGED <<env, retained, overtaken, linkVars, cfg, handled, loopVars,
                 reportVars, run, losses, failed>>

(* The broker has the device's subscription.                               *)
Subscribed == up /\ onc \in {"load", "idle"}

Deliver(r) == toDevice' = IF Subscribed THEN Append(toDevice, r) ELSE toDevice

(* PublishDesired: retained, and sent on to the device if it listens.  The *)
(* publish itself may fail.                                                *)
PublishDesired(r) ==
  /\ r \in publishing
  /\ publishing' = publishing \ {r}
  /\ \/ /\ retained' = r
        /\ overtaken' = (overtaken \/ r < retained)
        /\ Deliver(r)
        /\ UNCHANGED drops
     \/ /\ drops < env.drops
        /\ drops' = drops + 1
        /\ UNCHANGED <<retained, overtaken, toDevice>>
  /\ UNCHANGED <<env, desired, up, onc, snaps, fleetVars, cfg, handled, loopVars,
                 reportVars, run, losses, failed>>

-----------------------------------------------------------------------------
(* The device's connection.                                                *)

(* The agent's client reconnects by itself; a fleet device's sampleLoop    *)
(* dials only while the flag is down.  OnConnect is started.               *)
Connect ==
  /\ ~up
  /\ env.kind = "fleet" => ~connected
  /\ up' = TRUE
  /\ onc' = "subscribe"
  /\ UNCHANGED <<env, controlVars, snaps, toDevice, fleetVars, cfg, handled, loopVars,
                 reportVars, run, bounds>>

(* Mutant of Subscribe: only a fresh publish reaches the device.           *)
SubscribeNotRetained ==
  /\ up /\ onc = "subscribe"
  /\ onc' = "load"
  /\ UNCHANGED <<env, controlVars, up, snaps, toDevice, fleetVars, cfg, handled,
                 loopVars, reportVars, run, bounds>>

(* OnConnect subscribes to the config topic and gets what is retained.     *)
Subscribe ==
  /\ up /\ onc = "subscribe"
  /\ onc' = "load"
  /\ toDevice' = IF retained = 0 THEN toDevice ELSE Append(toDevice, retained)
  /\ UNCHANGED <<env, controlVars, up, snaps, fleetVars, cfg, handled, loopVars,
                 reportVars, run, bounds>>

(* The subscription fails or times out: OnConnect logs it and returns.     *)
SubscribeFails ==
  /\ up /\ onc = "subscribe"
  /\ failed < env.failures
  /\ failed' = failed + 1
  /\ onc' = "deaf"
  /\ UNCHANGED <<env, controlVars, up, snaps, toDevice, fleetVars, cfg, handled,
                 loopVars, reportVars, run, losses, drops>>

(* The config OnConnect is going to report.                                *)
Loaded == [cfg |-> cfg, conn |-> losses]

(* OnConnect reads the config it is going to report ...                    *)
LoadConfig ==
  /\ up /\ onc = "load"
  /\ onc' = "idle"
  /\ snaps' = snaps \union {Loaded}
  /\ UNCHANGED <<env, controlVars, up, toDevice, fleetVars, cfg, handled, loopVars,
                 reportVars, run, bounds>>

(* A QoS 0 publish by a client that is connected or not: nobody looks at   *)
(* the result, and what is sent may be lost on the way.                    *)
PublishReported(rep, online) ==
  \/ /\ toControl' = IF online THEN Append(toControl, rep) ELSE toControl
     /\ UNCHANGED drops
  \/ /\ online
     /\ drops < env.drops
     /\ drops' = drops + 1
     /\ UNCHANGED toControl

(* ... and reports it.  The config handler may have run in between, and    *)
(* the agent's client may have reconnected; a fleet device's old client is *)
(* dead by then.                                                           *)
ReportOnConnect(s) ==
  /\ s \in snaps
  /\ snaps' = snaps \ {s}
  /\ PublishReported(ToReported(s.cfg, 0), up /\ (env.kind = "agent" \/ s.conn = losses))
  /\ storing' = IF env.kind = "fleet" THEN storing \union {s.conn} ELSE storing
  /\ UNCHANGED <<env, controlVars, up, onc, toDevice, connected, lostcbs, late,
                 overlapped, cfg, handled, loopVars, reported, stale, run, losses, failed>>

(* The last thing a fleet device's OnConnect does, its connection may be   *)
(* gone by then: connected.Store(true).                                    *)
StoreConnected(c) ==
  /\ c \in storing
  /\ storing' = storing \ {c}
  /\ connected' = TRUE
  /\ UNCHANGED <<env, controlVars, up, onc, snaps, toDevice, lostcbs, late, overlapped,
                 cfg, handled, loopVars, reportVars, run, bounds>>

(* The session is clean: what was not handled is gone.                     *)
Disconnected ==
  /\ up' = FALSE
  /\ onc' = "off"
  /\ toDevice' = <<>>

(* A fleet device's client is gone with its connection.  Its lost callback *)
(* is still to come, and the config handler it was in may finish beside    *)
(* the next client's.  The agent's callback only logs, and its client      *)
(* reconnects once its handlers have returned.                             *)
LeaveClient ==
  \/ /\ env.kind = "agent"
     /\ UNCHANGED <<lostcbs, late, overlapped>>
  \/ /\ env.kind = "fleet"
     /\ lostcbs' = lostcbs + 1
     /\ \/ UNCHANGED <<late, overlapped>>
        \/ /\ toDevice # <<>>
           /\ late' = late \union {[rev |-> Head(toDevice), base |-> cfg]}
           /\ overlapped' = (overlapped \/ late # {})

(* The connection is lost.  An OnConnect whose subscription was granted    *)
(* goes on to its end.                                                     *)
ConnectionLost ==
  /\ up
  /\ losses < env.losses
  /\ losses' = losses + 1
  /\ Disconnected
  /\ LeaveClient
  /\ snaps' = IF onc = "load" THEN snaps \union {Loaded} ELSE snaps
  /\ UNCHANGED <<env, controlVars, connected, storing, cfg, handled, loopVars,
                 reportVars, run, drops, failed>>

(* SetConnectionLostHandler of a fleet device: connected.Store(false).     *)
LostHandler ==
  /\ lostcbs > 0
  /\ lostcbs' = lostcbs - 1
  /\ connected' = FALSE
  /\ UNCHANGED <<env, controlVars, up, onc, snaps, toDevice, storing, late, overlapped,
                 cfg, handled, loopVars, reportVars, run, bounds>>

(* This connection's OnConnect has returned without an error.              *)
OnConnectDone == onc = "idle" /\ losses \notin storing /\ \A s \in snaps : s.conn # losses

(* sampleLoop of a fleet device finds the flag down although the           *)
(* connection is up: the subscription failed, or the lost callback of an   *)
(* earlier client ran after this one's OnConnect.  It dials with a fresh   *)
(* client, and the broker drops the old connection, whose own callback may *)
(* have it dial once more: the bound on failures ends that.                *)
FleetRedial ==
  /\ env.kind = "fleet"
  /\ up /\ ~connected
  /\ \/ onc = "deaf" /\ UNCHANGED failed
     \/ OnConnectDone /\ failed < env.failures /\ failed' = failed + 1
  /\ Disconnected
  /\ LeaveClient
  /\ UNCHANGED <<env, controlVars, snaps, connected, storing, cfg, handled, loopVars,
                 reportVars, run, losses, drops>>

(* The device process starts again with its default config.                *)
Restart ==
  /\ run <= env.restarts
  /\ run' = run + 1
  /\ Disconnected
  /\ snaps' = {}
  /\ cfg' = DefaultConfig
  /\ handled' = 0
  /\ nudges' = <<>> /\ ticker' = DefaultInterval /\ busy' = FALSE /\ dropped' = FALSE
  /\ connected' = FALSE /\ storing' = {} /\ lostcbs' = 0
  /\ late' = {} /\ overlapped' = FALSE
  /\ UNCHANGED <<env, controlVars, reportVars, bounds>>

-----------------------------------------------------------------------------
(* The config handler; the client runs it once per message, in order.      *)

(* The agent's non-blocking send on intervalChanged.                       *)
Nudge(ms) ==
  IF env.kind = "agent"
  THEN /\ nudges' = IF nudges = <<>> THEN <<ms>> ELSE nudges
       /\ dropped' = (dropped \/ nudges # <<>>)
  ELSE UNCHANGED <<nudges, dropped>>

(* Mutant of Reject: the refused revision is reported as applied.          *)
RejectReportsNew(r) ==
  /\ PublishReported(ToReported([cfg EXCEPT !.rev = r], r), up)
  /\ UNCHANGED <<cfg, loopVars>>

(* The handler keeps what runs and reports it with the refusal.            *)
Reject(r) ==
  /\ PublishReported(ToReported(cfg, r), up)
  /\ UNCHANGED <<cfg, loopVars>>

(* Mutant of Apply: the nudge carries the interval that ran so far.        *)
ApplyNudgesOld(r) ==
  LET next == Resolve(cfg, r, desired[r])
  IN  /\ cfg' = next
      /\ Nudge(cfg.interval)
      /\ PublishReported(ToReported(next, 0), up)
      /\ UNCHANGED <<ticker, busy>>

(* The handler swaps the config in, nudges the loop, reports.              *)
Apply(r) ==
  LET next == Resolve(cfg, r, desired[r])
  IN  /\ cfg' = next
      /\ Nudge(next.interval)
      /\ PublishReported(ToReported(next, 0), up)
      /\ UNCHANGED <<ticker, busy>>

(* What handlers of earlier connections store between this one's load and  *)
(* its own store is overwritten.                                           *)
ConfigHandler ==
  /\ toDevice # <<>>
  /\ toDevice' = Tail(toDevice)
  /\ LET r == Head(toDevice)
     IN  /\ \/ Accepts(cfg, desired[r]) /\ Apply(r) /\ late' \in SUBSET late
            \/ ~Accepts(cfg, desired[r]) /\ Reject(r) /\ UNCHANGED late
         /\ handled' = r
  /\ overlapped' = (overlapped \/ late # {})
  /\ UNCHANGED <<env, controlVars, up, onc, snaps, connected, storing, lostcbs,
                 reported, stale, run, losses, failed>>

(* A handler of a connection that is gone loads the config only now.       *)
LateLoad(h) ==
  /\ h \in late
  /\ h.base # cfg
  /\ late' = (late \ {h}) \union {[h EXCEPT !.base = cfg]}
  /\ UNCHANGED <<env, controlVars, up, onc, snaps, toDevice, connected, storing, lostcbs,
                 overlapped, cfg, handled, loopVars, reportVars, run, bounds>>

(* And stores what it made of it, over whatever runs by then; nothing is   *)
(* locked.  Its report goes to a client that is dead.                      *)
LateHandler(h) ==
  /\ h \in late
  /\ late' = late \ {h}
  /\ cfg' = IF Accepts(h.base, desired[h.rev])
            THEN Resolve(h.base, h.rev, desired[h.rev])
            ELSE cfg
  /\ handled' = h.rev
  /\ UNCHANGED <<env, controlVars, up, onc, snaps, toDevice, connected, storing, lostcbs,
                 overlapped, loopVars, reportVars, run, bounds>>

-----------------------------------------------------------------------------
(* The sampling loop's timing; what it samples is left out.                *)

(* case ms := <-intervalChanged.                                           *)
Nudged ==
  /\ ~busy
  /\ nudges # <<>>
  /\ ticker' = Head(nudges)
  /\ nudges' = <<>>
  /\ UNCHANGED <<env, controlVars, linkVars, cfg, handled, busy, dropped, reportVars,
                 run, bounds>>

(* case <-ticker.C: the agent's loop is away from its select until it has  *)
(* collected and published.  A fleet device resets its ticker first; no    *)
(* handler sends to its loop, so it does not matter how long it is away.   *)
Tick ==
  /\ ~busy
  /\ busy' = (env.kind = "agent")
  /\ ticker' = IF env.kind = "fleet" THEN cfg.interval ELSE ticker
  /\ UNCHANGED <<env, controlVars, linkVars, cfg, handled, nudges, dropped, reportVars,
                 run, bounds>>

TickDone ==
  /\ busy
  /\ busy' = FALSE
  /\ UNCHANGED <<env, controlVars, linkVars, cfg, handled, nudges, ticker, dropped,
                 reportVars, run, bounds>>

-----------------------------------------------------------------------------
(* cmd/control: the reconciler.                                            *)

(* PutReported replaces what is stored; the report's timestamp is the      *)
(* device's, so it may be old on arrival.                                  *)
PutReported(rep) ==
  /\ reported' = rep
  /\ stale' \in BOOLEAN

(* onMessage: the report that arrives last is stored, or the store call    *)
(* fails.                                                                  *)
OnMessage ==
  /\ toControl # <<>>
  /\ toControl' = Tail(toControl)
  /\ \/ /\ PutReported(Head(toControl))
        /\ UNCHANGED drops
     \/ /\ drops < env.drops
        /\ drops' = drops + 1
        /\ UNCHANGED <<reported, stale>>
  /\ UNCHANGED <<env, controlVars, linkVars, cfg, handled, loopVars, run, losses, failed>>

(* Time passes; devices do not report unless something changes.            *)
Age ==
  /\ reported # NoReport /\ ~stale
  /\ stale' = TRUE
  /\ UNCHANGED <<env, controlVars, linkVars, cfg, handled, loopVars, toControl,
                 reported, run, bounds>>

-----------------------------------------------------------------------------
Next ==
  \/ \E p \in Patches : SetDesired(p)
  \/ \E r \in publishing : PublishDesired(r)
  \/ Connect \/ Subscribe \/ SubscribeFails \/ LoadConfig
  \/ \E s \in snaps : ReportOnConnect(s)
  \/ \E c \in storing : StoreConnected(c)
  \/ ConnectionLost \/ LostHandler \/ FleetRedial \/ Restart
  \/ ConfigHandler
  \/ \E h \in late : LateLoad(h) \/ LateHandler(h)
  \/ Nudged \/ Tick \/ TickDone
  \/ OnMessage \/ Age

Spec == Init /\ [][Next]_vars

(* What the device does by itself: it dials, or its client reconnects, and *)
(* subscribes; the lost callback and the config handler run; tickers tick. *)
(* A select that finds a nudge waiting takes it sooner or later although   *)
(* ticks compete with it.  Nothing is asked of cmd/control: PUTs need not  *)
(* arrive, nor be published, nor reports be stored.                        *)
Fairness ==
  /\ WF_vars(Connect \/ Subscribe \/ FleetRedial)
  /\ WF_vars(LostHandler) /\ WF_vars(ConfigHandler)
  /\ SF_vars(Nudged) /\ WF_vars(Tick \/ TickDone)

FairSpec == Spec /\ Fairness

-----------------------------------------------------------------------------
(* The device runs exactly what entry r names.                             *)
Runs(r) ==
  /\ cfg.rev = r
  /\ \A f \in DOMAIN desired[r] :
       CASE f = "rate"    -> cfg.interval = IntervalMS(desired[r]["rate"])
         [] f = "sensors" -> cfg.sensors = desired[r]["sensors"]
         [] f = "batch"   -> cfg.batch = desired[r]["batch"]
         [] f = "flush"   -> cfg.flush = desired[r]["flush"]
         [] f = "mode"    -> cfg.mode = desired[r]["mode"]

(* When GET /v1/devices/drift leaves a configured device out, the device   *)
(* runs the desired revision with every field that entry sets, and the     *)
(* stored report is its config.  Reports are lost and stored late, a       *)
(* connect-time report overtakes a newer one, entries are rejected: none   *)
(* of it makes a device look in sync that is not.  Three cases are         *)
(* excluded: the device restarted since the report, two PUTs published     *)
(* their revisions in the other order, and the config handlers of a fleet  *)
(* device's old and new client ran at once (the later store wins, and it   *)
(* may be the older entry's).                                              *)
InSyncIsSound ==
  (~Drift /\ DesiredRev # 0 /\ reported.run = run /\ ~overtaken /\ ~overlapped)
    => Runs(DesiredRev) /\ reported.cfg = cfg

(* Whatever is retained last, the device ends having handled it, across    *)
(* lost connections and restarts: it need not have been connected when the *)
(* entry was published.  Three cases are excluded, and all three happen.   *)
(* The agent is not told of an entry on a connection whose subscription    *)
(* failed, since nothing subscribes again before the next connect.  A      *)
(* fleet device whose flag an old OnConnect set after its connection was   *)
(* gone never dials again.  And when handlers of two clients of a fleet    *)
(* device ran at once, the older entry's may have ended last.              *)
DesiredIsHandled ==
  <>[](\/ handled = retained
       \/ env.kind = "agent" /\ onc = "deaf"
       \/ env.kind = "fleet" /\ (overlapped \/ (connected /\ ~Subscribed)))

(* The sampling loop ends ticking at the interval the device reports.  For *)
(* the agent this needs that no nudge was dropped: when two entries are    *)
(* applied while the loop collects, the channel keeps the first interval.  *)
RateTakesEffect ==
  <>[](ticker = cfg.interval \/ (env.kind = "agent" /\ dropped))
=============================================================================
