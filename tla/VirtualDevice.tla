--------------------------- MODULE VirtualDevice ---------------------------
(***************************************************************************)
(* The connection of a simulated device (cmd/fleet/device.go): run dials   *)
(* with backoff and then stays in sampleLoop, which dials again after a    *)
(* simulated partition, a simulated flaky disconnect or a lost connection. *)
(* Every dial makes a fresh MQTT client with the same client id, so the    *)
(* broker drops the older connection when it accepts a newer one.          *)
(*                                                                         *)
(* What sampleLoop knows of its connection is one atomic flag, stored by   *)
(* the OnConnect and ConnectionLost callbacks of all those clients, each   *)
(* on a goroutine of its own, and by the loop.  A device here is one run   *)
(* of the program's virtualDevice; Fleet composes them.  What is sampled   *)
(* is left out: a tick that finds the flag set samples and publishes.      *)
(***************************************************************************)
EXTENDS Naturals, FiniteSets

CONSTANTS
  MaxDevices,  (* runs of virtualDevice                                    *)
  MaxClients,  (* MQTT clients of a device that matter at the same time    *)
  Scenario     (* environments: records that say whether there is a broker *)
               (* and whether it is prompt, which faults may strike, how   *)
               (* often, and how many clients, slots and calls there are   *)

Device == 1..MaxDevices
Client == 1..MaxClients

ASSUME VirtualDeviceAssumption ==
  /\ MaxDevices \in Nat /\ MaxClients \in Nat \ {0}
  /\ \A e \in Scenario : e.clients \in 0..MaxClients

VARIABLES
  env,       (* the environment, one of Scenario                           *)
  phase,     (* where run is; "dial" while it is inside connect            *)
  why,       (* why[d]: what the current dial is for                       *)
  cancelled, (* the device's context is cancelled                          *)
  client,    (* client[d]: the client d.client refers to, 0 before any     *)
  conn,      (* conn[d][c]: the state of client c                          *)
  onc,       (* onc[d][c]: where the OnConnect callback of c is            *)
  lost,      (* clients whose ConnectionLost callback is to run            *)
  connected, (* stats.connected, the flag                                  *)
  part,      (* the device is partitioned                                  *)
  recent,    (* lastReconnectAttempt is less than reconnectBackoff ago     *)
  inbox,     (* partitionCh holds a command                                *)
  late,      (* history: the flag was set when the device's connection was *)
             (* not up (any more)                                          *)
  faults     (* failed dials and subscriptions, lost connections, flaky    *)
             (* disconnects and partitions so far                          *)

deviceVars == <<phase, why, cancelled, client, conn, onc, lost, connected, part, recent,
                inbox, late, faults>>

Phase == {"off", "start", "delay", "dial", "backoff", "select", "check", "exited"}
Reason == {"run", "heal", "flaky", "lost"}

DeviceTypeOK ==
  /\ phase \in [Device -> Phase]
  /\ why \in [Device -> Reason]
  /\ cancelled \in [Device -> BOOLEAN]
  /\ client \in [Device -> 0..MaxClients]
  /\ conn \in [Device -> [Client -> {"down", "dialing", "up"}]]
  /\ onc \in [Device -> [Client -> {"none", "subscribe", "report"}]]
  /\ lost \in [Device -> SUBSET Client]
  /\ connected \in [Device -> BOOLEAN]
  /\ part \in [Device -> BOOLEAN]
  /\ recent \in [Device -> BOOLEAN]
  /\ inbox \in [Device -> BOOLEAN]
  /\ late \in [Device -> BOOLEAN]
  /\ faults \in Nat

Every(v) == [d \in Device |-> v]

(* No device was started yet.                                              *)
NoDevices ==
  /\ phase = Every("off")
  /\ why = Every("run")
  /\ cancelled = Every(FALSE)
  /\ client = Every(0)
  /\ conn = Every([c \in Client |-> "down"])
  /\ onc = Every([c \in Client |-> "none"])
  /\ lost = Every({})
  /\ connected = Every(FALSE)
  /\ part = Every(FALSE)
  /\ recent = Every(FALSE)
  /\ inbox = Every(FALSE)
  /\ late = Every(FALSE)

(* The process ends with all its devices.                                  *)
DevicesGone ==
  /\ phase' = Every("off")
  /\ why' = Every("run")
  /\ cancelled' = Every(FALSE)
  /\ client' = Every(0)
  /\ conn' = Every([c \in Client |-> "down"])
  /\ onc' = Every([c \in Client |-> "none"])
  /\ lost' = Every({})
  /\ connected' = Every(FALSE)
  /\ part' = Every(FALSE)
  /\ recent' = Every(FALSE)
  /\ inbox' = Every(FALSE)
  /\ late' = Every(FALSE)

-----------------------------------------------------------------------------
Up(d) == client[d] # 0 /\ conn[d][client[d]] = "up"

Goto(d, label) == phase' = [phase EXCEPT ![d] = label]

(* A fault of kind k strikes.                                              *)
Strikes(k) == k \in env.faults /\ faults < env.max /\ faults' = faults + 1

(* stats.connected.Store(false).                                           *)
StoreFalse(d) ==
  /\ connected' = [connected EXCEPT ![d] = FALSE]
  /\ late' = [late EXCEPT ![d] = FALSE]

(* connect makes a fresh client the device's own and starts to dial.  The  *)
(* other clients are as in before; one that is down and has no callback to *)
(* run is garbage, and its number is used again.                           *)
Dial(d, reason, before) ==
  LET idle == {c \in 1..env.clients : /\ before[c] = "down"
                                      /\ onc[d][c] = "none" /\ c \notin lost[d]}
  IN  \E c \in idle :
        /\ \A j \in idle : c <= j
        /\ client' = [client EXCEPT ![d] = c]
        /\ conn' = [conn EXCEPT ![d] = [before EXCEPT ![c] = "dialing"]]
        /\ why' = [why EXCEPT ![d] = reason]
        /\ Goto(d, "dial")

(* client.Disconnect, which also aborts a dial that goes on in the         *)
(* background; no ConnectionLost callback follows.                         *)
Disconnected(d) ==
  [c \in Client |-> IF c = client[d] THEN "down" ELSE conn[d][c]]

(* run: there is no start delay, or it is over, or the backoff after a     *)
(* failed dial is.                                                         *)
RunDials(d) ==
  /\ phase[d] \in {"start", "delay", "backoff"}
  /\ Dial(d, "run", conn[d])
  /\ UNCHANGED <<cancelled, onc, lost, connected, part, recent, inbox, late, faults>>

(* connect's caller goes on where the dial succeeded: sampleLoop starts,   *)
(* a partition is healed, a flaky device is in the middle of its tick.     *)
AfterDial(d) == IF why[d] = "flaky" THEN "check" ELSE "select"

(* The broker accepts the connection of c.  The device's other connection  *)
(* is closed; OnConnect starts on its own goroutine.  connect returns if   *)
(* c is the client it waits for: it may have timed out before.             *)
Accept(d, c) ==
  /\ conn[d][c] = "dialing" /\ env.broker
  /\ conn' = [conn EXCEPT ![d] = [i \in Client |-> IF i = c THEN "up"
                                                   ELSE IF @[i] = "up" THEN "down" ELSE @[i]]]
  /\ lost' = [lost EXCEPT ![d] = @ \union {i \in Client : conn[d][i] = "up"}]
  /\ onc' = [onc EXCEPT ![d][c] = "subscribe"]
  /\ IF phase[d] = "dial" /\ client[d] = c
     THEN /\ Goto(d, AfterDial(d))
          /\ part' = [part EXCEPT ![d] = @ /\ why[d] # "heal"]
     ELSE UNCHANGED <<phase, part>>
  /\ UNCHANGED <<why, cancelled, client, connected, inbox, late, faults, recent>>

(* connect returns an error: the dial failed, or it timed out and goes on  *)
(* in the background.                                                      *)
DialFails(d) ==
  /\ phase[d] = "dial" /\ conn[d][client[d]] = "dialing"
  /\ \/ /\ env.broker => Strikes("dial")
        /\ ~env.broker => UNCHANGED faults
        /\ conn' = [conn EXCEPT ![d][client[d]] = "down"]
     \/ /\ Strikes("timeout")
        /\ UNCHANGED conn
  /\ Goto(d, IF why[d] = "run" THEN "backoff" ELSE "select")
  /\ UNCHANGED <<why, cancelled, client, onc, lost, connected, part, recent, inbox,
                 late>>

(* A dial that timed out fails in the background.                          *)
LateDialFails(d, c) ==
  /\ conn[d][c] = "dialing" /\ ~(phase[d] = "dial" /\ client[d] = c)
  /\ conn' = [conn EXCEPT ![d][c] = "down"]
  /\ UNCHANGED <<phase, why, cancelled, client, onc, lost, connected, part, recent,
                 inbox, late, faults>>

-----------------------------------------------------------------------------
(* The callbacks.                                                          *)

(* OnConnect subscribes; if that fails it returns and leaves the flag.     *)
OnConnectSubscribes(d, c) ==
  /\ onc[d][c] = "subscribe"
  /\ \/ /\ conn[d][c] = "up"
        /\ onc' = [onc EXCEPT ![d][c] = "report"]
        /\ UNCHANGED faults
     \/ /\ onc' = [onc EXCEPT ![d][c] = "none"]
        /\ IF conn[d][c] = "up" THEN Strikes("subscribe") ELSE UNCHANGED faults
  /\ UNCHANGED <<phase, why, cancelled, client, conn, lost, connected, part, recent,
                 inbox, late>>

(* OnConnect has reported the config and sets the flag, whatever became of *)
(* its client in the meantime.                                             *)
OnConnectStores(d, c) ==
  /\ onc[d][c] = "report"
  /\ onc' = [onc EXCEPT ![d][c] = "none"]
  /\ connected' = [connected EXCEPT ![d] = TRUE]
  /\ late' = [late EXCEPT ![d] = ~Up(d)]
  /\ UNCHANGED <<phase, why, cancelled, client, conn, lost, part, recent, inbox,
                 faults>>

ConnectionLost(d, c) ==
  /\ conn[d][c] = "up"
  /\ Strikes("loss")
  /\ conn' = [conn EXCEPT ![d][c] = "down"]
  /\ lost' = [lost EXCEPT ![d] = @ \union {c}]
  /\ UNCHANGED <<phase, why, cancelled, client, onc, connected, part, recent, inbox,
                 late>>

(* Mutant of LostHandler: it only logs.                                    *)
LostHandlerLogs(d, c) ==
  /\ c \in lost[d]
  /\ lost' = [lost EXCEPT ![d] = @ \ {c}]
  /\ UNCHANGED <<phase, why, cancelled, client, conn, onc, connected, part, recent,
                 inbox, late, faults>>

(* The ConnectionLost callback of c, any time later.                       *)
LostHandler(d, c) ==
  /\ c \in lost[d]
  /\ lost' = [lost EXCEPT ![d] = @ \ {c}]
  /\ StoreFalse(d)
  /\ UNCHANGED <<phase, why, cancelled, client, conn, onc, part, recent, inbox, faults>>

-----------------------------------------------------------------------------
(* sampleLoop.                                                             *)

(* case dur := <-d.partitionCh.                                            *)
TakePartition(d) ==
  /\ phase[d] = "select" /\ inbox[d]
  /\ inbox' = [inbox EXCEPT ![d] = FALSE]
  /\ IF part[d]
     THEN UNCHANGED <<part, connected, late, conn>>
     ELSE /\ part' = [part EXCEPT ![d] = TRUE]
          /\ StoreFalse(d)
          /\ conn' = [conn EXCEPT ![d] = Disconnected(d)]
  /\ UNCHANGED <<phase, why, cancelled, client, onc, lost, faults, recent>>

(* A tick after healAt: the partitioned device dials.                      *)
Heal(d) ==
  /\ phase[d] = "select" /\ part[d]
  /\ Dial(d, "heal", conn[d])
  /\ UNCHANGED <<cancelled, onc, lost, connected, part, recent, inbox, late, faults>>

(* A tick of a flaky device: it drops its connection and dials at once.    *)
Flaky(d) ==
  /\ phase[d] = "select" /\ ~part[d]
  /\ Strikes("flaky")
  /\ StoreFalse(d)
  /\ Dial(d, "flaky", Disconnected(d))
  /\ UNCHANGED <<cancelled, onc, lost, part, recent, inbox>>

Tick(d) ==
  /\ phase[d] = "select" /\ ~part[d]
  /\ Goto(d, "check")
  /\ UNCHANGED <<why, cancelled, client, conn, onc, lost, connected, part, recent,
                 inbox, late, faults>>

(* Mutant of Redial: the client is left to reconnect by itself, which it   *)
(* was configured not to do.                                               *)
RedialNever(d) ==
  /\ phase[d] = "check" /\ ~connected[d] /\ ~recent[d]
  /\ recent' = [recent EXCEPT ![d] = TRUE]
  /\ Goto(d, "select")
  /\ UNCHANGED <<why, client, conn, cancelled, onc, lost, connected, part, inbox, late,
                 faults>>

(* The tick finds the flag down and the last attempt long enough ago.      *)
Redial(d) ==
  /\ phase[d] = "check" /\ ~connected[d] /\ ~recent[d]
  /\ recent' = [recent EXCEPT ![d] = TRUE]
  /\ Dial(d, "lost", conn[d])
  /\ UNCHANGED <<cancelled, onc, lost, connected, part, inbox, late, faults>>

(* The tick ends: it has sampled and published, or the flag is down and    *)
(* the last attempt too recent.                                            *)
TickEnds(d) ==
  /\ phase[d] = "check" /\ (connected[d] \/ recent[d])
  /\ Goto(d, "select")
  /\ UNCHANGED <<why, cancelled, client, conn, onc, lost, connected, part, recent,
                 inbox, late, faults>>

(* No callback is on its way.                                              *)
NoCallbacks(d) == lost[d] = {} /\ \A c \in Client : onc[d][c] = "none"

(* reconnectBackoff passes.  Where the environment is prompt, a dial, the  *)
(* subscription and the callbacks together take less than that.            *)
BackoffPasses(d) ==
  /\ recent[d]
  /\ env.prompt => phase[d] # "dial" /\ NoCallbacks(d)
  /\ recent' = [recent EXCEPT ![d] = FALSE]
  /\ UNCHANGED <<phase, why, cancelled, client, conn, onc, lost, connected, part, inbox,
                 late, faults>>

(* case <-ctx.Done() in run, before it ever connected, and in sampleLoop,  *)
(* where the connection is closed if it is up.                             *)
Exit(d) ==
  /\ cancelled[d]
  /\ \/ /\ phase[d] \in {"delay", "backoff"}
        /\ UNCHANGED <<connected, late, conn>>
     \/ /\ phase[d] = "select"
        /\ StoreFalse(d)
        /\ conn' = IF Up(d) THEN [conn EXCEPT ![d] = Disconnected(d)] ELSE conn
  /\ Goto(d, "exited")
  /\ UNCHANGED <<why, cancelled, client, onc, lost, part, recent, inbox, faults>>

Step(d) ==
  \/ RunDials(d) \/ DialFails(d)
  \/ \E c \in Client : \/ Accept(d, c) \/ LateDialFails(d, c)
                       \/ OnConnectSubscribes(d, c) \/ OnConnectStores(d, c)
                       \/ ConnectionLost(d, c) \/ LostHandler(d, c)
  \/ TakePartition(d) \/ Heal(d) \/ Flaky(d) \/ Tick(d) \/ Redial(d) \/ TickEnds(d)
  \/ BackoffPasses(d) \/ Exit(d)

-----------------------------------------------------------------------------
(* Between ticks, with no callback on its way, a device that is not        *)
(* partitioned and takes itself for connected is: sampleLoop then dials    *)
(* again only when the flag is down, so a flag that stays up without a     *)
(* connection would silence the device for good.  A partitioned device     *)
(* goes on dialing whatever the flag says.  The exception the code has is  *)
(* an OnConnect callback that sets the flag late, when the device's        *)
(* connection was lost or replaced.                                        *)
FlagIsHonest ==
  \A d \in Device :
    (/\ phase[d] = "select" /\ ~part[d] /\ NoCallbacks(d)
     /\ connected[d] /\ ~late[d]) => Up(d)
=============================================================================
