------------------------------- MODULE Fleet -------------------------------
(***************************************************************************)
(* The fleet simulator (cmd/fleet/manager.go, controlapi.go and main.go)   *)
(* over the devices of VirtualDevice: Scale decides under the lock which   *)
(* slots to stop and to start and then works on them without it, one       *)
(* worker per slot to start.  Nothing keeps two calls apart: the start-up  *)
(* call runs beside the HTTP server, and each request on its own goroutine.*)
(*                                                                         *)
(* A claimed identity is named by the token it was claimed with: control   *)
(* lets a token claim one device once (see Provisioning).                  *)
(***************************************************************************)
EXTENDS VirtualDevice

CONSTANTS
  MaxSlots,  (* slots the calls may ask for                                *)
  MaxCalls,  (* calls of Scale in progress at the same time                *)
  Tokens     (* registration tokens in the tokens file                     *)

Slot == 1..MaxSlots
Call == 1..MaxCalls

ASSUME FleetAssumption == MaxSlots \in Nat /\ MaxCalls \in Nat /\ Tokens \in Nat

VARIABLES
  target,   (* m.target                                                    *)
  slot,     (* slot[i]: its current device, 0 for none, and running        *)
  next,     (* tokens taken from the pool                                  *)
  stop,     (* stop[c]: slots call c has yet to stop                       *)
  worker,   (* worker[c][i]: where call c's worker for slot i is           *)
  picked,   (* devices Partition chose and has not sent to yet             *)
  creds,    (* creds[d]: the identity of device d                          *)
  scaled,   (* calls of Scale so far                                       *)
  file,     (* file[i]: the identity cached in slot i's state file         *)
  used,     (* tokens control has accepted                                 *)
  starved,  (* history: slots whose last start failed                      *)
  overlap   (* history: a call began while another was in progress         *)

fleetVars == <<target, slot, next, stop, worker, picked, creds, scaled, file, used, starved,
               overlap>>
vars == <<env, deviceVars, fleetVars>>

Worker == [pc : {"none", "creds", "stat", "load", "claim", "install"},
           arg : 0..Tokens, delayed : BOOLEAN]
NoWorker == [pc |-> "none", arg |-> 0, delayed |-> FALSE]

TypeOK ==
  /\ env \in Scenario
  /\ DeviceTypeOK
  /\ target \in 0..MaxSlots
  /\ slot \in [Slot -> [dev : 0..MaxDevices, running : BOOLEAN]]
  /\ next \in 0..Tokens
  /\ stop \in [Call -> SUBSET Slot]
  /\ worker \in [Call -> [Slot -> Worker]]
  /\ picked \in SUBSET Device
  /\ creds \in [Device -> 0..Tokens]
  /\ scaled \in Nat
  /\ file \in [Slot -> 0..Tokens]
  /\ used \in SUBSET (1..Tokens)
  /\ starved \in SUBSET Slot
  /\ overlap \in BOOLEAN

NoSlots == [i \in Slot |-> [dev |-> 0, running |-> FALSE]]
NoWorkers == [c \in Call |-> [i \in Slot |-> NoWorker]]

Init ==
  /\ env \in Scenario
  /\ NoDevices /\ faults = 0
  /\ target = 0 /\ slot = NoSlots /\ next = 0
  /\ stop = [c \in Call |-> {}] /\ worker = NoWorkers
  /\ picked = {} /\ creds = Every(0)
  /\ scaled = 0 /\ file = [i \in Slot |-> 0] /\ used = {}
  /\ starved = {} /\ overlap = FALSE

-----------------------------------------------------------------------------
Active(c) == stop[c] # {} \/ \E i \in Slot : worker[c][i].pc # "none"

(* Scale, up to the unlock.  The first slot to start has no start delay.   *)
(* In some environments a caller waits until no other call is in progress. *)
Scale(c, n) ==
  /\ scaled < env.calls /\ n <= env.slots
  /\ ~Active(c) /\ \A k \in 1..(c - 1) : Active(k)
  /\ env.waits => \A k \in Call : ~Active(k)
  /\ scaled' = scaled + 1
  /\ target' = n
  /\ stop' = [stop EXCEPT ![c] = {i \in Slot : i > n /\ slot[i].running}]
  /\ LET toStart == {i \in Slot : i <= n /\ ~slot[i].running}
     IN  /\ worker' = [worker EXCEPT ![c] = [i \in Slot |->
              IF i \in toStart
              THEN [pc |-> "creds", arg |-> 0, delayed |-> \E j \in toStart : j < i]
              ELSE NoWorker]]
         /\ starved' = starved \ toStart
  /\ overlap' = (overlap \/ \E k \in Call : Active(k))
  /\ UNCHANGED <<slot, next, picked, creds, file, used>>
  /\ UNCHANGED deviceVars

(* Mutant of StopSlot: the device's context is not cancelled.              *)
StopSlotNoCancel(c) ==
  /\ \E i \in stop[c] :
       /\ \A k \in stop[c] : i <= k
       /\ stop' = [stop EXCEPT ![c] = @ \ {i}]
       /\ slot' = [slot EXCEPT ![i].running = FALSE]
  /\ UNCHANGED <<target, next, worker, picked, creds, scaled, file, used, starved,
                 overlap>>
  /\ UNCHANGED deviceVars

(* The loop over toStop.                                                   *)
StopSlot(c) ==
  /\ \E i \in stop[c] :
       /\ \A k \in stop[c] : i <= k
       /\ stop' = [stop EXCEPT ![c] = @ \ {i}]
       /\ slot' = [slot EXCEPT ![i].running = FALSE]
       /\ cancelled' = [d \in Device |-> cancelled[d] \/ d = slot[i].dev]
  /\ UNCHANGED <<target, next, worker, picked, creds, scaled, file, used, starved,
                 overlap>>
  /\ UNCHANGED <<phase, why, client, conn, onc, lost, connected, part, recent, inbox,
                 late, faults>>

(* The worker of call c for slot i is at pc: toStop was dealt with before. *)
At(c, i, pc) == stop[c] = {} /\ worker[c][i].pc = pc

GotoWith(c, i, pc, arg) ==
  worker' = [worker EXCEPT ![c][i].pc = pc, ![c][i].arg = arg]

(* startSlot returns: the worker is done, without a device.                *)
ClaimFailed(c, i) ==
  /\ worker' = [worker EXCEPT ![c][i] = NoWorker]
  /\ starved' = starved \union {i}

(* startSlot uses the identity the slot already has.                       *)
CheckCreds(c, i) ==
  /\ At(c, i, "creds")
  /\ IF slot[i].dev # 0 THEN GotoWith(c, i, "install", creds[slot[i].dev])
                        ELSE GotoWith(c, i, "stat", 0)
  /\ UNCHANGED <<target, slot, next, stop, picked, creds, scaled, file, used, starved,
                 overlap>>
  /\ UNCHANGED deviceVars

(* Mutant of Take: the pool's bound is checked one too late.               *)
TakePast == IF next <= Tokens THEN next + 1 ELSE 0

(* tokenPool.take: the next token, 0 when the pool is empty.               *)
Take == IF next < Tokens THEN next + 1 ELSE 0

(* startSlot takes a token only if there is no state file.                 *)
TakeToken(c, i) ==
  /\ At(c, i, "stat")
  /\ LET t == IF file[i] = 0 THEN Take ELSE 0
     IN  /\ GotoWith(c, i, "load", t)
         /\ next' = IF t = 0 THEN next ELSE t
  /\ UNCHANGED <<target, slot, stop, picked, creds, scaled, file, used, starved, overlap>>
  /\ UNCHANGED deviceVars

(* LoadOrClaim, up to the request.                                         *)
Load(c, i) ==
  /\ At(c, i, "load")
  /\ \/ /\ file[i] # 0
        /\ GotoWith(c, i, "install", file[i])
        /\ UNCHANGED starved
     \/ /\ file[i] = 0 /\ worker[c][i].arg # 0
        /\ GotoWith(c, i, "claim", worker[c][i].arg)
        /\ UNCHANGED starved
     \/ /\ file[i] = 0 /\ worker[c][i].arg = 0
        /\ ClaimFailed(c, i)
  /\ UNCHANGED <<target, slot, next, stop, picked, creds, scaled, file, used, overlap>>
  /\ UNCHANGED deviceVars

(* The request to control and the save of the credentials.  A failed one   *)
(* may or may not have reached control.                                    *)
Claim(c, i) ==
  /\ At(c, i, "claim")
  /\ LET t == worker[c][i].arg
     IN  \/ /\ t \notin used
            /\ used' = used \union {t}
            /\ file' = [file EXCEPT ![i] = t]
            /\ GotoWith(c, i, "install", t)
            /\ UNCHANGED <<starved, faults>>
         \/ /\ t \in used
            /\ ClaimFailed(c, i)
            /\ UNCHANGED <<used, file, faults>>
         \/ /\ Strikes("claim")
            /\ ClaimFailed(c, i)
            /\ used' \in {used, used \union {t}}
            /\ UNCHANGED file
  /\ UNCHANGED <<target, slot, next, stop, picked, creds, scaled, overlap>>
  /\ UNCHANGED <<phase, why, cancelled, client, conn, onc, lost, connected, part,
                 recent, inbox, late>>

(* The end of startSlot: a new device takes the slot and its run starts.   *)
Install(c, i) ==
  /\ At(c, i, "install")
  /\ \E d \in Device :
       /\ phase[d] = "off" /\ \A e \in 1..(d - 1) : phase[e] # "off"
       /\ slot' = [slot EXCEPT ![i] = [dev |-> d, running |-> TRUE]]
       /\ creds' = [creds EXCEPT ![d] = worker[c][i].arg]
       /\ Goto(d, IF worker[c][i].delayed THEN "delay" ELSE "start")
  /\ worker' = [worker EXCEPT ![c][i] = NoWorker]
  /\ UNCHANGED <<target, next, stop, picked, scaled, file, used, starved, overlap>>
  /\ UNCHANGED <<why, cancelled, client, conn, onc, lost, connected, part, recent,
                 inbox, late, faults>>

-----------------------------------------------------------------------------
RunsIn(d, i) == slot[i] = [dev |-> d, running |-> TRUE]

(* Partition picks devices under the lock and sends to them without it.    *)
Partition ==
  /\ picked = {}
  /\ Strikes("partition")
  /\ LET candidates == {d \in Device : /\ ~part[d]
                                       /\ \E i \in Slot : RunsIn(d, i)}
     IN  picked' \in SUBSET candidates \ {{}}
  /\ UNCHANGED <<target, slot, next, stop, worker, creds, scaled, file, used, starved,
                 overlap>>
  /\ UNCHANGED <<phase, why, cancelled, client, conn, onc, lost, connected, part,
                 recent, inbox, late>>

(* The send is dropped if partitionCh holds a command already.             *)
SendPartition(d) ==
  /\ d \in picked
  /\ picked' = picked \ {d}
  /\ inbox' = [inbox EXCEPT ![d] = TRUE]
  /\ UNCHANGED <<target, slot, next, stop, worker, creds, scaled, file, used, starved,
                 overlap>>
  /\ UNCHANGED <<phase, why, cancelled, client, conn, onc, lost, connected, part,
                 recent, late, faults>>

(* The process ends and starts again: the state files and what control     *)
(* knows of the tokens remain, the pool starts at its first token.         *)
Restart ==
  /\ Strikes("restart")
  /\ DevicesGone
  /\ target' = 0 /\ slot' = NoSlots /\ next' = 0
  /\ stop' = [c \in Call |-> {}] /\ worker' = NoWorkers
  /\ picked' = {} /\ creds' = Every(0) /\ starved' = {}
  /\ UNCHANGED <<scaled, file, used, overlap>>

Start(c, i) ==
  CheckCreds(c, i) \/ TakeToken(c, i) \/ Load(c, i) \/ Claim(c, i) \/ Install(c, i)

Next ==
  /\ UNCHANGED env
  /\ \/ \E c \in Call, n \in 0..MaxSlots : Scale(c, n)
     \/ \E c \in Call : StopSlot(c)
     \/ \E c \in Call, i \in Slot : Start(c, i)
     \/ Partition
     \/ \E d \in Device : SendPartition(d)
     \/ \E d \in Device : Step(d) /\ UNCHANGED fleetVars
     \/ Restart

Spec == Init /\ [][Next]_vars

DeviceStep(A) == UNCHANGED env /\ A /\ UNCHANGED fleetVars
ManagerStep(A) == UNCHANGED env /\ A

(* Goroutines run, requests and dials end, callbacks run, timers fire.     *)
(* Nothing is assumed of faults and of callers.                            *)
Fairness ==
  /\ \A c \in Call : WF_vars(ManagerStep(StopSlot(c)))
  /\ \A c \in Call, i \in Slot : WF_vars(ManagerStep(Start(c, i)))
  /\ \A d \in Device :
       /\ WF_vars(DeviceStep(RunDials(d)))
       /\ WF_vars(DeviceStep(TakePartition(d)))
       /\ WF_vars(DeviceStep(Heal(d)))
       /\ WF_vars(DeviceStep(Tick(d)))
       /\ WF_vars(DeviceStep(Redial(d)))
       /\ WF_vars(DeviceStep(TickEnds(d)))
       /\ WF_vars(DeviceStep(BackoffPasses(d)))
       /\ WF_vars(DeviceStep(Exit(d)))
       /\ \A c \in Client : /\ WF_vars(DeviceStep(Accept(d, c)))
                            /\ WF_vars(DeviceStep(OnConnectSubscribes(d, c)))
                            /\ WF_vars(DeviceStep(OnConnectStores(d, c)))
                            /\ WF_vars(DeviceStep(LostHandler(d, c)))

FairSpec == Spec /\ Fairness

-----------------------------------------------------------------------------
(* Device d runs and was not told to stop.                                 *)
Alive(d) == phase[d] \notin {"off", "exited"} /\ ~cancelled[d]

(* After Scale, "exactly target running devices": a slot runs if and only  *)
(* if it is below the target and its claim did not fail; the device runs   *)
(* left are the slots' own, one each, with the identity cached for the     *)
(* slot and no two the same.  The exception the code has is calls that     *)
(* overlap: both start a slot, or one starts what the other should stop.   *)
FleetMatchesTarget ==
  (~overlap /\ \A c \in Call : ~Active(c)) =>
    /\ \A i \in Slot : slot[i].running <=> (i <= target /\ i \notin starved)
    /\ \A d \in Device : Alive(d) <=> \E i \in Slot : RunsIn(d, i)
    /\ \A i \in Slot : slot[i].dev # 0 => creds[slot[i].dev] = file[i]
    /\ \A i, j \in Slot : (file[i] = file[j] /\ file[i] # 0) => i = j

(* A slot below the target whose claim did not fail has, again and again,  *)
(* a device that is connected and knows it: after a failed or timed-out    *)
(* dial, a lost connection, a flaky disconnect, a partition, a failed      *)
(* subscription.  The exceptions are overlapping calls and a late flag     *)
(* (see FlagIsHonest), after which the device stays silent.                *)
ComesBack ==
  (env.broker /\ env.prompt) => \A i \in Slot :
    []<>(\/ target < i \/ i \in starved \/ overlap
         \/ LET d == slot[i].dev IN d # 0 /\ (late[d] \/ (connected[d] /\ Up(d))))
=============================================================================
