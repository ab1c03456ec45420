---------------------------- MODULE FleetProofs ----------------------------
(***************************************************************************)
(* Proofs about Fleet and the devices it runs, for any number of devices,  *)
(* MQTT clients, slots, calls and tokens, and any environment: type        *)
(* correctness, that a device's flag is honest, and that the fleet is what *)
(* the last call of Scale asked for.                                       *)
(***************************************************************************)
EXTENDS Fleet, TLAPS

-----------------------------------------------------------------------------
(* The inductive invariants.                                               *)

(* A device inside connect waits for its own client; it is partitioned if  *)
(* it dials to heal; it dials after a loss or a flaky disconnect with the  *)
(* flag down, and what sets the flag meanwhile is late.  In sampleLoop the *)
(* flag is up only with the connection, or with its loss being reported,   *)
(* or while the device is partitioned and goes on dialing anyway.          *)
LinkInv(d) ==
  /\ phase[d] = "dial" =>
       /\ client[d] # 0 /\ conn[d][client[d]] = "dialing"
       /\ why[d] = "heal" => part[d]
       /\ why[d] \in {"flaky", "lost"} => (connected[d] => late[d])
  /\ (phase[d] \in {"select", "check"} /\ connected[d] /\ ~late[d]) =>
       Up(d) \/ lost[d] # {} \/ part[d]

(* A device never started is in no slot; one that has exited was told to;  *)
(* slots do not share devices; cached identities come from accepted tokens *)
(* and differ.                                                             *)
SlotInv ==
  /\ \A d \in Device : phase[d] = "off" => ~cancelled[d] /\ \A i \in Slot : slot[i].dev # d
  /\ \A d \in Device : phase[d] = "exited" => cancelled[d]
  /\ \A i \in Slot : slot[i].running => slot[i].dev # 0
  /\ \A i, j \in Slot : (slot[i].dev = slot[j].dev /\ slot[i].dev # 0) => i = j
  /\ \A i \in Slot : file[i] # 0 => file[i] \in used
  /\ \A i, j \in Slot : (file[i] = file[j] /\ file[i] # 0) => i = j

Stopping(i) == \E c \in Call : i \in stop[c]
Starting(i) == \E c \in Call : worker[c][i].pc # "none"

(* Without overlapping calls: one call at a time, whose slots to stop run  *)
(* and are above the target, whose slots to start do neither; every other  *)
(* slot is as the target says.                                             *)
CallInv ==
  /\ \A c, k \in Call : Active(c) /\ Active(k) => c = k
  /\ \A i \in Slot : Stopping(i) => i > target /\ slot[i].running
  /\ \A i \in Slot : Starting(i) => i <= target /\ ~slot[i].running /\ i \notin starved
  /\ \A i \in Slot : slot[i].running => i \notin starved /\ (i <= target \/ Stopping(i))
  /\ \A i \in Slot : (i <= target /\ ~slot[i].running) => i \in starved \/ Starting(i)

(* The devices alive are the slots' own, with the slots' identities, and   *)
(* a worker about to install a device has the slot's identity.             *)
IdentityInv ==
  /\ \A d \in Device : Alive(d) <=> \E i \in Slot : RunsIn(d, i)
  /\ \A i \in Slot : slot[i].dev # 0 => creds[slot[i].dev] = file[i]
  /\ \A c \in Call, i \in Slot :
       /\ worker[c][i].pc = "install" => worker[c][i].arg = file[i]
       /\ worker[c][i].pc \in {"stat", "load", "claim"} => slot[i].dev = 0

(* A worker that claims has a token to claim with.                         *)
TokenInv ==
  \A c \in Call, i \in Slot : worker[c][i].pc = "claim" => worker[c][i].arg # 0

IInv ==
  /\ TypeOK
  /\ \A d \in Device : LinkInv(d)
  /\ TokenInv
  /\ SlotInv
  /\ ~overlap => CallInv /\ IdentityInv
-----------------------------------------------------------------------------
(* A device's own variables.                                               *)

(* What Dial does to the device that dials.                                *)
LEMMA DialEffect ==
  ASSUME DeviceTypeOK, env \in Scenario, NEW d \in Device, NEW reason \in Reason,
         NEW before \in [Client -> {"down", "dialing", "up"}], Dial(d, reason, before)
  PROVE  \E c \in Client :
           /\ before[c] = "down"
           /\ client' = [client EXCEPT ![d] = c]
           /\ conn' = [conn EXCEPT ![d] = [before EXCEPT ![c] = "dialing"]]
           /\ why' = [why EXCEPT ![d] = reason]
           /\ phase' = [phase EXCEPT ![d] = "dial"]
<1>1. env.clients \in 0..MaxClients /\ MaxClients \in Nat
  BY VirtualDeviceAssumption
<1>2. \A c \in 1..env.clients : c \in Client
  BY <1>1 DEF Client
<1>3. QED
  BY <1>2 DEF Dial, Goto

(* Dialing keeps the types.                                                *)
LEMMA DialType ==
  ASSUME DeviceTypeOK, env \in Scenario, NEW d \in Device, NEW reason \in Reason,
         NEW before \in [Client -> {"down", "dialing", "up"}], Dial(d, reason, before)
  PROVE  /\ phase' \in [Device -> Phase]
         /\ why' \in [Device -> Reason]
         /\ client' \in [Device -> 0..MaxClients]
         /\ conn' \in [Device -> [Client -> {"down", "dialing", "up"}]]
<1>1. PICK c \in Client :
        /\ client' = [client EXCEPT ![d] = c]
        /\ conn' = [conn EXCEPT ![d] = [before EXCEPT ![c] = "dialing"]]
        /\ why' = [why EXCEPT ![d] = reason]
        /\ phase' = [phase EXCEPT ![d] = "dial"]
  BY DialEffect
<1>2. c \in 0..MaxClients
  BY VirtualDeviceAssumption DEF Client
<1>3. client' \in [Device -> 0..MaxClients]
  BY <1>1, <1>2 DEF DeviceTypeOK
<1>4. [before EXCEPT ![c] = "dialing"] \in [Client -> {"down", "dialing", "up"}]
  OBVIOUS
<1>5. conn' \in [Device -> [Client -> {"down", "dialing", "up"}]]
  BY <1>1, <1>4 DEF DeviceTypeOK
<1>6. why' \in [Device -> Reason] /\ phase' \in [Device -> Phase]
  BY <1>1 DEF DeviceTypeOK, Phase
<1>7. QED
  BY <1>3, <1>5, <1>6

(* Disconnecting changes only the device's current client.                 *)
LEMMA DisconnectedType ==
  ASSUME DeviceTypeOK, NEW d \in Device
  PROVE  Disconnected(d) \in [Client -> {"down", "dialing", "up"}]
BY DEF DeviceTypeOK, Disconnected

(* A step of a device keeps the types.                                     *)
LEMMA StepType ==
  ASSUME DeviceTypeOK, env \in Scenario, NEW d \in Device, Step(d)
  PROVE  DeviceTypeOK'
<1>1. conn[d] \in [Client -> {"down", "dialing", "up"}] /\ client[d] \in 0..MaxClients
  BY DEF DeviceTypeOK
<1>2. ASSUME RunDials(d) PROVE DeviceTypeOK'
  <2>1. Dial(d, "run", conn[d]) /\ "run" \in Reason
    BY <1>2 DEF RunDials, Reason
  <2>2. QED
    BY <1>1, <1>2, <2>1, DialType DEF RunDials, DeviceTypeOK
<1>3. ASSUME Heal(d) PROVE DeviceTypeOK'
  <2>1. Dial(d, "heal", conn[d]) /\ "heal" \in Reason
    BY <1>3 DEF Heal, Reason
  <2>2. QED
    BY <1>1, <1>3, <2>1, DialType DEF Heal, DeviceTypeOK
<1>4. ASSUME Flaky(d) PROVE DeviceTypeOK'
  <2>1. Dial(d, "flaky", Disconnected(d)) /\ "flaky" \in Reason
    BY <1>4 DEF Flaky, Reason
  <2>2. QED
    BY <1>4, <2>1, DialType, DisconnectedType DEF Flaky, StoreFalse, Strikes, DeviceTypeOK
<1>5. ASSUME Redial(d) PROVE DeviceTypeOK'
  <2>1. Dial(d, "lost", conn[d]) /\ "lost" \in Reason
    BY <1>5 DEF Redial, Reason
  <2>2. QED
    BY <1>1, <1>5, <2>1, DialType DEF Redial, DeviceTypeOK
<1>6. ASSUME DialFails(d) PROVE DeviceTypeOK'
  <2>1. faults' \in Nat
    BY <1>6 DEF DialFails, Strikes, DeviceTypeOK
  <2>2. conn' \in [Device -> [Client -> {"down", "dialing", "up"}]]
    <3>1. conn' = conn \/ conn' = [conn EXCEPT ![d] = [conn[d] EXCEPT ![client[d]] = "down"]]
      BY <1>6 DEF DialFails
    <3>2. [conn[d] EXCEPT ![client[d]] = "down"] \in [Client -> {"down", "dialing", "up"}]
      BY <1>1
    <3>3. QED
      BY <3>1, <3>2 DEF DeviceTypeOK
  <2>3. phase' \in [Device -> Phase]
    BY <1>6 DEF DialFails, Goto, DeviceTypeOK, Phase
  <2>4. QED
    BY <1>6, <2>1, <2>2, <2>3 DEF DialFails, DeviceTypeOK
<1>7. ASSUME NEW c \in Client, Accept(d, c) PROVE DeviceTypeOK'
  <2> DEFINE new == [i \in Client |-> IF i = c THEN "up"
                                      ELSE IF conn[d][i] = "up" THEN "down" ELSE conn[d][i]]
  <2>1. conn' = [conn EXCEPT ![d] = new] /\ new \in [Client -> {"down", "dialing", "up"}]
    BY <1>1, <1>7 DEF Accept
  <2>2. conn' \in [Device -> [Client -> {"down", "dialing", "up"}]]
    BY <2>1 DEF DeviceTypeOK
  <2>3. onc' \in [Device -> [Client -> {"none", "subscribe", "report"}]] /\ lost' \in [Device -> SUBSET Client]
    BY <1>7 DEF Accept, DeviceTypeOK
  <2>4. phase' \in [Device -> Phase]
    <3>1. phase' = phase \/ \E l \in {"check", "select"} : phase' = [phase EXCEPT ![d] = l]
      BY <1>7 DEF Accept, Goto, AfterDial
    <3>2. QED
      BY <3>1 DEF DeviceTypeOK, Phase
  <2>5. part' \in [Device -> BOOLEAN]
    BY <1>7 DEF Accept, DeviceTypeOK
  <2>6. QED
    BY <1>7, <2>2, <2>3, <2>4, <2>5 DEF Accept, DeviceTypeOK
<1>8. ASSUME NEW c \in Client, LateDialFails(d, c) PROVE DeviceTypeOK'
  BY <1>8 DEF LateDialFails, DeviceTypeOK
<1>9. ASSUME NEW c \in Client, OnConnectSubscribes(d, c) PROVE DeviceTypeOK'
  <2>1. faults' \in Nat
    BY <1>9 DEF OnConnectSubscribes, Strikes, DeviceTypeOK
  <2>2. onc' \in [Device -> [Client -> {"none", "subscribe", "report"}]]
    <3>1. PICK s \in {"none", "report"} : onc' = [onc EXCEPT ![d] = [onc[d] EXCEPT ![c] = s]]
      BY <1>9 DEF OnConnectSubscribes
    <3>2. [onc[d] EXCEPT ![c] = s] \in [Client -> {"none", "subscribe", "report"}]
      BY DEF DeviceTypeOK
    <3>3. QED
      BY <3>1, <3>2 DEF DeviceTypeOK
  <2>3. QED
    BY <1>9, <2>1, <2>2 DEF OnConnectSubscribes, DeviceTypeOK
<1>10. ASSUME NEW c \in Client, OnConnectStores(d, c) PROVE DeviceTypeOK'
  BY <1>10 DEF OnConnectStores, Up, DeviceTypeOK
<1>11. ASSUME NEW c \in Client, ConnectionLost(d, c) PROVE DeviceTypeOK'
  BY <1>11 DEF ConnectionLost, Strikes, DeviceTypeOK
<1>12. ASSUME NEW c \in Client, LostHandler(d, c) PROVE DeviceTypeOK'
  BY <1>12 DEF LostHandler, StoreFalse, DeviceTypeOK
<1>13. ASSUME TakePartition(d) PROVE DeviceTypeOK'
  <2>1. conn' \in [Device -> [Client -> {"down", "dialing", "up"}]]
    <3>1. conn' = conn \/ conn' = [conn EXCEPT ![d] = Disconnected(d)]
      BY <1>13 DEF TakePartition
    <3>2. Disconnected(d) \in [Client -> {"down", "dialing", "up"}]
      BY DisconnectedType
    <3>3. QED
      BY <3>1, <3>2 DEF DeviceTypeOK
  <2>2. connected' \in [Device -> BOOLEAN] /\ late' \in [Device -> BOOLEAN] /\ part' \in [Device -> BOOLEAN]
    BY <1>13 DEF TakePartition, StoreFalse, DeviceTypeOK
  <2>3. QED
    BY <1>13, <2>1, <2>2 DEF TakePartition, DeviceTypeOK
<1>14. ASSUME Tick(d) \/ TickEnds(d) PROVE DeviceTypeOK'
  BY <1>14 DEF Tick, TickEnds, Goto, DeviceTypeOK, Phase
<1>15. ASSUME BackoffPasses(d) PROVE DeviceTypeOK'
  BY <1>15 DEF BackoffPasses, DeviceTypeOK
<1>16. ASSUME Exit(d) PROVE DeviceTypeOK'
  <2>1. conn' \in [Device -> [Client -> {"down", "dialing", "up"}]]
    <3>1. conn' = conn \/ conn' = [conn EXCEPT ![d] = Disconnected(d)]
      BY <1>16 DEF Exit
    <3>2. Disconnected(d) \in [Client -> {"down", "dialing", "up"}]
      BY DisconnectedType
    <3>3. QED
      BY <3>1, <3>2 DEF DeviceTypeOK
  <2>2. connected' \in [Device -> BOOLEAN] /\ late' \in [Device -> BOOLEAN]
    BY <1>16 DEF Exit, StoreFalse, DeviceTypeOK
  <2>3. phase' \in [Device -> Phase]
    BY <1>16 DEF Exit, Goto, DeviceTypeOK, Phase
  <2>4. QED
    BY <1>16, <2>1, <2>2, <2>3 DEF Exit, DeviceTypeOK
<1>17. QED
  BY <1>2, <1>3, <1>4, <1>5, <1>6, <1>7, <1>8, <1>9, <1>10, <1>11, <1>12, <1>13, <1>14, <1>15,
     <1>16 DEF Step

(* A step of a device leaves the other devices alone; it never starts one, *)
(* and ends one only if it was told to.                                    *)
LEMMA StepFrame ==
  ASSUME DeviceTypeOK, env \in Scenario, NEW d \in Device, Step(d)
  PROVE  /\ \A x \in Device \ {d} :
              /\ phase'[x] = phase[x] /\ client'[x] = client[x] /\ conn'[x] = conn[x]
              /\ why'[x] = why[x] /\ lost'[x] = lost[x] /\ connected'[x] = connected[x]
              /\ part'[x] = part[x] /\ late'[x] = late[x]
         /\ cancelled' = cancelled
         /\ \/ phase'[d] = phase[d]
            \/ /\ phase[d] \notin {"off", "exited"}
               /\ phase'[d] # "off"
               /\ phase'[d] = "exited" => cancelled[d]
<1> DEFINE Others == \A x \in Device \ {d} :
              /\ phase'[x] = phase[x] /\ client'[x] = client[x] /\ conn'[x] = conn[x]
              /\ why'[x] = why[x] /\ lost'[x] = lost[x] /\ connected'[x] = connected[x]
              /\ part'[x] = part[x] /\ late'[x] = late[x]
           Own == /\ cancelled' = cancelled
                  /\ \/ phase'[d] = phase[d]
                     \/ /\ phase[d] \notin {"off", "exited"}
                        /\ phase'[d] # "off"
                        /\ phase'[d] = "exited" => cancelled[d]
<1>1. ASSUME NEW l \in Phase, phase' = [phase EXCEPT ![d] = l]
      PROVE  phase'[d] = l /\ \A x \in Device \ {d} : phase'[x] = phase[x]
  BY <1>1 DEF DeviceTypeOK
<1>2. conn[d] \in [Client -> {"down", "dialing", "up"}]
  BY DEF DeviceTypeOK
<1>3. ASSUME NEW reason \in Reason, NEW before \in [Client -> {"down", "dialing", "up"}],
             Dial(d, reason, before)
      PROVE  /\ phase'[d] = "dial"
             /\ \A x \in Device \ {d} : /\ phase'[x] = phase[x] /\ client'[x] = client[x]
                                        /\ conn'[x] = conn[x] /\ why'[x] = why[x]
  <2>1. PICK c \in Client :
          /\ client' = [client EXCEPT ![d] = c]
          /\ conn' = [conn EXCEPT ![d] = [before EXCEPT ![c] = "dialing"]]
          /\ why' = [why EXCEPT ![d] = reason]
          /\ phase' = [phase EXCEPT ![d] = "dial"]
    BY <1>3, DialEffect
  <2>2. QED
    BY <2>1 DEF DeviceTypeOK
<1>4. ASSUME RunDials(d) \/ Heal(d) \/ Redial(d) PROVE Others /\ Own
  <2>1. \E reason \in Reason : Dial(d, reason, conn[d])
    BY <1>4 DEF RunDials, Heal, Redial, Reason
  <2>2. phase[d] \notin {"off", "exited"} /\ UNCHANGED <<cancelled, lost, connected, part, late>>
    BY <1>4 DEF RunDials, Heal, Redial
  <2>3. QED
    BY <1>2, <1>3, <2>1, <2>2
<1>5. ASSUME Flaky(d) PROVE Others /\ Own
  <2>1. Dial(d, "flaky", Disconnected(d)) /\ "flaky" \in Reason
    BY <1>5 DEF Flaky, Reason
  <2>2. phase[d] \notin {"off", "exited"} /\ UNCHANGED <<cancelled, lost, part>> /\ StoreFalse(d)
    BY <1>5 DEF Flaky
  <2>3. \A x \in Device \ {d} : connected'[x] = connected[x] /\ late'[x] = late[x]
    BY <2>2 DEF StoreFalse, DeviceTypeOK
  <2>4. QED
    BY <1>3, <2>1, <2>2, <2>3, DisconnectedType
<1>6. ASSUME DialFails(d) PROVE Others /\ Own
  <2>1. PICK l \in {"backoff", "select"} : phase' = [phase EXCEPT ![d] = l]
    BY <1>6 DEF DialFails, Goto
  <2>2. \A x \in Device \ {d} : conn'[x] = conn[x]
    BY <1>6 DEF DialFails, DeviceTypeOK
  <2>3. phase[d] = "dial" /\ UNCHANGED <<why, cancelled, client, lost, connected, part, late>>
    BY <1>6 DEF DialFails
  <2>4. QED
    BY <1>1, <2>1, <2>2, <2>3 DEF Phase
<1>7. ASSUME NEW c \in Client, Accept(d, c) PROVE Others /\ Own
  <2>1. \/ phase' = phase
        \/ phase[d] = "dial" /\ \E l \in {"check", "select"} : phase' = [phase EXCEPT ![d] = l]
    BY <1>7 DEF Accept, Goto, AfterDial
  <2>2. \A x \in Device \ {d} : conn'[x] = conn[x] /\ lost'[x] = lost[x] /\ part'[x] = part[x]
    BY <1>7 DEF Accept, DeviceTypeOK
  <2>3. UNCHANGED <<why, cancelled, client, connected, late>>
    BY <1>7 DEF Accept
  <2>4. QED
    BY <1>1, <2>1, <2>2, <2>3 DEF Phase
<1>8. ASSUME NEW c \in Client, LateDialFails(d, c) \/ OnConnectSubscribes(d, c) \/ OnConnectStores(d, c)
      PROVE  Others /\ Own
  BY <1>8 DEF LateDialFails, OnConnectSubscribes, OnConnectStores, DeviceTypeOK
<1>9. ASSUME NEW c \in Client, ConnectionLost(d, c) \/ LostHandler(d, c) PROVE Others /\ Own
  BY <1>9 DEF ConnectionLost, LostHandler, StoreFalse, DeviceTypeOK
<1>10. ASSUME TakePartition(d) PROVE Others /\ Own
  BY <1>10 DEF TakePartition, StoreFalse, DeviceTypeOK
<1>11. ASSUME Tick(d) \/ TickEnds(d) PROVE Others /\ Own
  BY <1>11 DEF Tick, TickEnds, Goto, DeviceTypeOK
<1>12. ASSUME BackoffPasses(d) PROVE Others /\ Own
  BY <1>12 DEF BackoffPasses
<1>13. ASSUME Exit(d) PROVE Others /\ Own
  BY <1>13 DEF Exit, StoreFalse, Goto, DeviceTypeOK
<1>14. QED
  BY <1>4, <1>5, <1>6, <1>7, <1>8, <1>9, <1>10, <1>11, <1>12, <1>13 DEF Step

(* A step of a device keeps its flag honest.                               *)
LEMMA StepLink ==
  ASSUME DeviceTypeOK, env \in Scenario, NEW d \in Device, Step(d), LinkInv(d)
  PROVE  LinkInv(d)'
<1>1. /\ conn[d] \in [Client -> {"down", "dialing", "up"}] /\ client[d] \in 0..MaxClients
      /\ connected[d] \in BOOLEAN /\ late[d] \in BOOLEAN /\ part[d] \in BOOLEAN
  BY DEF DeviceTypeOK
<1>2. \A c \in Client : c # 0
  BY DEF Client
<1>3. ASSUME NEW reason \in Reason, NEW before \in [Client -> {"down", "dialing", "up"}],
             Dial(d, reason, before),
             reason = "heal" => part'[d],
             reason \in {"flaky", "lost"} => ~connected'[d]
      PROVE  LinkInv(d)'
  <2>1. PICK c \in Client :
          /\ client' = [client EXCEPT ![d] = c]
          /\ conn' = [conn EXCEPT ![d] = [before EXCEPT ![c] = "dialing"]]
          /\ why' = [why EXCEPT ![d] = reason]
          /\ phase' = [phase EXCEPT ![d] = "dial"]
    BY <1>3, DialEffect
  <2>2. phase'[d] = "dial" /\ client'[d] = c /\ conn'[d][c] = "dialing" /\ why'[d] = reason
    BY <2>1 DEF DeviceTypeOK
  <2>3. QED
    BY <1>2, <1>3, <2>2 DEF LinkInv
<1>4. ASSUME RunDials(d) PROVE LinkInv(d)'
  BY <1>1, <1>3, <1>4 DEF RunDials, Reason
<1>5. ASSUME Heal(d) PROVE LinkInv(d)'
  BY <1>1, <1>3, <1>5 DEF Heal, Reason
<1>6. ASSUME Redial(d) PROVE LinkInv(d)'
  BY <1>1, <1>3, <1>6 DEF Redial, Reason
<1>7. ASSUME Flaky(d) PROVE LinkInv(d)'
  <2>1. ~connected'[d]
    BY <1>7 DEF Flaky, StoreFalse, DeviceTypeOK
  <2>2. QED
    BY <1>3, <1>7, <2>1, DisconnectedType DEF Flaky, Reason
<1>8. ASSUME DialFails(d) PROVE LinkInv(d)'
  <2>1. /\ phase[d] = "dial" /\ connected' = connected /\ late' = late /\ part' = part
        /\ phase'[d] = IF why[d] = "run" THEN "backoff" ELSE "select"
    BY <1>8 DEF DialFails, Goto, DeviceTypeOK
  <2>2. why[d] \in {"run", "heal", "flaky", "lost"}
    BY DEF DeviceTypeOK, Reason
  <2>3. phase'[d] = "select" => (connected[d] /\ ~late[d] => part[d])
    BY <2>1, <2>2 DEF LinkInv
  <2>4. QED
    BY <2>1, <2>3 DEF LinkInv
<1>9. ASSUME NEW c \in Client, Accept(d, c) PROVE LinkInv(d)'
  <2>1. /\ conn[d][c] = "dialing" /\ conn'[d][c] = "up"
        /\ \A i \in Client \ {c} : conn'[d][i] = IF conn[d][i] = "up" THEN "down" ELSE conn[d][i]
        /\ lost'[d] = lost[d] \union {i \in Client : conn[d][i] = "up"}
    BY <1>9 DEF Accept, DeviceTypeOK
  <2>2. client' = client /\ why' = why /\ connected' = connected /\ late' = late
    BY <1>9 DEF Accept
  <2>3. CASE client[d] = c
    <3>1. phase'[d] # "dial"
      BY <1>9, <2>3 DEF Accept, Goto, AfterDial, DeviceTypeOK
    <3>2. Up(d)'
      BY <1>2, <2>1, <2>2, <2>3 DEF Up
    <3>3. QED
      BY <3>1, <3>2 DEF LinkInv
  <2>4. CASE client[d] # c
    <3>1. phase' = phase /\ part' = part
      BY <1>9, <2>4 DEF Accept
    <3>2. client[d] # 0 => client[d] \in Client
      BY <1>1 DEF Client
    <3>3. phase[d] = "dial" => conn'[d][client[d]] = "dialing"
      BY <2>1, <2>4, <3>2 DEF LinkInv
    <3>4. Up(d) => lost'[d] # {}
      BY <2>1, <3>2 DEF Up
    <3>5. lost[d] # {} => lost'[d] # {}
      BY <2>1
    <3>6. QED
      BY <2>2, <3>1, <3>3, <3>4, <3>5 DEF LinkInv
  <2>5. QED
    BY <2>3, <2>4
<1>10. ASSUME NEW c \in Client, LateDialFails(d, c) PROVE LinkInv(d)'
  <2>1. /\ conn[d][c] = "dialing" /\ ~(phase[d] = "dial" /\ client[d] = c)
        /\ conn'[d][c] = "down" /\ \A i \in Client \ {c} : conn'[d][i] = conn[d][i]
        /\ UNCHANGED <<phase, why, client, lost, connected, part, late>>
    BY <1>10 DEF LateDialFails, DeviceTypeOK
  <2>2. client[d] # 0 => client[d] \in Client
    BY <1>1 DEF Client
  <2>3. QED
    BY <2>1, <2>2 DEF LinkInv, Up
<1>11. ASSUME NEW c \in Client, OnConnectSubscribes(d, c) PROVE LinkInv(d)'
  BY <1>11 DEF OnConnectSubscribes, LinkInv, Up
<1>12. ASSUME NEW c \in Client, OnConnectStores(d, c) PROVE LinkInv(d)'
  <2>1. /\ late'[d] = ~Up(d) /\ UNCHANGED <<phase, why, client, conn, lost, part>>
    BY <1>12 DEF OnConnectStores, DeviceTypeOK
  <2>2. phase[d] = "dial" => ~Up(d)
    BY DEF LinkInv, Up
  <2>3. Up(d)' = Up(d)
    BY <2>1 DEF Up
  <2>4. QED
    BY <2>1, <2>2, <2>3 DEF LinkInv
<1>13. ASSUME NEW c \in Client, ConnectionLost(d, c) PROVE LinkInv(d)'
  <2>1. /\ conn[d][c] = "up" /\ lost'[d] # {}
        /\ \A i \in Client \ {c} : conn'[d][i] = conn[d][i]
        /\ UNCHANGED <<phase, why, client, connected, part, late>>
    BY <1>13 DEF ConnectionLost, DeviceTypeOK
  <2>2. client[d] # 0 => client[d] \in Client
    BY <1>1 DEF Client
  <2>3. QED
    BY <2>1, <2>2 DEF LinkInv
<1>14. ASSUME NEW c \in Client, LostHandler(d, c) PROVE LinkInv(d)'
  <2>1. ~connected'[d] /\ UNCHANGED <<phase, why, client, conn, part>>
    BY <1>14 DEF LostHandler, StoreFalse, DeviceTypeOK
  <2>2. QED
    BY <2>1 DEF LinkInv
<1>15. ASSUME TakePartition(d) PROVE LinkInv(d)'
  <2>1. part'[d] /\ phase[d] = "select" /\ phase' = phase
    BY <1>15 DEF TakePartition, DeviceTypeOK
  <2>2. QED
    BY <2>1 DEF LinkInv
<1>16. ASSUME Tick(d) \/ TickEnds(d) PROVE LinkInv(d)'
  <2>1. /\ phase[d] \in {"select", "check"} /\ phase'[d] \in {"select", "check"}
        /\ UNCHANGED <<client, conn, lost, connected, part, late>>
    BY <1>16 DEF Tick, TickEnds, Goto, DeviceTypeOK
  <2>2. QED
    BY <2>1 DEF LinkInv, Up
<1>17. ASSUME BackoffPasses(d) PROVE LinkInv(d)'
  BY <1>17 DEF BackoffPasses, LinkInv, Up
<1>18. ASSUME Exit(d) PROVE LinkInv(d)'
  <2>1. phase'[d] = "exited"
    BY <1>18 DEF Exit, Goto, DeviceTypeOK
  <2>2. QED
    BY <2>1 DEF LinkInv
<1>19. QED
  BY <1>4, <1>5, <1>6, <1>7, <1>8, <1>9, <1>10, <1>11, <1>12, <1>13, <1>14, <1>15, <1>16, <1>17,
     <1>18 DEF Step
-----------------------------------------------------------------------------
(* The manager's types.                                                    *)

ManagerType ==
  /\ target \in 0..MaxSlots
  /\ slot \in [Slot -> [dev : 0..MaxDevices, running : BOOLEAN]]
  /\ next \in 0..Tokens
  /\ stop \in [Call -> SUBSET Slot]
  /\ worker \in [Call -> [Slot -> Worker]]
  /\ picked \in SUBSET Device
  /\ creds \in [Device -> 0..Tokens]
  /\ scaled \in Nat
  /\ file \in [Slot -> 0..Tokens]
  /\ used \in SUBSET (1..Tokens)
  /\ starved \in SUBSET Slot
  /\ overlap \in BOOLEAN

(* TypeOK is its parts.                                                    *)
LEMMA TypeParts ==
  TypeOK <=> env \in Scenario /\ DeviceTypeOK /\ ManagerType
BY DEF TypeOK, ManagerType

(* A worker goes on to pc with arg, the others stay where they are.        *)
LEMMA GotoEffect ==
  ASSUME ManagerType, NEW c \in Call, NEW i \in Slot,
         NEW pc \in {"none", "creds", "stat", "load", "claim", "install"}, NEW arg \in 0..Tokens,
         GotoWith(c, i, pc, arg)
  PROVE  /\ worker' \in [Call -> [Slot -> Worker]]
         /\ worker'[c][i].pc = pc /\ worker'[c][i].arg = arg
         /\ \A k \in Call, j \in Slot : (k # c \/ j # i) => worker'[k][j] = worker[k][j]
<1> DEFINE w == [worker[c][i] EXCEPT !.pc = pc, !.arg = arg]
<1>1. worker[c][i] \in Worker /\ worker[c] \in [Slot -> Worker]
  BY DEF ManagerType
<1>2. w \in Worker /\ w.pc = pc /\ w.arg = arg
  BY <1>1 DEF Worker
<1>3. worker' = [worker EXCEPT ![c] = [worker[c] EXCEPT ![i] = w]]
  BY DEF GotoWith, ManagerType
<1> HIDE DEF w
<1>4. [worker[c] EXCEPT ![i] = w] \in [Slot -> Worker]
  BY <1>1, <1>2
<1>5. worker' \in [Call -> [Slot -> Worker]]
  BY <1>3, <1>4 DEF ManagerType
<1>6. worker'[c][i] = w
  BY <1>1, <1>3 DEF ManagerType
<1>7. \A k \in Call, j \in Slot : (k # c \/ j # i) => worker'[k][j] = worker[k][j]
  BY <1>1, <1>3 DEF ManagerType
<1>8. QED
  BY <1>2, <1>5, <1>6, <1>7

(* The worker of call c for slot i ends.                                   *)
Ends(c, i) == worker' = [worker EXCEPT ![c][i] = NoWorker]

(* A worker ends, the others stay where they are.                          *)
LEMMA EndEffect ==
  ASSUME ManagerType, NEW c \in Call, NEW i \in Slot, Ends(c, i)
  PROVE  /\ worker' \in [Call -> [Slot -> Worker]]
         /\ worker'[c][i].pc = "none"
         /\ \A k \in Call, j \in Slot : (k # c \/ j # i) => worker'[k][j] = worker[k][j]
<1>1. worker[c] \in [Slot -> Worker] /\ NoWorker \in Worker /\ NoWorker.pc = "none"
  BY FleetAssumption DEF ManagerType, NoWorker, Worker
<1>2. worker' = [worker EXCEPT ![c] = [worker[c] EXCEPT ![i] = NoWorker]]
  BY DEF Ends
<1>3. [worker[c] EXCEPT ![i] = NoWorker] \in [Slot -> Worker]
  BY <1>1
<1>4. worker' \in [Call -> [Slot -> Worker]]
  BY <1>2, <1>3 DEF ManagerType
<1>5. worker'[c][i] = NoWorker
  BY <1>1, <1>2 DEF ManagerType
<1>6. \A k \in Call, j \in Slot : (k # c \/ j # i) => worker'[k][j] = worker[k][j]
  BY <1>1, <1>2 DEF ManagerType
<1>7. QED
  BY <1>1, <1>4, <1>5, <1>6

(* What a process that has just started has.                               *)
LEMMA FreshSlots ==
  /\ NoSlots \in [Slot -> [dev : 0..MaxDevices, running : BOOLEAN]]
  /\ NoWorkers \in [Call -> [Slot -> Worker]]
  /\ \A i \in Slot : NoSlots[i].dev = 0 /\ ~NoSlots[i].running
  /\ \A c \in Call, i \in Slot : NoWorkers[c][i].pc = "none"
<1>1. 0 \in 0..MaxDevices /\ 0 \in 0..Tokens
  BY FleetAssumption, VirtualDeviceAssumption
<1>2. NoWorker \in Worker /\ NoWorker.pc = "none"
  BY <1>1 DEF NoWorker, Worker
<1>3. NoWorkers \in [Call -> [Slot -> Worker]] /\ \A c \in Call, i \in Slot : NoWorkers[c][i].pc = "none"
  BY <1>2 DEF NoWorkers
<1>4. QED
  BY <1>1, <1>3 DEF NoSlots

(* No device was started.                                                  *)
LEMMA FreshType ==
  Init => TypeOK
<1> SUFFICES ASSUME Init PROVE TypeOK
  OBVIOUS
<1>1. DeviceTypeOK
  BY VirtualDeviceAssumption DEF Init, NoDevices, Every, DeviceTypeOK, Phase, Reason
<1>2. ManagerType
  <2>1. /\ 0 \in 0..MaxSlots /\ 0 \in 0..Tokens /\ 0 \in 0..MaxDevices /\ 0 \in Nat
        /\ stop \in [Call -> SUBSET Slot] /\ creds = Every(0)
    BY FleetAssumption, VirtualDeviceAssumption DEF Init
  <2>2. QED
    BY <2>1, FreshSlots DEF Init, ManagerType, Every
<1>3. QED
  BY <1>1, <1>2, TypeParts DEF Init

(* The manager's steps keep the types of the devices ...                   *)
LEMMA NextDeviceType ==
  ASSUME TypeOK, [Next]_vars
  PROVE  DeviceTypeOK'
<1>1. env \in Scenario /\ DeviceTypeOK /\ ManagerType
  BY TypeParts
<1>2. ASSUME NEW d \in Device, Step(d) PROVE DeviceTypeOK'
  BY <1>1, <1>2, StepType
<1>3. ASSUME UNCHANGED deviceVars PROVE DeviceTypeOK'
  BY <1>1, <1>3 DEF deviceVars, DeviceTypeOK
<1>4. ASSUME NEW c \in Call, NEW n \in 0..MaxSlots, Scale(c, n) PROVE DeviceTypeOK'
  BY <1>3, <1>4 DEF Scale
<1>5. ASSUME NEW c \in Call, StopSlot(c) PROVE DeviceTypeOK'
  BY <1>1, <1>5 DEF StopSlot, DeviceTypeOK
<1>6. ASSUME NEW c \in Call, NEW i \in Slot, CheckCreds(c, i) \/ TakeToken(c, i) \/ Load(c, i)
      PROVE  DeviceTypeOK'
  BY <1>3, <1>6 DEF CheckCreds, TakeToken, Load
<1>7. ASSUME NEW c \in Call, NEW i \in Slot, Claim(c, i) PROVE DeviceTypeOK'
  <2>1. faults' \in Nat
    BY <1>1, <1>7 DEF Claim, Strikes, DeviceTypeOK
  <2>2. QED
    BY <1>1, <1>7, <2>1 DEF Claim, DeviceTypeOK
<1>8. ASSUME NEW c \in Call, NEW i \in Slot, Install(c, i) PROVE DeviceTypeOK'
  <2>1. phase' \in [Device -> Phase]
    BY <1>1, <1>8 DEF Install, Goto, DeviceTypeOK, Phase
  <2>2. QED
    BY <1>1, <1>8, <2>1 DEF Install, DeviceTypeOK
<1>9. ASSUME Partition PROVE DeviceTypeOK'
  BY <1>1, <1>9 DEF Partition, Strikes, DeviceTypeOK
<1>10. ASSUME NEW d \in Device, SendPartition(d) PROVE DeviceTypeOK'
  BY <1>1, <1>10 DEF SendPartition, DeviceTypeOK
<1>11. ASSUME Restart PROVE DeviceTypeOK'
  BY <1>1, <1>11, VirtualDeviceAssumption
     DEF Restart, DevicesGone, Strikes, Every, DeviceTypeOK, Phase, Reason
<1>12. ASSUME UNCHANGED vars PROVE DeviceTypeOK'
  BY <1>3, <1>12 DEF vars
<1>13. QED
  BY <1>2, <1>4, <1>5, <1>6, <1>7, <1>8, <1>9, <1>10, <1>11, <1>12 DEF Next, Start

(* ... and their own.                                                      *)
LEMMA NextManagerType ==
  ASSUME TypeOK, TokenInv, [Next]_vars
  PROVE  ManagerType'
<1>1. env \in Scenario /\ DeviceTypeOK /\ ManagerType
  BY TypeParts
<1>2. ASSUME UNCHANGED fleetVars PROVE ManagerType'
  BY <1>1, <1>2 DEF fleetVars, ManagerType
<1>3. ASSUME NEW c \in Call, NEW n \in 0..MaxSlots, Scale(c, n) PROVE ManagerType'
  <2>1. worker' \in [Call -> [Slot -> Worker]]
    <3> DEFINE toStart == {i \in Slot : i <= n /\ ~slot[i].running}
               new == [i \in Slot |-> IF i \in toStart
                        THEN [pc |-> "creds", arg |-> 0, delayed |-> \E j \in toStart : j < i]
                        ELSE NoWorker]
    <3>1. new \in [Slot -> Worker]
      BY FleetAssumption DEF Worker, NoWorker
    <3>2. worker' = [worker EXCEPT ![c] = new]
      BY <1>3 DEF Scale
    <3>3. QED
      BY <1>1, <3>1, <3>2 DEF ManagerType
  <2>2. stop' \in [Call -> SUBSET Slot] /\ starved' \in SUBSET Slot /\ scaled' \in Nat
    BY <1>1, <1>3 DEF Scale, ManagerType
  <2>3. overlap' \in BOOLEAN
    BY <1>3 DEF Scale
  <2>4. QED
    BY <1>1, <1>3, <2>1, <2>2, <2>3 DEF Scale, ManagerType
<1>4. ASSUME NEW c \in Call, StopSlot(c) PROVE ManagerType'
  <2>1. PICK i \in stop[c] : /\ stop' = [stop EXCEPT ![c] = @ \ {i}]
                             /\ slot' = [slot EXCEPT ![i].running = FALSE]
    BY <1>4 DEF StopSlot
  <2>2. i \in Slot /\ stop' \in [Call -> SUBSET Slot]
    BY <1>1, <2>1 DEF ManagerType
  <2>3. slot' \in [Slot -> [dev : 0..MaxDevices, running : BOOLEAN]]
    BY <1>1, <2>1, <2>2 DEF ManagerType
  <2>4. QED
    BY <1>1, <1>4, <2>2, <2>3 DEF StopSlot, ManagerType
<1>5. ASSUME NEW c \in Call, NEW i \in Slot, CheckCreds(c, i) PROVE ManagerType'
  <2>1. \E p \in {"stat", "install"}, a \in 0..Tokens : GotoWith(c, i, p, a)
    <3>1. slot[i].dev # 0 => creds[slot[i].dev] \in 0..Tokens
      BY <1>1, VirtualDeviceAssumption DEF ManagerType, Device
    <3>2. QED
      BY <1>5, <3>1, FleetAssumption DEF CheckCreds
  <2>2. worker' \in [Call -> [Slot -> Worker]]
    BY <1>1, <2>1, GotoEffect
  <2>3. QED
    BY <1>1, <1>5, <2>2 DEF CheckCreds, ManagerType
<1>6. ASSUME NEW c \in Call, NEW i \in Slot, TakeToken(c, i) PROVE ManagerType'
  <2> DEFINE t == IF file[i] = 0 THEN Take ELSE 0
  <2>1. t \in 0..Tokens
    BY <1>1, FleetAssumption DEF Take, ManagerType
  <2>2. GotoWith(c, i, "load", t) /\ next' = IF t = 0 THEN next ELSE t
    BY <1>6 DEF TakeToken
  <2> HIDE DEF t
  <2>3. worker' \in [Call -> [Slot -> Worker]] /\ next' \in 0..Tokens
    BY <1>1, <2>1, <2>2, GotoEffect DEF ManagerType
  <2>4. QED
    BY <1>1, <1>6, <2>3 DEF TakeToken, ManagerType
<1>7. ASSUME NEW c \in Call, NEW i \in Slot, ClaimFailed(c, i)
      PROVE  worker' \in [Call -> [Slot -> Worker]] /\ starved' \in SUBSET Slot
  <2>1. Ends(c, i) /\ starved' = starved \union {i}
    BY <1>7 DEF ClaimFailed, Ends
  <2>2. QED
    BY <1>1, <2>1, EndEffect DEF ManagerType
<1>8. ASSUME NEW c \in Call, NEW i \in Slot, Load(c, i) PROVE ManagerType'
  <2>1. file[i] \in 0..Tokens /\ worker[c][i].arg \in 0..Tokens
    BY <1>1 DEF ManagerType, Worker
  <2>2. worker' \in [Call -> [Slot -> Worker]] /\ starved' \in SUBSET Slot
    <3>1. CASE ClaimFailed(c, i)
      BY <1>7, <3>1
    <3>2. CASE (\E p \in {"install", "claim"}, a \in 0..Tokens : GotoWith(c, i, p, a)) /\ starved' = starved
      BY <1>1, <3>2, GotoEffect DEF ManagerType
    <3>3. QED
      BY <1>8, <2>1, <3>1, <3>2 DEF Load
  <2>3. QED
    BY <1>1, <1>8, <2>2 DEF Load, ManagerType
<1>9. ASSUME NEW c \in Call, NEW i \in Slot, Claim(c, i) PROVE ManagerType'
  <2>1. worker[c][i].arg \in 0..Tokens
    BY <1>1 DEF ManagerType, Worker
  <2>2. worker' \in [Call -> [Slot -> Worker]] /\ starved' \in SUBSET Slot
    <3>1. CASE ClaimFailed(c, i)
      BY <1>7, <3>1
    <3>2. CASE GotoWith(c, i, "install", worker[c][i].arg) /\ starved' = starved
      BY <1>1, <2>1, <3>2, GotoEffect DEF ManagerType
    <3>3. QED
      BY <1>9, <3>1, <3>2 DEF Claim
  <2>3. file' \in [Slot -> 0..Tokens]
    BY <1>1, <1>9, <2>1 DEF Claim, ManagerType
  <2>4. used' \in SUBSET (1..Tokens)
    <3>1. worker[c][i].arg \in 1..Tokens
      BY <1>9, <2>1, FleetAssumption DEF Claim, At, TokenInv
    <3>2. used' \in {used, used \union {worker[c][i].arg}}
      BY <1>9 DEF Claim
    <3>3. QED
      BY <1>1, <3>1, <3>2 DEF ManagerType
  <2>5. QED
    BY <1>1, <1>9, <2>2, <2>3, <2>4 DEF Claim, ManagerType
<1>10. ASSUME NEW c \in Call, NEW i \in Slot, Install(c, i) PROVE ManagerType'
  <2>1. worker[c][i].arg \in 0..Tokens
    BY <1>1 DEF ManagerType, Worker
  <2>2. PICK d \in Device : /\ slot' = [slot EXCEPT ![i] = [dev |-> d, running |-> TRUE]]
                            /\ creds' = [creds EXCEPT ![d] = worker[c][i].arg]
    BY <1>10 DEF Install
  <2>3. d \in 0..MaxDevices
    BY VirtualDeviceAssumption DEF Device
  <2>4. slot' \in [Slot -> [dev : 0..MaxDevices, running : BOOLEAN]]
    BY <1>1, <2>2, <2>3 DEF ManagerType
  <2>5. creds' \in [Device -> 0..Tokens]
    BY <1>1, <2>1, <2>2 DEF ManagerType
  <2>6. worker' \in [Call -> [Slot -> Worker]]
    <3>1. Ends(c, i)
      BY <1>10 DEF Install, Ends
    <3>2. QED
      BY <1>1, <3>1, EndEffect
  <2>7. QED
    BY <1>1, <1>10, <2>4, <2>5, <2>6 DEF Install, ManagerType
<1>11. ASSUME Partition PROVE ManagerType'
  <2>1. picked' \in SUBSET Device
    BY <1>11 DEF Partition
  <2>2. QED
    BY <1>1, <1>11, <2>1 DEF Partition, ManagerType
<1>12. ASSUME NEW d \in Device, SendPartition(d) PROVE ManagerType'
  BY <1>1, <1>12 DEF SendPartition, ManagerType
<1>13. ASSUME Restart PROVE ManagerType'
  <2>1. 0 \in 0..MaxSlots /\ 0 \in 0..Tokens
    BY FleetAssumption
  <2>2. /\ target' \in 0..MaxSlots /\ next' \in 0..Tokens /\ creds' \in [Device -> 0..Tokens]
        /\ slot' = NoSlots /\ worker' = NoWorkers /\ stop' \in [Call -> SUBSET Slot]
        /\ picked' \in SUBSET Device /\ starved' \in SUBSET Slot
    BY <1>13, <2>1 DEF Restart, Every
  <2>3. QED
    BY <1>1, <1>13, <2>2, FreshSlots DEF Restart, ManagerType
<1>14. ASSUME UNCHANGED vars PROVE ManagerType'
  BY <1>2, <1>14 DEF vars
<1>15. QED
  BY <1>2, <1>3, <1>4, <1>5, <1>6, <1>8, <1>9, <1>10, <1>11, <1>12, <1>13, <1>14 DEF Next, Start
-----------------------------------------------------------------------------
(* The link of every device through the steps of the manager.              *)

(* What the manager does to a device's link: nothing, or it starts it.     *)
LEMMA LinkKept ==
  ASSUME NEW d \in Device, LinkInv(d),
         phase'[d] = phase[d] \/ phase'[d] \in {"start", "delay"},
         UNCHANGED <<why, client, conn, lost, connected, part, late>>
  PROVE  LinkInv(d)'
BY DEF LinkInv, Up

(* Every step keeps the invariant of every link.                           *)
LEMMA NextLink ==
  ASSUME TypeOK, \A d \in Device : LinkInv(d), [Next]_vars
  PROVE  \A d \in Device : LinkInv(d)'
<1> SUFFICES ASSUME NEW x \in Device PROVE LinkInv(x)'
  OBVIOUS
<1>1. env \in Scenario /\ DeviceTypeOK /\ LinkInv(x)
  BY TypeParts
<1>2. ASSUME NEW d \in Device, Step(d) PROVE LinkInv(x)'
  <2>1. CASE x = d
    BY <1>1, <1>2, <2>1, StepLink
  <2>2. CASE x # d
    <3>1. /\ phase'[x] = phase[x] /\ client'[x] = client[x] /\ conn'[x] = conn[x]
          /\ why'[x] = why[x] /\ lost'[x] = lost[x] /\ connected'[x] = connected[x]
          /\ part'[x] = part[x] /\ late'[x] = late[x]
      BY <1>1, <1>2, <2>2, StepFrame
    <3>2. QED
      BY <1>1, <3>1 DEF LinkInv, Up
  <2>3. QED
    BY <2>1, <2>2
<1>3. ASSUME UNCHANGED <<phase, why, client, conn, lost, connected, part, late>> PROVE LinkInv(x)'
  BY <1>1, <1>3, LinkKept
<1>4. ASSUME NEW c \in Call, NEW n \in 0..MaxSlots, Scale(c, n) PROVE LinkInv(x)'
  BY <1>3, <1>4 DEF Scale, deviceVars
<1>5. ASSUME NEW c \in Call, StopSlot(c) PROVE LinkInv(x)'
  BY <1>3, <1>5 DEF StopSlot
<1>6. ASSUME NEW c \in Call, NEW i \in Slot, CheckCreds(c, i) \/ TakeToken(c, i) \/ Load(c, i)
      PROVE  LinkInv(x)'
  BY <1>3, <1>6 DEF CheckCreds, TakeToken, Load, deviceVars
<1>7. ASSUME NEW c \in Call, NEW i \in Slot, Claim(c, i) PROVE LinkInv(x)'
  BY <1>3, <1>7 DEF Claim
<1>8. ASSUME NEW c \in Call, NEW i \in Slot, Install(c, i) PROVE LinkInv(x)'
  <2>1. phase'[x] = phase[x] \/ phase'[x] \in {"start", "delay"}
    BY <1>1, <1>8 DEF Install, Goto, DeviceTypeOK
  <2>2. QED
    BY <1>1, <1>8, <2>1, LinkKept DEF Install
<1>9. ASSUME Partition PROVE LinkInv(x)'
  BY <1>3, <1>9 DEF Partition
<1>10. ASSUME NEW d \in Device, SendPartition(d) PROVE LinkInv(x)'
  BY <1>3, <1>10 DEF SendPartition
<1>11. ASSUME Restart PROVE LinkInv(x)'
  <2>1. phase'[x] = "off"
    BY <1>11 DEF Restart, DevicesGone, Every
  <2>2. QED
    BY <2>1 DEF LinkInv
<1>12. ASSUME UNCHANGED vars PROVE LinkInv(x)'
  BY <1>3, <1>12 DEF vars, deviceVars
<1>13. QED
  BY <1>2, <1>4, <1>5, <1>6, <1>7, <1>8, <1>9, <1>10, <1>11, <1>12 DEF Next, Start

-----------------------------------------------------------------------------
(* Slots, calls and identities, one lemma for each kind of step.           *)

(* The part of the inductive invariant that is about the manager.          *)
ManagerInv == TokenInv /\ SlotInv /\ (~overlap => CallInv /\ IdentityInv)

(* Steps that neither start nor end a device, nor move a call.             *)
LEMMA DevicesOnly ==
  ASSUME ManagerInv,
         \A d \in Device : /\ (phase'[d] = "off") <=> (phase[d] = "off")
                           /\ (phase'[d] = "exited") => cancelled[d]
                           /\ (phase[d] = "exited") => phase'[d] = "exited",
         UNCHANGED <<cancelled, target, slot, stop, worker, creds, file, used, starved, overlap>>
  PROVE  ManagerInv'
<1>1. TokenInv' /\ SlotInv'
  BY DEF ManagerInv, TokenInv, SlotInv
<1>2. CallInv => CallInv'
  BY DEF CallInv, Stopping, Starting, Active
<1>3. \A d \in Device : Alive(d)' <=> Alive(d)
  BY DEF Alive, ManagerInv, SlotInv
<1>4. IdentityInv => IdentityInv'
  BY <1>3 DEF IdentityInv, RunsIn
<1>5. QED
  BY <1>1, <1>2, <1>4 DEF ManagerInv

(* A worker that goes on leaves its call as active as it was.              *)
LEMMA MoveKeepsCalls ==
  ASSUME NEW c \in Call, NEW i \in Slot, CallInv,
         worker[c][i].pc # "none", worker'[c][i].pc # "none",
         \A k \in Call, j \in Slot : (k # c \/ j # i) => worker'[k][j] = worker[k][j],
         UNCHANGED <<target, slot, stop, starved>>
  PROVE  CallInv'
<1>1. \A k \in Call, j \in Slot : (worker'[k][j].pc # "none") <=> (worker[k][j].pc # "none")
  OBVIOUS
<1>2. \A k \in Call : Active(k)' <=> Active(k)
  BY <1>1 DEF Active
<1>3. \A j \in Slot : (Starting(j)' <=> Starting(j)) /\ (Stopping(j)' <=> Stopping(j))
  BY <1>1 DEF Starting, Stopping
<1>4. QED
  BY <1>2, <1>3 DEF CallInv

(* No other call works on slot i when c's worker does.                     *)
LEMMA SoleWorker ==
  ASSUME NEW c \in Call, NEW i \in Slot, CallInv, worker[c][i].pc # "none"
  PROVE  \A k \in Call, j \in Slot : worker[k][j].pc # "none" => k = c
BY DEF CallInv, Active

(* A worker whose claim fails ends and leaves its slot starved.            *)
LEMMA FailureKeepsCalls ==
  ASSUME ManagerType, NEW c \in Call, NEW i \in Slot, CallInv,
         worker[c][i].pc # "none", ClaimFailed(c, i), UNCHANGED <<target, slot, stop>>
  PROVE  CallInv'
<1>1. /\ worker'[c][i].pc = "none" /\ starved' = starved \union {i}
      /\ \A k \in Call, j \in Slot : (k # c \/ j # i) => worker'[k][j] = worker[k][j]
  <2>1. Ends(c, i) /\ starved' = starved \union {i}
    BY DEF ClaimFailed, Ends
  <2>2. QED
    BY <2>1, EndEffect
<1>2. \A k \in Call : Active(k)' => Active(k)
  BY <1>1 DEF Active
<1>3. \A j \in Slot : Starting(j)' => Starting(j) /\ j # i
  BY <1>1, SoleWorker DEF Starting
<1>4. \A j \in Slot : j # i => (Starting(j) => Starting(j)')
  BY <1>1 DEF Starting
<1>5. Starting(i)
  BY DEF Starting
<1>6. \A j \in Slot : Stopping(j)' <=> Stopping(j)
  BY DEF Stopping
<1>7. QED
  BY <1>1, <1>2, <1>3, <1>4, <1>5, <1>6 DEF CallInv

(* Scale, once no other call is in progress, plans for exactly the slots   *)
(* that are not as the new target says.                                    *)
LEMMA ScaleKeeps ==
  ASSUME TypeOK, ManagerInv, NEW c \in Call, NEW n \in 0..MaxSlots, Scale(c, n)
  PROVE  ManagerInv'
<1> DEFINE toStart == {i \in Slot : i <= n /\ ~slot[i].running}
           new == [i \in Slot |-> IF i \in toStart
                    THEN [pc |-> "creds", arg |-> 0, delayed |-> \E j \in toStart : j < i]
                    ELSE NoWorker]
<1>1. ManagerType
  BY TypeParts
<1>2. \A i \in Slot : new[i].pc = IF i \in toStart THEN "creds" ELSE "none"
  BY DEF NoWorker
<1>3. worker' = [worker EXCEPT ![c] = new]
  BY DEF Scale
<1>4. /\ \A i \in Slot : worker'[c][i].pc = IF i \in toStart THEN "creds" ELSE "none"
      /\ \A k \in Call \ {c} : worker'[k] = worker[k]
  BY <1>1, <1>2, <1>3 DEF ManagerType
<1>5. /\ target' = n /\ starved' = starved \ toStart
      /\ stop'[c] = {i \in Slot : i > n /\ slot[i].running}
      /\ \A k \in Call \ {c} : stop'[k] = stop[k]
      /\ UNCHANGED <<slot, creds, file, used, phase, cancelled>>
      /\ ~overlap' => ~overlap /\ \A k \in Call : ~Active(k)
  BY <1>1 DEF Scale, ManagerType, deviceVars
<1> HIDE DEF new
<1>6. TokenInv'
  BY <1>4 DEF TokenInv, ManagerInv
<1>7. SlotInv'
  BY <1>5 DEF SlotInv, ManagerInv
<1>8. ASSUME ~overlap' PROVE CallInv' /\ IdentityInv'
  <2>1. CallInv /\ IdentityInv
    BY <1>5, <1>8 DEF ManagerInv
  <2>2. \A k \in Call : stop[k] = {} /\ \A i \in Slot : worker[k][i].pc = "none"
    BY <1>5, <1>8 DEF Active
  <2>3. \A k \in Call \ {c} : ~Active(k)'
    BY <1>4, <1>5, <2>2 DEF Active
  <2>4. \A i \in Slot : Stopping(i)' <=> (i > n /\ slot[i].running)
    BY <1>5, <2>2 DEF Stopping
  <2>5. \A i \in Slot : Starting(i)' <=> i \in toStart
    BY <1>4, <2>2 DEF Starting
  <2>6. CallInv'
    <3>1. \A k, l \in Call : Active(k)' /\ Active(l)' => k = l
      BY <2>3
    <3>2. \A i \in Slot : (i > n) <=> ~(i <= n)
      BY DEF Slot
    <3>3. \A i \in Slot : slot[i].running => i \notin starved
      BY <2>1 DEF CallInv
    <3>4. QED
      BY <1>5, <2>4, <2>5, <3>1, <3>2, <3>3 DEF CallInv
  <2>7. \A k \in Call, i \in Slot : worker'[k][i].pc \in {"none", "creds"}
    BY <1>4, <2>2
  <2>8. IdentityInv'
    BY <1>5, <2>1, <2>7 DEF IdentityInv, Alive, RunsIn
  <2>9. QED
    BY <2>6, <2>8
<1>9. QED
  BY <1>6, <1>7, <1>8 DEF ManagerInv

(* A slot is stopped: its device is told to stop and no other.             *)
LEMMA StopKeeps ==
  ASSUME TypeOK, ManagerInv, NEW c \in Call, StopSlot(c)
  PROVE  ManagerInv'
<1>1. ManagerType /\ DeviceTypeOK
  BY TypeParts
<1>2. PICK i \in stop[c] :
        /\ stop' = [stop EXCEPT ![c] = @ \ {i}]
        /\ slot' = [slot EXCEPT ![i].running = FALSE]
        /\ cancelled' = [d \in Device |-> cancelled[d] \/ d = slot[i].dev]
  BY DEF StopSlot
<1>3. /\ i \in Slot
      /\ stop'[c] = stop[c] \ {i} /\ \A k \in Call \ {c} : stop'[k] = stop[k]
      /\ \A j \in Slot : slot'[j].dev = slot[j].dev
      /\ \A j \in Slot : slot'[j].running <=> (j # i /\ slot[j].running)
      /\ \A j \in Slot \ {i} : slot'[j] = slot[j]
      /\ \A d \in Device : cancelled'[d] <=> (cancelled[d] \/ d = slot[i].dev)
  BY <1>1, <1>2 DEF ManagerType
<1>4. UNCHANGED <<phase, target, worker, creds, file, used, starved, overlap>>
  BY DEF StopSlot
<1>5. TokenInv'
  BY <1>4 DEF TokenInv, ManagerInv
<1>6. SlotInv'
  BY <1>3, <1>4 DEF SlotInv, ManagerInv
<1>7. ASSUME ~overlap' PROVE CallInv' /\ IdentityInv'
  <2>1. CallInv /\ IdentityInv /\ SlotInv
    BY <1>4, <1>7 DEF ManagerInv
  <2>2. \A k \in Call : Active(k)' => Active(k)
    BY <1>3, <1>4 DEF Active
  <2>3. Stopping(i) /\ i > target /\ slot[i].running
    BY <1>2, <1>3, <2>1 DEF Stopping, CallInv
  <2>4. \A k \in Call : i \in stop[k] => k = c
    BY <1>2, <2>1 DEF CallInv, Active
  <2>5. \A j \in Slot : Stopping(j)' => Stopping(j) /\ j # i
    BY <1>3, <2>4 DEF Stopping
  <2>6. \A j \in Slot : Stopping(j) /\ j # i => Stopping(j)'
    BY <1>3 DEF Stopping
  <2>7. \A j \in Slot : Starting(j)' <=> Starting(j)
    BY <1>4 DEF Starting
  <2>8. ~(i <= target)
    BY <1>1, <1>3, <2>3 DEF ManagerType, Slot
  <2>9. CallInv'
    BY <1>3, <1>4, <2>1, <2>2, <2>5, <2>6, <2>7, <2>8 DEF CallInv
  <2>10. \A d \in Device, j \in Slot : RunsIn(d, j)' <=> (j # i /\ RunsIn(d, j))
    <3>1. \A d \in Device : slot'[i] = [dev |-> d, running |-> TRUE] => slot'[i].running
      OBVIOUS
    <3>2. \A d \in Device : ~RunsIn(d, i)'
      BY <1>3, <3>1 DEF RunsIn
    <3>3. \A d \in Device, j \in Slot \ {i} : RunsIn(d, j)' <=> RunsIn(d, j)
      BY <1>3 DEF RunsIn
    <3>4. QED
      BY <3>2, <3>3
  <2>11. \A d \in Device : Alive(d)' <=> (Alive(d) /\ d # slot[i].dev)
    BY <1>3, <1>4 DEF Alive
  <2>12. \A d \in Device, j \in Slot : RunsIn(d, j) => (d = slot[i].dev <=> j = i)
    <3>1. \A d \in Device, j \in Slot : RunsIn(d, j) => slot[j].dev = d /\ d # 0
      BY DEF RunsIn, Device
    <3>2. QED
      BY <1>3, <2>1, <3>1 DEF SlotInv
  <2>13. \A d \in Device : Alive(d)' <=> \E j \in Slot : RunsIn(d, j)'
    <3>1. \A d \in Device : Alive(d) <=> \E j \in Slot : RunsIn(d, j)
      BY <2>1 DEF IdentityInv
    <3>2. QED
      BY <2>10, <2>11, <2>12, <3>1
  <2>14. IdentityInv'
    BY <1>3, <1>4, <2>1, <2>13 DEF IdentityInv
  <2>15. QED
    BY <2>9, <2>14
<1>8. QED
  BY <1>5, <1>6, <1>7 DEF ManagerInv

(* A worker looks at what its slot already has.                            *)
LEMMA CheckKeeps ==
  ASSUME TypeOK, ManagerInv, NEW c \in Call, NEW i \in Slot, CheckCreds(c, i)
  PROVE  ManagerInv'
<1>1. ManagerType
  BY TypeParts
<1>2. /\ worker[c][i].pc = "creds"
      /\ UNCHANGED <<phase, cancelled, target, slot, stop, creds, file, used, starved, overlap>>
  BY DEF CheckCreds, At, deviceVars
<1>3. /\ slot[i].dev # 0 => worker'[c][i].pc = "install" /\ worker'[c][i].arg = creds[slot[i].dev]
      /\ slot[i].dev = 0 => worker'[c][i].pc = "stat"
      /\ \A k \in Call, j \in Slot : (k # c \/ j # i) => worker'[k][j] = worker[k][j]
  <2>1. slot[i].dev # 0 => creds[slot[i].dev] \in 0..Tokens
    BY <1>1, VirtualDeviceAssumption DEF ManagerType, Device
  <2>2. CASE slot[i].dev # 0
    <3>1. GotoWith(c, i, "install", creds[slot[i].dev])
      BY <2>2 DEF CheckCreds
    <3>2. QED
      BY <1>1, <2>1, <2>2, <3>1, GotoEffect
  <2>3. CASE slot[i].dev = 0
    <3>1. GotoWith(c, i, "stat", 0) /\ 0 \in 0..Tokens
      BY <2>3, FleetAssumption DEF CheckCreds
    <3>2. QED
      BY <1>1, <2>3, <3>1, GotoEffect
  <2>4. QED
    BY <2>2, <2>3
<1>4. TokenInv'
  BY <1>3 DEF TokenInv, ManagerInv
<1>5. SlotInv'
  BY <1>2 DEF SlotInv, ManagerInv
<1>6. ASSUME ~overlap' PROVE CallInv' /\ IdentityInv'
  <2>1. CallInv /\ IdentityInv
    BY <1>2, <1>6 DEF ManagerInv
  <2>2. CallInv'
    BY <1>2, <1>3, <2>1, MoveKeepsCalls
  <2>3. IdentityInv'
    BY <1>2, <1>3, <2>1 DEF IdentityInv, Alive, RunsIn
  <2>4. QED
    BY <2>2, <2>3
<1>7. QED
  BY <1>4, <1>5, <1>6 DEF ManagerInv

(* A worker takes a token, or finds that it needs none.                    *)
LEMMA TakeKeeps ==
  ASSUME TypeOK, ManagerInv, NEW c \in Call, NEW i \in Slot, TakeToken(c, i)
  PROVE  ManagerInv'
<1>1. ManagerType
  BY TypeParts
<1>2. /\ worker[c][i].pc = "stat"
      /\ UNCHANGED <<phase, cancelled, target, slot, stop, creds, file, used, starved, overlap>>
  BY DEF TakeToken, At, deviceVars
<1>3. /\ worker'[c][i].pc = "load"
      /\ \A k \in Call, j \in Slot : (k # c \/ j # i) => worker'[k][j] = worker[k][j]
  <2> DEFINE t == IF file[i] = 0 THEN Take ELSE 0
  <2>1. t \in 0..Tokens
    BY <1>1, FleetAssumption DEF Take, ManagerType
  <2>2. GotoWith(c, i, "load", t)
    BY DEF TakeToken
  <2> HIDE DEF t
  <2>3. QED
    BY <1>1, <2>1, <2>2, GotoEffect
<1>4. TokenInv'
  BY <1>3 DEF TokenInv, ManagerInv
<1>5. SlotInv'
  BY <1>2 DEF SlotInv, ManagerInv
<1>6. ASSUME ~overlap' PROVE CallInv' /\ IdentityInv'
  <2>1. CallInv /\ IdentityInv
    BY <1>2, <1>6 DEF ManagerInv
  <2>2. CallInv'
    BY <1>2, <1>3, <2>1, MoveKeepsCalls
  <2>3. IdentityInv'
    BY <1>2, <1>3, <2>1 DEF IdentityInv, Alive, RunsIn
  <2>4. QED
    BY <2>2, <2>3
<1>7. QED
  BY <1>4, <1>5, <1>6 DEF ManagerInv

(* A worker ends without a device.                                         *)
LEMMA FailureKeeps ==
  ASSUME TypeOK, ManagerInv, NEW c \in Call, NEW i \in Slot,
         worker[c][i].pc # "none", ClaimFailed(c, i),
         UNCHANGED <<phase, cancelled, target, slot, stop, creds, file, overlap>>,
         used \subseteq used'
  PROVE  ManagerInv'
<1>1. ManagerType
  BY TypeParts
<1>2. /\ worker'[c][i].pc = "none"
      /\ \A k \in Call, j \in Slot : (k # c \/ j # i) => worker'[k][j] = worker[k][j]
  <2>1. Ends(c, i)
    BY DEF ClaimFailed, Ends
  <2>2. QED
    BY <1>1, <2>1, EndEffect
<1>3. TokenInv'
  BY <1>2 DEF TokenInv, ManagerInv
<1>4. SlotInv'
  BY DEF SlotInv, ManagerInv
<1>5. ASSUME ~overlap' PROVE CallInv' /\ IdentityInv'
  <2>1. CallInv /\ IdentityInv
    BY <1>5 DEF ManagerInv
  <2>2. CallInv'
    BY <1>1, <2>1, FailureKeepsCalls
  <2>3. IdentityInv'
    BY <1>2, <2>1 DEF IdentityInv, Alive, RunsIn
  <2>4. QED
    BY <2>2, <2>3
<1>6. QED
  BY <1>3, <1>4, <1>5 DEF ManagerInv

(* LoadOrClaim finds the identity, or goes on to claim one, or gives up.   *)
LEMMA LoadKeeps ==
  ASSUME TypeOK, ManagerInv, NEW c \in Call, NEW i \in Slot, Load(c, i)
  PROVE  ManagerInv'
<1>1. ManagerType
  BY TypeParts
<1>2. /\ worker[c][i].pc = "load"
      /\ UNCHANGED <<phase, cancelled, target, slot, stop, creds, file, used, overlap>>
  BY DEF Load, At, deviceVars
<1>3. CASE ClaimFailed(c, i)
  BY <1>2, <1>3, FailureKeeps
<1>4. ASSUME NEW p \in {"install", "claim"}, NEW a \in 0..Tokens, GotoWith(c, i, p, a),
             starved' = starved, p = "install" => a = file[i], p = "claim" => a # 0
      PROVE  ManagerInv'
  <2>1. /\ worker'[c][i].pc = p /\ worker'[c][i].arg = a
        /\ \A k \in Call, j \in Slot : (k # c \/ j # i) => worker'[k][j] = worker[k][j]
    BY <1>1, <1>4, GotoEffect
  <2>2. TokenInv'
    BY <1>4, <2>1 DEF TokenInv, ManagerInv
  <2>3. SlotInv'
    BY <1>2 DEF SlotInv, ManagerInv
  <2>4. ASSUME ~overlap' PROVE CallInv' /\ IdentityInv'
    <3>1. CallInv /\ IdentityInv
      BY <1>2, <2>4 DEF ManagerInv
    <3>2. CallInv'
      BY <1>2, <1>4, <2>1, <3>1, MoveKeepsCalls
    <3>3. IdentityInv'
      BY <1>2, <1>4, <2>1, <3>1 DEF IdentityInv, Alive, RunsIn
    <3>4. QED
      BY <3>2, <3>3
  <2>5. QED
    BY <2>2, <2>3, <2>4 DEF ManagerInv
<1>5. file[i] \in 0..Tokens /\ worker[c][i].arg \in 0..Tokens
  BY <1>1 DEF ManagerType, Worker
<1>6. QED
  BY <1>3, <1>4, <1>5 DEF Load

(* Control accepts the token, which nobody used before, or the claim fails.*)
LEMMA ClaimKeeps ==
  ASSUME TypeOK, ManagerInv, NEW c \in Call, NEW i \in Slot, Claim(c, i)
  PROVE  ManagerInv'
<1> DEFINE t == worker[c][i].arg
<1>1. ManagerType
  BY TypeParts
<1>2. /\ worker[c][i].pc = "claim"
      /\ UNCHANGED <<phase, cancelled, target, slot, stop, creds, overlap>>
  BY DEF Claim, At
<1>3. CASE ClaimFailed(c, i) /\ file' = file /\ used \subseteq used'
  BY <1>2, <1>3, FailureKeeps
<1>4. CASE /\ t \notin used /\ used' = used \union {t} /\ file' = [file EXCEPT ![i] = t]
           /\ GotoWith(c, i, "install", t) /\ starved' = starved
  <2>1. t \in 0..Tokens
    BY <1>1 DEF ManagerType, Worker
  <2>2. /\ worker'[c][i].pc = "install" /\ worker'[c][i].arg = t
        /\ \A k \in Call, j \in Slot : (k # c \/ j # i) => worker'[k][j] = worker[k][j]
    BY <1>1, <1>4, <2>1, GotoEffect
  <2>3. file'[i] = t /\ \A j \in Slot \ {i} : file'[j] = file[j]
    BY <1>1, <1>4 DEF ManagerType
  <2>4. TokenInv'
    BY <2>2 DEF TokenInv, ManagerInv
  <2>5. SlotInv'
    BY <1>2, <1>4, <2>3 DEF SlotInv, ManagerInv
  <2>6. ASSUME ~overlap' PROVE CallInv' /\ IdentityInv'
    <3>1. CallInv /\ IdentityInv
      BY <1>2, <2>6 DEF ManagerInv
    <3>2. CallInv'
      BY <1>2, <1>4, <2>2, <3>1, MoveKeepsCalls
    <3>3. slot[i].dev = 0
      BY <1>2, <3>1 DEF IdentityInv
    <3>4. \A k \in Call : k # c => worker[k][i].pc = "none"
      BY <1>2, <3>1, SoleWorker
    <3>5. \A k \in Call, j \in Slot :
            /\ worker'[k][j].pc = "install" => worker'[k][j].arg = file'[j]
            /\ worker'[k][j].pc \in {"stat", "load", "claim"} => slot[j].dev = 0
      BY <2>2, <2>3, <3>1, <3>4 DEF IdentityInv
    <3>6. \A j \in Slot : slot[j].dev # 0 => creds[slot[j].dev] = file'[j]
      BY <2>3, <3>1, <3>3 DEF IdentityInv
    <3>7. IdentityInv'
      BY <1>2, <3>1, <3>5, <3>6 DEF IdentityInv, Alive, RunsIn
    <3>8. QED
      BY <3>2, <3>7
  <2>7. QED
    BY <2>4, <2>5, <2>6 DEF ManagerInv
<1>5. QED
  BY <1>3, <1>4 DEF Claim

(* A slot gets a device of its own, with the slot's identity.              *)
LEMMA InstallKeeps ==
  ASSUME TypeOK, ManagerInv, NEW c \in Call, NEW i \in Slot, Install(c, i)
  PROVE  ManagerInv'
<1>1. ManagerType /\ DeviceTypeOK
  BY TypeParts
<1>2. /\ worker[c][i].pc = "install"
      /\ UNCHANGED <<cancelled, target, stop, file, used, starved, overlap>>
  BY DEF Install, At
<1>3. /\ worker'[c][i].pc = "none"
      /\ \A k \in Call, j \in Slot : (k # c \/ j # i) => worker'[k][j] = worker[k][j]
  <2>1. Ends(c, i)
    BY DEF Install, Ends
  <2>2. QED
    BY <1>1, <2>1, EndEffect
<1>4. PICK d \in Device :
        /\ phase[d] = "off"
        /\ slot' = [slot EXCEPT ![i] = [dev |-> d, running |-> TRUE]]
        /\ creds' = [creds EXCEPT ![d] = worker[c][i].arg]
        /\ \E l \in {"start", "delay"} : phase' = [phase EXCEPT ![d] = l]
  BY DEF Install, Goto
<1>5. /\ slot'[i] = [dev |-> d, running |-> TRUE] /\ \A j \in Slot \ {i} : slot'[j] = slot[j]
      /\ creds'[d] = worker[c][i].arg /\ \A e \in Device \ {d} : creds'[e] = creds[e]
      /\ phase'[d] \in {"start", "delay"} /\ \A e \in Device \ {d} : phase'[e] = phase[e]
  BY <1>1, <1>4 DEF ManagerType, DeviceTypeOK
<1>6. slot'[i].dev = d /\ slot'[i].running /\ d # 0
  BY <1>5 DEF Device
<1>7. ~cancelled[d] /\ \A j \in Slot : slot[j].dev # d
  BY <1>4 DEF ManagerInv, SlotInv
<1>8. TokenInv'
  BY <1>3 DEF TokenInv, ManagerInv
<1>9. SlotInv'
  BY <1>2, <1>5, <1>6, <1>7 DEF SlotInv, ManagerInv
<1>10. ASSUME ~overlap' PROVE CallInv' /\ IdentityInv'
  <2>1. CallInv /\ IdentityInv
    BY <1>2, <1>10 DEF ManagerInv
  <2>2. \A k \in Call : Active(k)' => Active(k)
    BY <1>2, <1>3 DEF Active
  <2>3. \A j \in Slot : Starting(j)' => Starting(j) /\ j # i
    BY <1>2, <1>3, <2>1, SoleWorker DEF Starting
  <2>4. \A j \in Slot : j # i => (Starting(j) => Starting(j)')
    BY <1>3 DEF Starting
  <2>5. Starting(i) /\ i <= target /\ ~slot[i].running /\ i \notin starved
    BY <1>2, <2>1 DEF Starting, CallInv
  <2>6. \A j \in Slot : Stopping(j)' <=> Stopping(j)
    BY <1>2 DEF Stopping
  <2>7. CallInv'
    BY <1>2, <1>5, <1>6, <2>1, <2>2, <2>3, <2>4, <2>5, <2>6 DEF CallInv
  <2>8. \A e \in Device : Alive(e)' <=> Alive(e) \/ e = d
    BY <1>2, <1>4, <1>5, <1>7 DEF Alive
  <2>9. /\ \A e \in Device, j \in Slot \ {i} : RunsIn(e, j)' <=> RunsIn(e, j)
        /\ \A e \in Device : RunsIn(e, i)' <=> e = d
        /\ \A e \in Device : ~RunsIn(e, i)
    <3>1. \A e \in Device : slot[i] = [dev |-> e, running |-> TRUE] => slot[i].running
      OBVIOUS
    <3>2. \A e \in Device : [dev |-> d, running |-> TRUE] = [dev |-> e, running |-> TRUE] <=> e = d
      OBVIOUS
    <3>3. \A e \in Device : ~RunsIn(e, i)
      BY <2>5, <3>1 DEF RunsIn
    <3>4. QED
      BY <1>5, <3>2, <3>3 DEF RunsIn
  <2>10. \A e \in Device : Alive(e)' <=> \E j \in Slot : RunsIn(e, j)'
    <3>1. \A e \in Device : Alive(e) <=> \E j \in Slot : RunsIn(e, j)
      BY <2>1 DEF IdentityInv
    <3>2. QED
      BY <2>8, <2>9, <3>1
  <2>11. \A j \in Slot : slot'[j].dev # 0 => creds'[slot'[j].dev] = file'[j]
    <3>1. creds'[slot'[i].dev] = file'[i]
      BY <1>2, <1>5, <1>6, <2>1 DEF IdentityInv
    <3>2. \A j \in Slot : slot[j].dev # 0 => slot[j].dev \in Device \ {d}
      BY <1>1, <1>7 DEF ManagerType, Device
    <3>3. \A j \in Slot \ {i} : slot[j].dev # 0 => creds'[slot[j].dev] = file[j]
      BY <1>5, <2>1, <3>2 DEF IdentityInv
    <3>4. QED
      BY <1>2, <1>5, <3>1, <3>3
  <2>12. \A k \in Call, j \in Slot :
           /\ worker'[k][j].pc = "install" => worker'[k][j].arg = file'[j]
           /\ worker'[k][j].pc \in {"stat", "load", "claim"} => slot'[j].dev = 0
    <3>1. \A k \in Call : worker'[k][i].pc = "none"
      BY <1>2, <1>3, <2>1, SoleWorker
    <3>2. QED
      BY <1>2, <1>3, <1>5, <2>1, <3>1 DEF IdentityInv
  <2>13. IdentityInv'
    BY <2>10, <2>11, <2>12 DEF IdentityInv
  <2>14. QED
    BY <2>7, <2>13
<1>11. QED
  BY <1>8, <1>9, <1>10 DEF ManagerInv

(* A process that has just started: no device, no slot in use and nothing  *)
(* to do, only what the state files and control remember.                  *)
Fresh ==
  /\ phase = Every("off") /\ cancelled = Every(FALSE) /\ target = 0 /\ slot = NoSlots
  /\ stop = [c \in Call |-> {}] /\ worker = NoWorkers
  /\ \A i \in Slot : file[i] # 0 => file[i] \in used
  /\ \A i, j \in Slot : (file[i] = file[j] /\ file[i] # 0) => i = j

(* Such a process has the invariant.                                       *)
LEMMA FreshKeeps ==
  Fresh => ManagerInv
<1> SUFFICES ASSUME Fresh PROVE ManagerInv
  OBVIOUS
<1> USE DEF Fresh
<1>1. \A i \in Slot : slot[i].dev = 0 /\ ~slot[i].running
  BY FreshSlots
<1>2. \A c \in Call, i \in Slot : worker[c][i].pc = "none"
  BY FreshSlots
<1>3. \A d \in Device : phase[d] = "off" /\ ~cancelled[d] /\ d # 0
  BY DEF Every, Device
<1>4. TokenInv
  BY <1>2 DEF TokenInv
<1>5. SlotInv
  BY <1>1, <1>3 DEF SlotInv
<1>6. CallInv
  <2>1. \A c \in Call : ~Active(c)
    BY <1>2 DEF Active
  <2>2. \A i \in Slot : ~Stopping(i) /\ ~Starting(i) /\ ~(i <= target)
    BY <1>2 DEF Stopping, Starting, Slot
  <2>3. QED
    BY <1>1, <2>1, <2>2 DEF CallInv
<1>7. IdentityInv
  <2>1. \A d \in Device, i \in Slot : ~RunsIn(d, i)
    <3>1. \A d \in Device, i \in Slot : slot[i] = [dev |-> d, running |-> TRUE] => slot[i].running
      OBVIOUS
    <3>2. QED
      BY <1>1, <3>1 DEF RunsIn
  <2>2. QED
    BY <1>1, <1>2, <1>3, <2>1 DEF IdentityInv, Alive
<1>8. QED
  BY <1>4, <1>5, <1>6, <1>7 DEF ManagerInv

(* The process starts again.                                               *)
LEMMA RestartKeeps ==
  ASSUME ManagerInv, Restart
  PROVE  ManagerInv'
<1>1. /\ phase' = Every("off") /\ cancelled' = Every(FALSE) /\ target' = 0 /\ slot' = NoSlots
      /\ stop' = [c \in Call |-> {}] /\ worker' = NoWorkers /\ file' = file /\ used' = used
  BY DEF Restart, DevicesGone
<1>2. /\ \A i \in Slot : file'[i] # 0 => file'[i] \in used'
      /\ \A i, j \in Slot : (file'[i] = file'[j] /\ file'[i] # 0) => i = j
  BY <1>1 DEF ManagerInv, SlotInv
<1>3. Fresh'
  BY <1>1, <1>2 DEF Fresh
<1>4. Fresh' => ManagerInv'
  BY FreshKeeps, PTL
<1>5. QED
  BY <1>3, <1>4

(* Every step keeps the manager's invariant.                               *)
LEMMA NextManager ==
  ASSUME TypeOK, ManagerInv, [Next]_vars
  PROVE  ManagerInv'
<1>1. env \in Scenario /\ DeviceTypeOK
  BY TypeParts
<1>2. ASSUME NEW d \in Device, Step(d), UNCHANGED fleetVars PROVE ManagerInv'
  <2>1. UNCHANGED <<cancelled, target, slot, stop, worker, creds, file, used, starved, overlap>>
    BY <1>1, <1>2, StepFrame DEF fleetVars
  <2>2. \A e \in Device : /\ (phase'[e] = "off") <=> (phase[e] = "off")
                          /\ (phase'[e] = "exited") => cancelled[e]
                          /\ (phase[e] = "exited") => phase'[e] = "exited"
    <3>1. \A e \in Device : phase[e] = "exited" => cancelled[e]
      BY DEF ManagerInv, SlotInv
    <3>2. /\ \A e \in Device \ {d} : phase'[e] = phase[e]
          /\ \/ phase'[d] = phase[d]
             \/ /\ phase[d] \notin {"off", "exited"}
                /\ phase'[d] # "off"
                /\ phase'[d] = "exited" => cancelled[d]
      BY <1>1, <1>2, StepFrame
    <3>3. QED
      BY <3>1, <3>2
  <2>3. QED
    BY <2>1, <2>2, DevicesOnly
<1>3. ASSUME phase' = phase,
             UNCHANGED <<cancelled, target, slot, stop, worker, creds, file, used, starved, overlap>>
      PROVE  ManagerInv'
  <2>1. \A e \in Device : phase[e] = "exited" => cancelled[e]
    BY DEF ManagerInv, SlotInv
  <2>2. QED
    BY <1>3, <2>1, DevicesOnly
<1>4. ASSUME Partition PROVE ManagerInv'
  BY <1>3, <1>4 DEF Partition
<1>5. ASSUME NEW d \in Device, SendPartition(d) PROVE ManagerInv'
  BY <1>3, <1>5 DEF SendPartition
<1>6. ASSUME UNCHANGED vars PROVE ManagerInv'
  BY <1>3, <1>6 DEF vars, deviceVars, fleetVars
<1>7. QED
  BY <1>2, <1>4, <1>5, <1>6, ScaleKeeps, StopKeeps, CheckKeeps, TakeKeeps, LoadKeeps, ClaimKeeps,
     InstallKeeps, RestartKeeps DEF Next, Start
-----------------------------------------------------------------------------
(* The theorems.                                                           *)

(* What the inductive invariant says of a state.                           *)
LEMMA InvParts ==
  IInv <=> TypeOK /\ ManagerInv /\ \A d \in Device : LinkInv(d)
BY DEF IInv, ManagerInv

(* The invariant holds in every state the simulator reaches.               *)
THEOREM Invariance == Spec => []IInv
<1>1. Init => IInv
  <2>1. SUFFICES ASSUME Init PROVE IInv
    OBVIOUS
  <2>2. Fresh
    BY <2>1 DEF Fresh, Init, NoDevices
  <2>3. \A d \in Device : LinkInv(d)
    BY <2>1 DEF Init, NoDevices, Every, LinkInv
  <2>4. QED
    BY <2>1, <2>2, <2>3, FreshType, FreshKeeps, InvParts
<1>2. IInv /\ [Next]_vars => IInv'
  <2>1. SUFFICES ASSUME IInv, [Next]_vars PROVE IInv'
    OBVIOUS
  <2>2. TypeOK /\ ManagerInv /\ \A d \in Device : LinkInv(d)
    BY <2>1, InvParts
  <2>3. (env \in Scenario)'
    BY <2>1, <2>2 DEF TypeOK, Next, vars
  <2>4. TokenInv
    BY <2>2 DEF ManagerInv
  <2>5. DeviceTypeOK' /\ ManagerType'
    BY <2>1, <2>2, <2>4, NextDeviceType, NextManagerType
  <2>6. TypeOK'
    BY <2>3, <2>5 DEF TypeOK, ManagerType
  <2>7. ManagerInv' /\ \A d \in Device : LinkInv(d)'
    BY <2>1, <2>2, NextManager, NextLink
  <2>8. QED
    BY <2>6, <2>7 DEF IInv, ManagerInv
<1>3. QED
  BY <1>1, <1>2, PTL DEF Spec

(* Every variable has its type in every state: no client, slot, device or  *)
(* token index leaves its range, whatever the calls and faults.            *)
THEOREM TypeCorrect == Spec => []TypeOK
<1>1. IInv => TypeOK
  BY DEF IInv
<1>2. QED
  BY <1>1, Invariance, PTL

(* A device that takes itself for connected is, once its callbacks have    *)
(* run, unless one of them came late: sampleLoop never goes silent on a    *)
(* flag that ConnectionLost, the partition or the flaky disconnect should  *)
(* have lowered.                                                           *)
THEOREM FlagHonest == Spec => []FlagIsHonest
<1>1. IInv => FlagIsHonest
  BY DEF IInv, LinkInv, FlagIsHonest, NoCallbacks
<1>2. QED
  BY <1>1, Invariance, PTL

(* When Scale's calls do not overlap and the last one has ended, the slots *)
(* that run and the devices that are alive are the ones it asked for, with *)
(* identities of their own.                                                *)
THEOREM TargetReached == Spec => []FleetMatchesTarget
<1>1. IInv => FleetMatchesTarget
  <2>1. SUFFICES ASSUME IInv, ~overlap, \A c \in Call : ~Active(c)
                 PROVE  /\ \A i \in Slot : slot[i].running <=> (i <= target /\ i \notin starved)
                        /\ \A d \in Device : Alive(d) <=> \E i \in Slot : RunsIn(d, i)
                        /\ \A i \in Slot : slot[i].dev # 0 => creds[slot[i].dev] = file[i]
                        /\ \A i, j \in Slot : (file[i] = file[j] /\ file[i] # 0) => i = j
    BY DEF FleetMatchesTarget
  <2>2. SlotInv /\ CallInv /\ IdentityInv
    BY <2>1 DEF IInv
  <2>3. \A i \in Slot : ~Stopping(i) /\ ~Starting(i)
    BY <2>1 DEF Active, Stopping, Starting
  <2>4. \A i \in Slot : slot[i].running <=> (i <= target /\ i \notin starved)
    BY <2>2, <2>3 DEF CallInv
  <2>5. QED
    BY <2>2, <2>4 DEF IdentityInv, SlotInv
<1>2. QED
  BY <1>1, Invariance, PTL
=============================================================================
