---------------------------- MODULE Provisioning ----------------------------
(***************************************************************************)
(* How a device earns its identity: the operator's registration tokens in  *)
(* Redis (internal/devicestore), POST /v1/devices/claim in cmd/control,    *)
(* the request/response channel to mosquitto's dynamic-security plugin     *)
(* (internal/dynsec), and the agent that claims once and caches what it    *)
(* got (internal/provisioning).                                            *)
(*                                                                         *)
(* A claim is one HTTP request.  Its name also stands for the password the *)
(* handler generates and for the correlation id of its dynsec command.     *)
(***************************************************************************)
EXTENDS Naturals

CONSTANTS
  Claim,      (* claim requests that may be sent                           *)
  Device,     (* device ids a client may ask for                           *)
  Token,      (* registration tokens                                       *)
  Agent,      (* devices running LoadOrClaim                               *)
  TokenOf,    (* TokenOf[a]: the token agent a was started with            *)
  None,       (* no token, claim or response                               *)
  Faults,     (* calls that may fail: a subset of FaultKind                *)
  MaxCrashes  (* bound on crashes of the control process                   *)

FaultKind == {"redis", "db", "plugin", "disk", "bootstrap"}

ASSUME ProvisioningAssumption ==
  /\ TokenOf \in [Agent -> Token]
  /\ None \notin Claim /\ None \notin Token
  /\ Faults \subseteq FaultKind
  /\ MaxCrashes \in Nat

VARIABLES
  issued,    (* tokens CreateToken generated                               *)
  tokens,    (* token keys in Redis                                        *)
  devices,   (* devices[d]: the token that paid for d's row, None: no row  *)
  clients,   (* clients[d]: the claim whose password the broker has for d  *)
  session,   (* the dynsec client: none (nil), subscribed or deaf          *)
  pc,        (* where the handler of each claim is                         *)
  asked,     (* asked[q]: the device id and token in the request           *)
  outcome,   (* what do() will return once it removed its pending entry    *)
  pending,   (* Client.pending: claims waiting for a response              *)
  chan,      (* chan[q]: the one-slot response channel of do()             *)
  mu,        (* the response handleResponse holds Client.mu for            *)
  commands,  (* claims whose createClient command the broker may process   *)
  responses, (* responses on their way to the dynsec client                *)
  agent,     (* what each agent does                                       *)
  call,      (* call[a]: the agent's last claim                            *)
  file,      (* file[a]: the claim whose credentials the state file holds  *)
  crashes    (* crashes so far                                             *)

tokenVars == <<issued, tokens>>
rpcVars == <<pending, chan, mu, commands, responses>>
claimVars == <<pc, asked, outcome>>
agentVars == <<agent, call, file>>
vars == <<tokenVars, devices, clients, session, claimVars, rpcVars, agentVars, crashes>>

Verdict == {"ok", "exists", "error"}
Answered == {"ok", "failed", "rejected"}
Request == [dev : Device, token : Token]
Response == [claim : Claim, verdict : Verdict]

TypeOK ==
  /\ issued \subseteq Token /\ tokens \subseteq issued
  /\ devices \in [Device -> Token \union {None}]
  /\ clients \in [Device -> Claim \union {None}]
  /\ session \in {"none", "subscribed", "deaf"}
  /\ pc \in [Claim -> {"unsent", "consume", "create", "send", "wait", "return"} \union Answered]
  /\ asked \in [Claim -> Request \union {None}]
  /\ outcome \in [Claim -> {"ok", "failed"}]
  /\ pending \subseteq Claim
  /\ chan \in [Claim -> Verdict \union {"empty"}]
  /\ mu \in Response \union {None}
  /\ commands \subseteq Claim
  /\ responses \subseteq Response
  /\ agent \in [Agent -> {"stopped", "waiting", "saving", "running"}]
  /\ call \in [Agent -> Claim \union {None}]
  /\ file \in [Agent -> Claim \union {None}]
  /\ crashes \in 0..MaxCrashes

-----------------------------------------------------------------------------
(* connectDynsec: Connect returns subscribed and the roles are created, or *)
(* after three failed attempts the process runs without a client.          *)
Bootstrap == {"subscribed"} \union IF "bootstrap" \in Faults THEN {"none"} ELSE {}

Init ==
  /\ issued = {} /\ tokens = {}
  /\ devices = [d \in Device |-> None]
  /\ clients = [d \in Device |-> None]
  /\ session \in Bootstrap
  /\ pc = [q \in Claim |-> "unsent"]
  /\ asked = [q \in Claim |-> None]
  /\ outcome = [q \in Claim |-> "failed"]
  /\ pending = {}
  /\ chan = [q \in Claim |-> "empty"]
  /\ mu = None
  /\ commands = {}
  /\ responses = {}
  /\ agent = [a \in Agent |-> "stopped"]
  /\ call = [a \in Agent |-> None]
  /\ file = [a \in Agent |-> None]
  /\ crashes = 0

-----------------------------------------------------------------------------
(* Registration tokens.                                                    *)

(* CreateToken, from the token CLI.                                        *)
CreateToken(t) ==
  /\ t \notin issued
  /\ issued' = issued \union {t}
  /\ tokens' = tokens \union {t}
  /\ UNCHANGED <<devices, clients, session, claimVars, rpcVars, agentVars, crashes>>

(* The key's TTL in Redis runs out.                                        *)
ExpireToken(t) ==
  /\ t \in tokens
  /\ tokens' = tokens \ {t}
  /\ UNCHANGED <<issued, devices, clients, session, claimVars, rpcVars, agentVars, crashes>>

-----------------------------------------------------------------------------
(* The claim handler, one step per call it makes.                          *)

(* The handler of q goes on to l.                                          *)
Goto(q, l) == pc' = [pc EXCEPT ![q] = l]

(* Mutant of ConsumeToken: GET instead of GETDEL.                          *)
ConsumeTokenGet(q) ==
  /\ pc[q] = "consume"
  /\ Goto(q, IF asked[q].token \in tokens THEN "create" ELSE "rejected")
  /\ UNCHANGED <<tokenVars, devices, clients, session, asked, outcome, rpcVars, agentVars, crashes>>

(* ConsumeToken: GETDEL, 401 without a key, 500 on an error (whether or not*)
(* Redis executed the command).                                            *)
ConsumeToken(q) ==
  /\ pc[q] = "consume"
  /\ \/ /\ asked[q].token \in tokens
        /\ tokens' = tokens \ {asked[q].token}
        /\ Goto(q, "create")
     \/ /\ asked[q].token \notin tokens
        /\ Goto(q, "rejected")
        /\ UNCHANGED tokens
     \/ /\ "redis" \in Faults
        /\ tokens' \in {tokens, tokens \ {asked[q].token}}
        /\ Goto(q, "failed")
  /\ UNCHANGED <<issued, devices, clients, session, asked, outcome,
                 rpcVars, agentVars, crashes>>

(* Mutants of CreateDevice: an error is logged and the handler goes on; the*)
(* insert says ON CONFLICT DO NOTHING.                                     *)
CreateDeviceGoesOn(q) ==
  /\ pc[q] = "create"
  /\ devices' \in {devices, [devices EXCEPT ![asked[q].dev] =
                               IF @ = None THEN asked[q].token ELSE @]}
  /\ Goto(q, "send")
  /\ UNCHANGED <<tokenVars, clients, session, asked, outcome, rpcVars, agentVars, crashes>>

CreateDeviceUpsert(q) ==
  /\ pc[q] = "create"
  /\ devices' = [devices EXCEPT ![asked[q].dev] = IF @ = None THEN asked[q].token ELSE @]
  /\ Goto(q, "send")
  /\ UNCHANGED <<tokenVars, clients, session, asked, outcome, rpcVars, agentVars, crashes>>

(* devices.Create: the primary key rejects an id that already has a row.   *)
CreateDevice(q) ==
  LET d == asked[q].dev
      Insert == devices[d] = None /\ devices' = [devices EXCEPT ![d] = asked[q].token]
  IN  /\ pc[q] = "create"
      /\ \/ Insert /\ Goto(q, "send")
         \/ devices[d] # None /\ UNCHANGED devices /\ Goto(q, "failed")
         \/ "db" \in Faults /\ (Insert \/ UNCHANGED devices) /\ Goto(q, "failed")
      /\ UNCHANGED <<tokenVars, clients, session, asked, outcome, rpcVars, agentVars, crashes>>

(* do() up to its select: the pending entry, then the publish, which may   *)
(* not reach the broker.                                                   *)
SendCommand(q) ==
  /\ pc[q] = "send"
  /\ mu = None
  /\ pending' = pending \union {q}
  /\ commands' \in {commands, commands \union {q}}
  /\ Goto(q, "wait")
  /\ UNCHANGED <<tokenVars, devices, clients, session, asked, outcome, chan, mu, responses,
                 agentVars, crashes>>

(* do() leaves its select with a result; CreateClient takes "Client already*)
(* exists" for success.                                                    *)
Leave(q, o) ==
  /\ outcome' = [outcome EXCEPT ![q] = o]
  /\ Goto(q, "return")
  /\ UNCHANGED asked

ReceiveResponse(q) ==
  /\ pc[q] = "wait"
  /\ chan[q] # "empty"
  /\ chan' = [chan EXCEPT ![q] = "empty"]
  /\ Leave(q, IF chan[q] = "error" THEN "failed" ELSE "ok")
  /\ UNCHANGED <<tokenVars, devices, clients, session, pending, mu, commands, responses,
                 agentVars, crashes>>

(* Mutant of Timeout: do() has no timeout, only an answer ends its wait.   *)
TimeoutNever(q) ==
  /\ pc[q] = "wait"
  /\ chan[q] # "empty"
  /\ Leave(q, "failed")
  /\ UNCHANGED <<tokenVars, devices, clients, session, rpcVars, agentVars, crashes>>

(* The publish or the response times out, or the request's context ends.   *)
Timeout(q) ==
  /\ pc[q] = "wait"
  /\ Leave(q, "failed")
  /\ UNCHANGED <<tokenVars, devices, clients, session, rpcVars, agentVars, crashes>>

(* The deferred delete of the pending entry, which needs the mutex; then   *)
(* the handler answers.                                                    *)
Return(q) ==
  /\ pc[q] = "return"
  /\ mu = None
  /\ pending' = pending \ {q}
  /\ chan' = [chan EXCEPT ![q] = "empty"]
  /\ Goto(q, outcome[q])
  /\ UNCHANGED <<tokenVars, devices, clients, session, asked, outcome, mu, commands, responses,
                 agentVars, crashes>>

-----------------------------------------------------------------------------
(* The broker's plugin and the dynsec client's response handler.           *)

(* The plugin executes a command.  QoS 1: it may be delivered again.  The  *)
(* response is lost on a client that is not subscribed.                    *)
PluginCreateClient(q, v) ==
  LET d == asked[q].dev
  IN  /\ q \in commands
      /\ commands' \in {commands, commands \ {q}}
      /\ \/ v = "ok" /\ clients[d] = None /\ clients' = [clients EXCEPT ![d] = q]
         \/ v = "exists" /\ clients[d] # None /\ UNCHANGED clients
         \/ v = "error" /\ "plugin" \in Faults /\ UNCHANGED clients
      /\ responses' = IF session = "subscribed"
                      THEN responses \union {[claim |-> q, verdict |-> v]}
                      ELSE responses
      /\ UNCHANGED <<tokenVars, devices, session, claimVars, pending, chan, mu, agentVars, crashes>>

(* handleResponse takes the mutex.  QoS 1 again: the response may come     *)
(* more than once.                                                         *)
LockResponse(m) ==
  /\ m \in responses
  /\ mu = None
  /\ mu' = m
  /\ responses' \in {responses, responses \ {m}}
  /\ UNCHANGED <<tokenVars, devices, clients, session, claimVars, pending, chan, commands,
                 agentVars, crashes>>

(* Mutant of HandleResponse: the entry is left for do() to delete.         *)
HandleResponseKeepsEntry ==
  /\ mu # None
  /\ IF mu.claim \in pending
     THEN chan[mu.claim] = "empty" /\ chan' = [chan EXCEPT ![mu.claim] = mu.verdict]
     ELSE UNCHANGED chan
  /\ mu' = None
  /\ UNCHANGED <<tokenVars, devices, clients, session, claimVars, pending, commands, responses,
                 agentVars, crashes>>

(* handleResponse with the mutex: the send blocks while the slot is taken. *)
HandleResponse ==
  /\ mu # None
  /\ IF mu.claim \in pending
     THEN /\ chan[mu.claim] = "empty"
          /\ chan' = [chan EXCEPT ![mu.claim] = mu.verdict]
          /\ pending' = pending \ {mu.claim}
     ELSE UNCHANGED <<chan, pending>>
  /\ mu' = None
  /\ UNCHANGED <<tokenVars, devices, clients, session, claimVars, commands, responses,
                 agentVars, crashes>>

(* A lost connection ends the clean session; OnConnect's resubscribe is    *)
(* fire-and-forget, so commands may run before it takes effect.            *)
ConnectionLost ==
  /\ session = "subscribed"
  /\ session' = "deaf"
  /\ responses' = {}
  /\ UNCHANGED <<tokenVars, devices, clients, claimVars, pending, chan, mu, commands,
                 agentVars, crashes>>

OnConnect ==
  /\ session = "deaf"
  /\ session' = "subscribed"
  /\ UNCHANGED <<tokenVars, devices, clients, claimVars, rpcVars, agentVars, crashes>>

(* The control process dies and starts again; a command already with the   *)
(* broker may still run.                                                   *)
Crash ==
  /\ crashes < MaxCrashes
  /\ crashes' = crashes + 1
  /\ session' \in Bootstrap
  /\ pc' = [q \in Claim |-> IF pc[q] \in Answered \union {"unsent"} THEN pc[q] ELSE "failed"]
  /\ pending' = {}
  /\ chan' = [q \in Claim |-> "empty"]
  /\ mu' = None
  /\ responses' = {}
  /\ UNCHANGED <<tokenVars, devices, clients, asked, outcome, commands, agentVars>>

-----------------------------------------------------------------------------
(* The agent.                                                              *)

(* LoadOrClaim with a state file.                                          *)
LoadCached(a) ==
  /\ agent[a] = "stopped"
  /\ file[a] # None
  /\ agent' = [agent EXCEPT ![a] = "running"]
  /\ UNCHANGED <<tokenVars, devices, clients, session, claimVars, rpcVars, call, file, crashes>>

(* LoadOrClaim without one: a claim for device id d with the same token as *)
(* ever.  Without a dynsec client the handler answers 503 at once.         *)
SendClaim(a, q, d) ==
  /\ agent[a] = "stopped"
  /\ file[a] = None
  /\ pc[q] = "unsent"
  /\ asked' = [asked EXCEPT ![q] = [dev |-> d, token |-> TokenOf[a]]]
  /\ Goto(q, IF session = "none" THEN "failed" ELSE "consume")
  /\ agent' = [agent EXCEPT ![a] = "waiting"]
  /\ call' = [call EXCEPT ![a] = q]
  /\ UNCHANGED <<tokenVars, devices, clients, session, outcome, rpcVars, file, crashes>>

(* The response arrives; anything but a 200 ends the agent.                *)
ClaimResponse(a) ==
  /\ agent[a] = "waiting"
  /\ pc[call[a]] \in Answered
  /\ agent' = [agent EXCEPT ![a] = IF pc[call[a]] = "ok" THEN "saving" ELSE "stopped"]
  /\ UNCHANGED <<tokenVars, devices, clients, session, claimVars, rpcVars, call, file, crashes>>

(* save, or its failure: the credentials are lost with the process.        *)
Save(a) ==
  /\ agent[a] = "saving"
  /\ \/ /\ file' = [file EXCEPT ![a] = call[a]]
        /\ agent' = [agent EXCEPT ![a] = "running"]
     \/ /\ "disk" \in Faults
        /\ agent' = [agent EXCEPT ![a] = "stopped"]
        /\ UNCHANGED file
  /\ UNCHANGED <<tokenVars, devices, clients, session, claimVars, rpcVars, call, crashes>>

(* The agent's HTTP timeout, or its own death, at any time.                *)
AgentStops(a) ==
  /\ agent[a] # "stopped"
  /\ agent' = [agent EXCEPT ![a] = "stopped"]
  /\ UNCHANGED <<tokenVars, devices, clients, session, claimVars, rpcVars, call, file, crashes>>

-----------------------------------------------------------------------------
Handler(q) ==
  \/ ConsumeToken(q) \/ CreateDevice(q) \/ SendCommand(q)
  \/ ReceiveResponse(q) \/ Timeout(q) \/ Return(q)

Admin == HandleResponse \/ ConnectionLost \/ OnConnect \/ \E m \in responses : LockResponse(m)

AgentStep(a) ==
  \/ LoadCached(a) \/ ClaimResponse(a) \/ Save(a) \/ AgentStops(a)
  \/ \E q \in Claim, d \in Device : SendClaim(a, q, d)

Next ==
  \/ \E t \in Token : CreateToken(t) \/ ExpireToken(t)
  \/ \E q \in Claim : Handler(q) \/ \E v \in Verdict : PluginCreateClient(q, v)
  \/ Admin
  \/ \E a \in Agent : AgentStep(a)
  \/ Crash

Spec == Init /\ [][Next]_vars

(* Handler goroutines run, timers fire, a received response is handled, and*)
(* sync.Mutex starves nobody (strong fairness of the two lock users).      *)
Fairness ==
  /\ WF_vars(HandleResponse)
  /\ \A q \in Claim :
       /\ WF_vars(ConsumeToken(q))
       /\ WF_vars(CreateDevice(q))
       /\ SF_vars(SendCommand(q))
       /\ WF_vars(ReceiveResponse(q) \/ Timeout(q))
       /\ SF_vars(Return(q))

FairSpec == Spec /\ Fairness

-----------------------------------------------------------------------------
(* Properties.                                                             *)

(* A registration token pays for one device at most (ConsumeToken: it      *)
(* cannot be replayed against a second claim request), also when two agents*)
(* share it, a claim is repeated after an error, or the process restarts.  *)
OneDevicePerToken ==
  \A d, e \in Device : devices[d] = devices[e] /\ devices[d] # None => d = e

(* Whoever the broker lets in has a row in devices, which the foreign key  *)
(* of readings needs (the order claim.go argues for), also when a timed-out*)
(* command is executed after the claim has failed.                         *)
CredentialedHasRow ==
  \A d \in Device : clients[d] # None => devices[d] # None

(* Cached credentials are the ones the broker has: taking "Client already  *)
(* exists" for success never hands out a password the broker does not know *)
(* (CreateClient, devices.Create).                                         *)
CachedCredentialsWork ==
  \A a \in Agent : file[a] # None => clients[asked[file[a]].dev] = file[a]

(* handleResponse never blocks on a full channel while it holds the mutex, *)
(* however often and however late a response comes (do, handleResponse).   *)
HandlerNeverBlocks ==
  mu # None /\ mu.claim \in pending => chan[mu.claim] = "empty"

(* Every claim is answered, although commands and responses may be lost.   *)
ClaimAnswered ==
  \A q \in Claim : pc[q] \notin Answered \union {"unsent"} ~> pc[q] \in Answered
=============================================================================
