------------------------- MODULE ProvisioningProofs -------------------------
(***************************************************************************)
(* Proofs about Provisioning, for every set of agents, tokens, device ids  *)
(* and claims, every kind of failing call and every number of crashes.     *)
(***************************************************************************)
EXTENDS Provisioning, TLAPS

(* The steps of an agent that touch only its own state.                    *)
AgentLocal(a) == LoadCached(a) \/ ClaimResponse(a) \/ Save(a) \/ AgentStops(a)

(* A claim that was sent has a request, and only sent claims have commands,*)
(* and an agent that waits or saves does so for a claim it sent.           *)
Sent ==
  /\ \A q \in Claim : pc[q] # "unsent" => asked[q] \in Request
  /\ \A q \in commands : pc[q] # "unsent"
  /\ \A a \in Agent : agent[a] \in {"waiting", "saving"} => call[a] \in Claim

(* A channel holds a response only after handleResponse removed the pending*)
(* entry, and entries and responses belong to a claim inside do().         *)
Channels ==
  /\ \A q \in pending : pc[q] \in {"wait", "return"}
  /\ \A q \in Claim : chan[q] # "empty" => q \notin pending /\ pc[q] \in {"wait", "return"}

(* Where a token's value is: in Redis, with one claim about to insert a    *)
(* row, or in one row.                                                     *)
TokenOnce ==
  /\ \A d \in Device : devices[d] \in (issued \ tokens) \union {None}
  /\ \A q \in Claim : pc[q] = "create" =>
       /\ asked[q].token \in issued \ tokens
       /\ \A d \in Device : devices[d] # asked[q].token
  /\ \A p, q \in Claim :
       pc[p] = "create" /\ pc[q] = "create" /\ asked[p].token = asked[q].token => p = q
  /\ OneDevicePerToken

(* Past the insert, the device asked for has a row; the broker's accounts  *)
(* come from commands sent there.                                          *)
RowFirst ==
  /\ \A q \in Claim : pc[q] \in {"send", "wait", "return", "ok"} \/ q \in commands =>
       devices[asked[q].dev] # None
  /\ CredentialedHasRow

(* Past the insert, or with a command at the broker.                       *)
Inserted(q) == pc[q] \in {"send", "wait", "return", "ok"} \/ q \in commands

(* The verdicts CreateClient takes for success.                            *)
Success == {"ok", "exists"}

(* A device id belongs to the one claim that inserted its row; the broker's*)
(* account is that claim's, and success is reported only once it exists.   *)
Owner ==
  /\ \A p, q \in Claim :
       Inserted(p) /\ Inserted(q) /\ asked[p].dev = asked[q].dev => p = q
  /\ \A q \in Claim : Inserted(q) =>
       clients[asked[q].dev] \in {q, None}
  /\ \A m \in responses : pc[m.claim] # "unsent"
       /\ (m.verdict \in Success => clients[asked[m.claim].dev] # None)
  /\ mu # None => pc[mu.claim] # "unsent"
       /\ (mu.verdict \in Success => clients[asked[mu.claim].dev] # None)
  /\ \A q \in Claim :
       \/ chan[q] \in Success
       \/ pc[q] = "return" /\ outcome[q] = "ok"
       \/ pc[q] = "ok"
       => clients[asked[q].dev] = q
  /\ \A a \in Agent :
       /\ agent[a] = "saving" => pc[call[a]] = "ok"
       /\ file[a] # None => pc[file[a]] = "ok"

IInv == TypeOK /\ Sent /\ Channels /\ TokenOnce /\ RowFirst /\ Owner

-----------------------------------------------------------------------------
(* Every step keeps the types. *)
LEMMA NextTypeOK ==
  ASSUME TypeOK, Sent, [Next]_vars
  PROVE  TypeOK'
<1>. USE ProvisioningAssumption DEF vars, tokenVars, claimVars, rpcVars, agentVars, TypeOK,
      Sent, Answered, Verdict, Request, Response
<1>1. ASSUME NEW t \in Token, CreateToken(t) PROVE TypeOK'
  BY <1>1 DEF CreateToken
<1>2. ASSUME NEW t \in Token, ExpireToken(t) PROVE TypeOK'
  BY <1>2 DEF ExpireToken
<1>3. ASSUME NEW q \in Claim, ConsumeToken(q) PROVE TypeOK'
  BY <1>3 DEF ConsumeToken, Goto
<1>4. ASSUME NEW q \in Claim, CreateDevice(q) PROVE TypeOK'
  BY <1>4 DEF CreateDevice, Goto
<1>5. ASSUME NEW q \in Claim, SendCommand(q) PROVE TypeOK'
  BY <1>5 DEF SendCommand, Goto
<1>6. ASSUME NEW q \in Claim, ReceiveResponse(q) PROVE TypeOK'
  BY <1>6 DEF ReceiveResponse, Leave, Goto
<1>7. ASSUME NEW q \in Claim, Timeout(q) PROVE TypeOK'
  BY <1>7 DEF Timeout, Leave, Goto
<1>8. ASSUME NEW q \in Claim, Return(q) PROVE TypeOK'
  BY <1>8 DEF Return, Goto
<1>9. ASSUME NEW q \in Claim, NEW v \in Verdict, PluginCreateClient(q, v) PROVE TypeOK'
  BY <1>9 DEF PluginCreateClient
<1>10. ASSUME HandleResponse PROVE TypeOK'
  BY <1>10 DEF HandleResponse
<1>11. ASSUME NEW m \in responses, LockResponse(m) PROVE TypeOK'
  BY <1>11 DEF LockResponse
<1>12. ASSUME ConnectionLost PROVE TypeOK'
  BY <1>12 DEF ConnectionLost
<1>13. ASSUME OnConnect PROVE TypeOK'
  BY <1>13 DEF OnConnect
<1>14. ASSUME NEW a \in Agent, AgentLocal(a) PROVE TypeOK'
  BY <1>14 DEF AgentLocal, LoadCached, ClaimResponse, Save, AgentStops
<1>15. ASSUME NEW a \in Agent, NEW q \in Claim, NEW d \in Device, SendClaim(a, q, d) PROVE TypeOK'
  BY <1>15 DEF SendClaim, Goto
<1>16. ASSUME Crash PROVE TypeOK'
  BY <1>16 DEF Crash, Bootstrap
<1>17. ASSUME UNCHANGED vars PROVE TypeOK'
  BY <1>17
<1>. HIDE DEF TypeOK, Sent
<1>. QED
  BY <1>1, <1>2, <1>3, <1>4, <1>5, <1>6, <1>7, <1>8, <1>9, <1>10, <1>11, <1>12, <1>13,
     <1>14, <1>15, <1>16, <1>17
  DEF Next, Handler, Admin, AgentStep, AgentLocal

(* Claims are sent once, and commands and calls refer to sent ones. *)
LEMMA NextSent ==
  ASSUME TypeOK, Sent, [Next]_vars
  PROVE  Sent'
<1>. USE ProvisioningAssumption DEF vars, tokenVars, claimVars, rpcVars, agentVars, TypeOK,
      Sent, Answered, Request
<1>1. ASSUME NEW t \in Token, CreateToken(t) PROVE Sent'
  BY <1>1 DEF CreateToken
<1>2. ASSUME NEW t \in Token, ExpireToken(t) PROVE Sent'
  BY <1>2 DEF ExpireToken
<1>3. ASSUME NEW q \in Claim, ConsumeToken(q) PROVE Sent'
  BY <1>3 DEF ConsumeToken, Goto
<1>4. ASSUME NEW q \in Claim, CreateDevice(q) PROVE Sent'
  BY <1>4 DEF CreateDevice, Goto
<1>5. ASSUME NEW q \in Claim, SendCommand(q) PROVE Sent'
  BY <1>5 DEF SendCommand, Goto
<1>6. ASSUME NEW q \in Claim, ReceiveResponse(q) PROVE Sent'
  BY <1>6 DEF ReceiveResponse, Leave, Goto
<1>7. ASSUME NEW q \in Claim, Timeout(q) PROVE Sent'
  BY <1>7 DEF Timeout, Leave, Goto
<1>8. ASSUME NEW q \in Claim, Return(q) PROVE Sent'
  BY <1>8 DEF Return, Goto
<1>9. ASSUME NEW q \in Claim, NEW v \in Verdict, PluginCreateClient(q, v) PROVE Sent'
  BY <1>9 DEF PluginCreateClient
<1>10. ASSUME HandleResponse PROVE Sent'
  BY <1>10 DEF HandleResponse
<1>11. ASSUME NEW m \in responses, LockResponse(m) PROVE Sent'
  BY <1>11 DEF LockResponse
<1>12. ASSUME ConnectionLost PROVE Sent'
  BY <1>12 DEF ConnectionLost
<1>13. ASSUME OnConnect PROVE Sent'
  BY <1>13 DEF OnConnect
<1>14. ASSUME NEW a \in Agent, AgentLocal(a) PROVE Sent'
  BY <1>14 DEF AgentLocal, LoadCached, ClaimResponse, Save, AgentStops
<1>15. ASSUME NEW a \in Agent, NEW q \in Claim, NEW d \in Device, SendClaim(a, q, d) PROVE Sent'
  BY <1>15 DEF SendClaim, Goto
<1>16. ASSUME Crash PROVE Sent'
  BY <1>16 DEF Crash, Bootstrap
<1>17. ASSUME UNCHANGED vars PROVE Sent'
  BY <1>17
<1>. HIDE DEF TypeOK, Sent
<1>. QED
  BY <1>1, <1>2, <1>3, <1>4, <1>5, <1>6, <1>7, <1>8, <1>9, <1>10, <1>11, <1>12, <1>13,
     <1>14, <1>15, <1>16, <1>17
  DEF Next, Handler, Admin, AgentStep, AgentLocal

(* No step leaves a full channel in the pending map. *)
LEMMA NextChannels ==
  ASSUME TypeOK, Sent, Channels, [Next]_vars
  PROVE  Channels'
<1>. USE ProvisioningAssumption DEF vars, tokenVars, claimVars, rpcVars, agentVars, TypeOK,
      Channels, Answered, Response
<1>1. ASSUME NEW t \in Token, CreateToken(t) PROVE Channels'
  BY <1>1 DEF CreateToken
<1>2. ASSUME NEW t \in Token, ExpireToken(t) PROVE Channels'
  BY <1>2 DEF ExpireToken
<1>3. ASSUME NEW q \in Claim, ConsumeToken(q) PROVE Channels'
  BY <1>3 DEF ConsumeToken, Goto
<1>4. ASSUME NEW q \in Claim, CreateDevice(q) PROVE Channels'
  BY <1>4 DEF CreateDevice, Goto
<1>5. ASSUME NEW q \in Claim, SendCommand(q) PROVE Channels'
  BY <1>5 DEF SendCommand, Goto
<1>6. ASSUME NEW q \in Claim, ReceiveResponse(q) PROVE Channels'
  BY <1>6 DEF ReceiveResponse, Leave, Goto
<1>7. ASSUME NEW q \in Claim, Timeout(q) PROVE Channels'
  BY <1>7 DEF Timeout, Leave, Goto
<1>8. ASSUME NEW q \in Claim, Return(q) PROVE Channels'
  BY <1>8 DEF Return, Goto
<1>9. ASSUME NEW q \in Claim, NEW v \in Verdict, PluginCreateClient(q, v) PROVE Channels'
  BY <1>9 DEF PluginCreateClient
<1>10. ASSUME HandleResponse PROVE Channels'
  BY <1>10 DEF HandleResponse
<1>11. ASSUME NEW m \in responses, LockResponse(m) PROVE Channels'
  BY <1>11 DEF LockResponse
<1>12. ASSUME ConnectionLost PROVE Channels'
  BY <1>12 DEF ConnectionLost
<1>13. ASSUME OnConnect PROVE Channels'
  BY <1>13 DEF OnConnect
<1>14. ASSUME NEW a \in Agent, AgentLocal(a) PROVE Channels'
  BY <1>14 DEF AgentLocal, LoadCached, ClaimResponse, Save, AgentStops
<1>15. ASSUME NEW a \in Agent, NEW q \in Claim, NEW d \in Device, SendClaim(a, q, d) PROVE Channels'
  BY <1>15 DEF SendClaim, Goto
<1>16. ASSUME Crash PROVE Channels'
  BY <1>16 DEF Crash, Bootstrap
<1>17. ASSUME UNCHANGED vars PROVE Channels'
  BY <1>17
<1>. HIDE DEF TypeOK, Channels
<1>. QED
  BY <1>1, <1>2, <1>3, <1>4, <1>5, <1>6, <1>7, <1>8, <1>9, <1>10, <1>11, <1>12, <1>13,
     <1>14, <1>15, <1>16, <1>17
  DEF Next, Handler, Admin, AgentStep, AgentLocal

(* No step copies a token. *)
LEMMA NextTokenOnce ==
  ASSUME TypeOK, Sent, TokenOnce, [Next]_vars
  PROVE  TokenOnce'
<1>. USE ProvisioningAssumption DEF vars, tokenVars, claimVars, rpcVars, agentVars, TypeOK,
      Sent, TokenOnce, OneDevicePerToken, Answered, Request
<1>1. ASSUME NEW t \in Token, CreateToken(t) PROVE TokenOnce'
  BY <1>1 DEF CreateToken
<1>2. ASSUME NEW t \in Token, ExpireToken(t) PROVE TokenOnce'
  BY <1>2 DEF ExpireToken
<1>3. ASSUME NEW q \in Claim, ConsumeToken(q) PROVE TokenOnce'
  BY <1>3 DEF ConsumeToken, Goto
<1>4. ASSUME NEW q \in Claim, CreateDevice(q) PROVE TokenOnce'
  <2>1. /\ pc[q] = "create" /\ asked[q] \in Request
        /\ \A p \in Claim : pc'[p] = "create" => pc[p] = "create" /\ p # q
        /\ UNCHANGED <<issued, tokens, asked>>
    BY <1>4 DEF CreateDevice, Goto
  <2>2. CASE devices' = devices
    BY <2>1, <2>2
  <2>3. CASE devices' = [devices EXCEPT ![asked[q].dev] = asked[q].token]
    BY <2>1, <2>3
  <2>4. QED
    BY <1>4, <2>2, <2>3 DEF CreateDevice
<1>5. ASSUME NEW q \in Claim, SendCommand(q) PROVE TokenOnce'
  BY <1>5 DEF SendCommand, Goto
<1>6. ASSUME NEW q \in Claim, ReceiveResponse(q) PROVE TokenOnce'
  BY <1>6 DEF ReceiveResponse, Leave, Goto
<1>7. ASSUME NEW q \in Claim, Timeout(q) PROVE TokenOnce'
  BY <1>7 DEF Timeout, Leave, Goto
<1>8. ASSUME NEW q \in Claim, Return(q) PROVE TokenOnce'
  BY <1>8 DEF Return, Goto
<1>9. ASSUME NEW q \in Claim, NEW v \in Verdict, PluginCreateClient(q, v) PROVE TokenOnce'
  BY <1>9 DEF PluginCreateClient
<1>10. ASSUME HandleResponse PROVE TokenOnce'
  BY <1>10 DEF HandleResponse
<1>11. ASSUME NEW m \in responses, LockResponse(m) PROVE TokenOnce'
  BY <1>11 DEF LockResponse
<1>12. ASSUME ConnectionLost PROVE TokenOnce'
  BY <1>12 DEF ConnectionLost
<1>13. ASSUME OnConnect PROVE TokenOnce'
  BY <1>13 DEF OnConnect
<1>14. ASSUME NEW a \in Agent, AgentLocal(a) PROVE TokenOnce'
  BY <1>14 DEF AgentLocal, LoadCached, ClaimResponse, Save, AgentStops
<1>15. ASSUME NEW a \in Agent, NEW q \in Claim, NEW d \in Device, SendClaim(a, q, d)
       PROVE TokenOnce'
  BY <1>15 DEF SendClaim, Goto
<1>16. ASSUME Crash PROVE TokenOnce'
  BY <1>16 DEF Crash, Bootstrap
<1>17. ASSUME UNCHANGED vars PROVE TokenOnce'
  BY <1>17
<1>. HIDE DEF TypeOK, Sent, TokenOnce
<1>. QED
  BY <1>1, <1>2, <1>3, <1>4, <1>5, <1>6, <1>7, <1>8, <1>9, <1>10, <1>11, <1>12, <1>13,
     <1>14, <1>15, <1>16, <1>17
  DEF Next, Handler, Admin, AgentStep, AgentLocal

(* No step gives the broker an account without a row. *)
LEMMA NextRowFirst ==
  ASSUME TypeOK, Sent, RowFirst, [Next]_vars
  PROVE  RowFirst'
<1>. USE ProvisioningAssumption DEF vars, tokenVars, claimVars, rpcVars, agentVars, TypeOK,
      Sent, RowFirst, CredentialedHasRow, Answered, Request
<1>1. ASSUME NEW t \in Token, CreateToken(t) PROVE RowFirst'
  BY <1>1 DEF CreateToken
<1>2. ASSUME NEW t \in Token, ExpireToken(t) PROVE RowFirst'
  BY <1>2 DEF ExpireToken
<1>3. ASSUME NEW q \in Claim, ConsumeToken(q) PROVE RowFirst'
  BY <1>3 DEF ConsumeToken, Goto
<1>4. ASSUME NEW q \in Claim, CreateDevice(q) PROVE RowFirst'
  BY <1>4 DEF CreateDevice, Goto
<1>5. ASSUME NEW q \in Claim, SendCommand(q) PROVE RowFirst'
  BY <1>5 DEF SendCommand, Goto
<1>6. ASSUME NEW q \in Claim, ReceiveResponse(q) PROVE RowFirst'
  BY <1>6 DEF ReceiveResponse, Leave, Goto
<1>7. ASSUME NEW q \in Claim, Timeout(q) PROVE RowFirst'
  BY <1>7 DEF Timeout, Leave, Goto
<1>8. ASSUME NEW q \in Claim, Return(q) PROVE RowFirst'
  BY <1>8 DEF Return, Goto
<1>9. ASSUME NEW q \in Claim, NEW v \in Verdict, PluginCreateClient(q, v) PROVE RowFirst'
  BY <1>9 DEF PluginCreateClient
<1>10. ASSUME HandleResponse PROVE RowFirst'
  BY <1>10 DEF HandleResponse
<1>11. ASSUME NEW m \in responses, LockResponse(m) PROVE RowFirst'
  BY <1>11 DEF LockResponse
<1>12. ASSUME ConnectionLost PROVE RowFirst'
  BY <1>12 DEF ConnectionLost
<1>13. ASSUME OnConnect PROVE RowFirst'
  BY <1>13 DEF OnConnect
<1>14. ASSUME NEW a \in Agent, AgentLocal(a) PROVE RowFirst'
  BY <1>14 DEF AgentLocal, LoadCached, ClaimResponse, Save, AgentStops
<1>15. ASSUME NEW a \in Agent, NEW q \in Claim, NEW d \in Device, SendClaim(a, q, d) PROVE RowFirst'
  BY <1>15 DEF SendClaim, Goto
<1>16. ASSUME Crash PROVE RowFirst'
  BY <1>16 DEF Crash, Bootstrap
<1>17. ASSUME UNCHANGED vars PROVE RowFirst'
  BY <1>17
<1>. HIDE DEF TypeOK, Sent, RowFirst
<1>. QED
  BY <1>1, <1>2, <1>3, <1>4, <1>5, <1>6, <1>7, <1>8, <1>9, <1>10, <1>11, <1>12, <1>13,
     <1>14, <1>15, <1>16, <1>17
  DEF Next, Handler, Admin, AgentStep, AgentLocal

(* No step hands out a password that the broker does not have.            *)
LEMMA NextOwner ==
  ASSUME TypeOK, Sent, Channels, RowFirst, Owner, [Next]_vars
  PROVE  Owner'
<1>. USE ProvisioningAssumption DEF vars, tokenVars, claimVars, rpcVars, agentVars, TypeOK,
      Sent, Channels, RowFirst, CredentialedHasRow, Owner, Inserted, Success, Answered,
      Request, Response, Verdict
<1>1. ASSUME NEW t \in Token, CreateToken(t) PROVE Owner'
  BY <1>1 DEF CreateToken
<1>2. ASSUME NEW t \in Token, ExpireToken(t) PROVE Owner'
  BY <1>2 DEF ExpireToken
<1>3. ASSUME NEW q \in Claim, ConsumeToken(q) PROVE Owner'
  BY <1>3 DEF ConsumeToken, Goto
<1>4. ASSUME NEW q \in Claim, CreateDevice(q) PROVE Owner'
  BY <1>4 DEF CreateDevice, Goto
<1>5. ASSUME NEW q \in Claim, SendCommand(q) PROVE Owner'
  BY <1>5 DEF SendCommand, Goto
<1>6. ASSUME NEW q \in Claim, ReceiveResponse(q) PROVE Owner'
  BY <1>6 DEF ReceiveResponse, Leave, Goto
<1>7. ASSUME NEW q \in Claim, Timeout(q) PROVE Owner'
  BY <1>7 DEF Timeout, Leave, Goto
<1>8. ASSUME NEW q \in Claim, Return(q) PROVE Owner'
  BY <1>8 DEF Return, Goto
<1>9. ASSUME NEW q \in Claim, NEW v \in Verdict, PluginCreateClient(q, v) PROVE Owner'
  BY <1>9 DEF PluginCreateClient
<1>10. ASSUME HandleResponse PROVE Owner'
  BY <1>10 DEF HandleResponse
<1>11. ASSUME NEW m \in responses, LockResponse(m) PROVE Owner'
  BY <1>11 DEF LockResponse
<1>12. ASSUME ConnectionLost PROVE Owner'
  BY <1>12 DEF ConnectionLost
<1>13. ASSUME OnConnect PROVE Owner'
  BY <1>13 DEF OnConnect
<1>14. ASSUME NEW a \in Agent, AgentLocal(a) PROVE Owner'
  BY <1>14 DEF AgentLocal, LoadCached, ClaimResponse, Save, AgentStops
<1>15. ASSUME NEW a \in Agent, NEW q \in Claim, NEW d \in Device, SendClaim(a, q, d) PROVE Owner'
  BY <1>15 DEF SendClaim, Goto
<1>16. ASSUME Crash PROVE Owner'
  BY <1>16 DEF Crash, Bootstrap
<1>17. ASSUME UNCHANGED vars PROVE Owner'
  BY <1>17
<1>. HIDE DEF TypeOK, Sent, Channels, RowFirst, Owner
<1>. QED
  BY <1>1, <1>2, <1>3, <1>4, <1>5, <1>6, <1>7, <1>8, <1>9, <1>10, <1>11, <1>12, <1>13,
     <1>14, <1>15, <1>16, <1>17
  DEF Next, Handler, Admin, AgentStep, AgentLocal

(* The inductive invariant.                                                *)
THEOREM Invariance == Spec => []IInv
<1>1. Init => IInv
  BY ProvisioningAssumption
  DEF Init, Bootstrap, IInv, TypeOK, Sent, Channels, TokenOnce, RowFirst, OneDevicePerToken,
      CredentialedHasRow, Owner, Inserted, Success, Answered, Verdict, Request, Response
<1>2. IInv /\ [Next]_vars => IInv'
  BY NextTypeOK, NextSent, NextChannels, NextTokenOnce, NextRowFirst, NextOwner DEF IInv
<1>. QED
  BY <1>1, <1>2, PTL DEF Spec

(* Every variable keeps its type, whatever calls fail.                     *)
THEOREM TypeCorrect == Spec => []TypeOK
  BY Invariance, PTL DEF IInv

(* handleResponse never blocks while it holds the mutex: a response can    *)
(* come twice or after the timeout, for any number of concurrent claims.   *)
THEOREM ResponsesNeverBlock == Spec => []HandlerNeverBlocks
<1>1. IInv => HandlerNeverBlocks
  BY DEF IInv, TypeOK, Channels, HandlerNeverBlocks, Response
<1>. QED
  BY <1>1, Invariance, PTL

(* A registration token pays for one device at most, for any number of     *)
(* agents that share it and any number of crashes and repeated claims.     *)
THEOREM TokensAreSingleUse == Spec => []OneDevicePerToken
<1>1. IInv => OneDevicePerToken
  BY DEF IInv, TokenOnce
<1>. QED
  BY <1>1, Invariance, PTL

(* The broker never has an account for a device without a row.             *)
THEOREM RowBeforeCredential == Spec => []CredentialedHasRow
<1>1. IInv => CredentialedHasRow
  BY DEF IInv, RowFirst
<1>. QED
  BY <1>1, Invariance, PTL

(* Credentials in a state file are always those of the broker's account.   *)
THEOREM CachedCredentialsAuthenticate == Spec => []CachedCredentialsWork
<1>1. IInv => CachedCredentialsWork
  BY DEF IInv, TypeOK, Owner, CachedCredentialsWork
<1>. QED
  BY <1>1, Invariance, PTL
=============================================================================
