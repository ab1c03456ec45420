-------------------------- MODULE TelemetryProofs --------------------------
(* Proofs about Telemetry, for every value of its constants.               *)
EXTENDS Telemetry, FiniteSetTheorems, TLAPS

-----------------------------------------------------------------------------
(* The inductive invariant.                                                *)

(* Only well-formed readings are on their way to the stream or in it.      *)
StreamHoldsReadings ==
  \A p \in Packet : handler[p] = "publish" \/ Stored(p) => content[p] \in Reading

(* A packet no handler has taken yet is not in the stream, so its ingest   *)
(* time stamp, which Handle sets, is fixed once it is.                     *)
StampPrecedesStore ==
  \A p \in Packet :
    broker[p] \in {"unsent", "queued"} => handler[p] = "none" /\ ~Stored(p)

PublishedOnce ==
  \A p \in Packet : handler[p] = "publish" => ~Stored(p)

(* A handler about to ack has published, unless the payload was malformed. *)
AckAfterPublish ==
  \A p \in Packet :
    /\ handler[p] = "dlq" => content[p] = Malformed
    /\ handler[p] = "ack" => content[p] = Malformed \/ Stored(p)

BatchesAreStored ==
  /\ \A p \in items : Stored(p)
  /\ \A w \in Worker : \A p \in flight[w] : Stored(p)

(* A goroutine in flush's ack loop has its whole batch in the table.       *)
AckAfterCommit ==
  \A w \in Worker : pc[w] = "ack" => \A p \in flight[w] : flatten(p) \subseteq db

IInv ==
  /\ TypeOK
  /\ StreamHoldsReadings
  /\ StampPrecedesStore
  /\ PublishedOnce
  /\ AckAfterPublish
  /\ BatchesAreStored
  /\ AckAfterCommit
  /\ AckedIsDurable
  /\ SettledIsPersisted

(* The rows of a message are rows of the table's type.                     *)
LEMMA FlattenType ==
  ASSUME TypeOK, NEW p \in Packet
  PROVE  flatten(p) \subseteq Row
BY TelemetryAssumption DEF TypeOK, flatten, Row

(* flatten depends on the packet's content and time stamp only.            *)
LEMMA FlattenStable ==
  ASSUME NEW p \in Packet, content' = content, stamp'[p] = stamp[p]
  PROVE  flatten(p)' = flatten(p)
BY DEF flatten

(* Every reachable state satisfies the initial part of the invariant.      *)
LEMMA InitIInv ==
  Init => IInv
BY TelemetryAssumption
   DEF Init, IInv, TypeOK, Row, Worker, Stored, StreamHoldsReadings, StampPrecedesStore,
       PublishedOnce, AckAfterPublish, BatchesAreStored, AckAfterCommit,
       AckedIsDurable, SettledIsPersisted

(* The invariant is inductive.                                            *)
LEMMA NextIInv ==
  IInv /\ [Next]_vars => IInv'
<1> SUFFICES ASSUME IInv, [Next]_vars PROVE IInv'
  OBVIOUS
<1> USE TelemetryAssumption
    DEF IInv, TypeOK, Worker, Stored, StreamHoldsReadings, StampPrecedesStore,
        PublishedOnce, AckAfterPublish, BatchesAreStored, AckAfterCommit,
        AckedIsDurable, SettledIsPersisted, mqttVars, procVars
<1>1. CASE Tick
  BY <1>1, FlattenStable DEF Tick
<1>2. CASE ConnectionLost
  BY <1>2, FlattenStable DEF ConnectionLost, DropSession
<1>3. CASE IngestCrash
  BY <1>3, FlattenStable DEF IngestCrash, DropSession
<1>4. CASE OnConnect
  BY <1>4, FlattenStable DEF OnConnect
<1>5. CASE ProcessorCrash
  BY <1>5, FlattenStable DEF ProcessorCrash
<1>6. ASSUME NEW p \in Packet, DevicePublish(p) PROVE IInv'
  BY <1>6, FlattenStable DEF DevicePublish
<1>7. ASSUME NEW p \in Packet, Handle(p) PROVE IInv'
  BY <1>7, FlattenStable DEF Handle, Validate
<1>8. ASSUME NEW p \in Packet, PublishDLQ(p) PROVE IInv'
  <2>1. dlq' \subseteq Packet
    BY <1>8 DEF PublishDLQ
  <2>2. \A q \in Packet : flatten(q)' = flatten(q)
    BY <1>8, FlattenStable DEF PublishDLQ
  <2>3. handler'[p] = "ack" /\ content[p] = Malformed
    BY <1>8 DEF PublishDLQ
  <2>4. QED
    BY <1>8, <2>1, <2>2, <2>3 DEF PublishDLQ
<1>9. ASSUME NEW p \in Packet, PublishOK(p) PROVE IInv'
  BY <1>9, FlattenStable DEF PublishOK
<1>10. ASSUME NEW p \in Packet, PublishError(p) PROVE IInv'
  BY <1>10, FlattenStable DEF PublishError
<1>11. ASSUME NEW p \in Packet, AckPacket(p) PROVE IInv'
  BY <1>11, FlattenStable DEF AckPacket
<1>12. ASSUME NEW p \in Packet, OnMessage(p) PROVE IInv'
  BY <1>12, FlattenStable DEF OnMessage
<1>13. ASSUME NEW p \in Packet, AckWaitExpires(p) PROVE IInv'
  BY <1>13, FlattenStable DEF AckWaitExpires
<1>14. ASSUME NEW w \in Worker, Swap(w) PROVE IInv'
  BY <1>14, FlattenStable DEF Swap, RowsOf
<1>15. ASSUME NEW w \in Worker, InsertOK(w) PROVE IInv'
  <2>1. \A p \in Packet : flatten(p)' = flatten(p)
    BY <1>15, FlattenStable DEF InsertOK
  <2>2. flight[w] \subseteq Packet
    OBVIOUS
  <2>3. RowsOf(flight[w]) \subseteq Row
    BY <2>2, FlattenType DEF RowsOf
  <2>4. \A p \in flight[w] : flatten(p) \subseteq RowsOf(flight[w])
    BY DEF RowsOf
  <2>5. db' \subseteq Row /\ db \subseteq db'
    BY <1>15, <2>3 DEF InsertOK
  <2>6. TypeOK'
    BY <1>15, <2>5 DEF InsertOK
  <2>7. AckAfterCommit' /\ SettledIsPersisted'
    BY <1>15, <2>1, <2>4, <2>5 DEF InsertOK
  <2>8. QED
    BY <1>15, <2>6, <2>7 DEF InsertOK
<1>16. ASSUME NEW w \in Worker, InsertError(w) PROVE IInv'
  <2>1. \A p \in Packet : flatten(p)' = flatten(p)
    BY <1>16, FlattenStable DEF InsertError
  <2>2. flight[w] \subseteq Packet
    OBVIOUS
  <2>3. RowsOf(flight[w]) \subseteq Row
    BY <2>2, FlattenType DEF RowsOf
  <2>4. \A p \in flight[w] : flatten(p) \subseteq RowsOf(flight[w])
    BY DEF RowsOf
  <2>5. db' \subseteq Row /\ db \subseteq db'
    BY <1>16, <2>3 DEF InsertError
  <2>6. TypeOK'
    BY <1>16, <2>5 DEF InsertError
  <2>7. AckAfterCommit' /\ SettledIsPersisted'
    BY <1>16, <2>1, <2>4, <2>5 DEF InsertError
  <2>8. QED
    BY <1>16, <2>6, <2>7 DEF InsertError
<1>17. ASSUME NEW w \in Worker, NEW p \in Packet, AckItem(w, p) PROVE IInv'
  BY <1>17, FlattenStable DEF AckItem, LeaveBatch
<1>18. ASSUME NEW w \in Worker, NEW p \in Packet, AckItemLost(w, p) PROVE IInv'
  BY <1>18, FlattenStable DEF AckItemLost, LeaveBatch
<1>19. ASSUME NEW w \in Worker, NEW p \in Packet, NakItem(w, p) PROVE IInv'
  BY <1>19, FlattenStable DEF NakItem, LeaveBatch
<1>20. CASE UNCHANGED vars
  BY <1>20, FlattenStable DEF vars
<1>21. QED
  BY <1>1, <1>2, <1>3, <1>4, <1>5, <1>6, <1>7, <1>8, <1>9, <1>10, <1>11, <1>12, <1>13, <1>14,
       <1>15, <1>16, <1>17, <1>18, <1>19, <1>20 DEF Next, Ingest, Flush

(* The inductive invariant holds in every reachable state.                 *)
THEOREM Invariance ==
  Spec => []IInv
BY InitIInv, NextIInv, PTL DEF Spec

(* Type correctness: in particular every row the consumer writes is well   *)
(* formed, because only decoded readings with a stamp reach the stream.    *)
THEOREM TypeCorrect ==
  Spec => []TypeOK
<1>1. IInv => TypeOK
  BY DEF IInv
<1>2. QED
  BY <1>1, Invariance, PTL

(* handle never acks an accepted packet that is not in the TELEMETRY       *)
(* stream, whatever connections, publishes and processes fail.             *)
THEOREM NoAckBeforeDurable ==
  Spec => []AckedIsDurable
<1>1. IInv => AckedIsDurable
  BY DEF IInv
<1>2. QED
  BY <1>1, Invariance, PTL

(* flush acks no message whose rows are not committed, for any batch size, *)
(* any number of packets and any mix of crashes and redeliveries.          *)
THEOREM NoAckBeforeCommit ==
  Spec => []SettledIsPersisted
<1>1. IInv => SettledIsPersisted
  BY DEF IInv
<1>2. QED
  BY <1>1, Invariance, PTL

-----------------------------------------------------------------------------
(* The refinement of AtLeastOnce.                                          *)

Accepted == {p \in Packet : Stored(p)}
Persisted == {p \in Packet : Stored(p) /\ flatten(p) \subseteq db}
Settled == {p \in Packet : delivery[p] = "acked"}
Refined == <<Accepted, Persisted, Settled>>

(* A step that changes neither what is stored, nor what is acked, nor the  *)
(* table, nor a stored message's stamp is a stutter of AtLeastOnce.        *)
LEMMA Stutters ==
  ASSUME db' = db, content' = content,
         \A p \in Packet : Stored(p)' = Stored(p),
         \A p \in Packet : (delivery'[p] = "acked") = (delivery[p] = "acked"),
         \A p \in Packet : Stored(p) => stamp'[p] = stamp[p]
  PROVE  UNCHANGED Refined
<1>1. Accepted' = Accepted
  BY DEF Accepted
<1>2. Persisted' = Persisted
  BY FlattenStable DEF Persisted
<1>3. Settled' = Settled
  BY DEF Settled
<1>4. QED
  BY <1>1, <1>2, <1>3 DEF Refined

(* Publishing p is Accept(p): p may or may not find its rows in the table. *)
LEMMA Accepts ==
  ASSUME IInv, NEW p \in Packet, ~Stored(p), db' = db, content' = content, stamp' = stamp,
         delivery' = [delivery EXCEPT ![p] = "pending"]
  PROVE  ALO!Accept(p)
<1>1. /\ Stored(p)'
      /\ \A q \in Packet \ {p} : Stored(q)' = Stored(q)
      /\ \A q \in Packet : (delivery'[q] = "acked") = (delivery[q] = "acked")
  BY DEF IInv, TypeOK, Stored
<1>2. \A q \in Packet : flatten(q)' = flatten(q)
  BY FlattenStable
<1>3. Accepted' = Accepted \union {p} /\ Settled' = Settled
  BY <1>1 DEF Accepted, Settled
<1>4. Persisted' \in {Persisted, Persisted \union {p}}
  <2>1. Persisted' \ {p} = Persisted \ {p}
    BY <1>1, <1>2 DEF Persisted
  <2>2. p \notin Persisted
    BY DEF Persisted
  <2>3. QED
    BY <2>1, <2>2
<1>5. QED
  BY <1>3, <1>4 DEF ALO!Accept, Accepted, Persisted, Settled

(* Committing a batch is Persist of what the table then covers.            *)
LEMMA Persists ==
  ASSUME db \subseteq db', content' = content, stamp' = stamp, delivery' = delivery
  PROVE  ALO!Next
<1>1. \A q \in Packet : flatten(q)' = flatten(q) /\ Stored(q)' = Stored(q)
  BY FlattenStable DEF Stored
<1>2. Accepted' = Accepted /\ Settled' = Settled
  BY <1>1 DEF Accepted, Settled
<1>3. Persisted' = Persisted \union Persisted' /\ Persisted' \in SUBSET Accepted
  BY <1>1 DEF Persisted, Accepted
<1>4. ALO!Persist(Persisted')
  BY <1>2, <1>3 DEF ALO!Persist, Accepted, Persisted, Settled
<1>5. QED
  BY <1>3, <1>4 DEF ALO!Next, Accepted

(* Every step of the telemetry path is a step or a stutter of AtLeastOnce. *)
LEMMA StepRefines ==
  IInv /\ [Next]_vars => [ALO!Next]_Refined
<1> SUFFICES ASSUME IInv, [Next]_vars PROVE ALO!Next \/ UNCHANGED Refined
  OBVIOUS
<1> USE DEF mqttVars, procVars
<1>1. CASE Tick \/ ConnectionLost \/ IngestCrash \/ OnConnect \/ ProcessorCrash \/ UNCHANGED vars
  BY <1>1, Stutters
     DEF Tick, ConnectionLost, IngestCrash, OnConnect, ProcessorCrash, vars, Stored
<1>2. ASSUME NEW p \in Packet, DevicePublish(p) PROVE UNCHANGED Refined
  BY <1>2, Stutters DEF DevicePublish, Stored, IInv, TypeOK
<1>3. ASSUME NEW p \in Packet, PublishDLQ(p) PROVE UNCHANGED Refined
  BY <1>3, Stutters DEF PublishDLQ, Stored, IInv, TypeOK
<1>4. ASSUME NEW p \in Packet, AckPacket(p) PROVE UNCHANGED Refined
  BY <1>4, Stutters DEF AckPacket, Stored, IInv, TypeOK
<1>5. ASSUME NEW p \in Packet, OnMessage(p) PROVE UNCHANGED Refined
  BY <1>5, Stutters DEF OnMessage, Stored, IInv, TypeOK
<1>6. ASSUME NEW p \in Packet, AckWaitExpires(p) PROVE UNCHANGED Refined
  BY <1>6, Stutters DEF AckWaitExpires, Stored, IInv, TypeOK
<1>7. ASSUME NEW p \in Packet, Handle(p) PROVE UNCHANGED Refined
  <2>1. ~Stored(p)
    BY <1>7 DEF Handle, Validate, IInv, StampPrecedesStore
  <2>2. QED
    BY <1>7, <2>1, Stutters DEF Handle, Validate, Stored, IInv, TypeOK
<1>8. ASSUME NEW p \in Packet, PublishOK(p) PROVE ALO!Next \/ UNCHANGED Refined
  <2>1. ~Stored(p)
    BY <1>8 DEF PublishOK, IInv, PublishedOnce
  <2>2. CASE delivery' = [delivery EXCEPT ![p] = "pending"]
    BY <1>8, <2>1, <2>2, Accepts DEF PublishOK, ALO!Next
  <2>3. CASE delivery' = delivery
    BY <1>8, <2>3, Stutters DEF PublishOK, Stored
  <2>4. QED
    BY <1>8, <2>2, <2>3 DEF PublishOK
<1>9. ASSUME NEW p \in Packet, PublishError(p) PROVE ALO!Next \/ UNCHANGED Refined
  <2>1. ~Stored(p)
    BY <1>9 DEF PublishError, IInv, PublishedOnce
  <2>2. CASE delivery' = [delivery EXCEPT ![p] = "pending"]
    BY <1>9, <2>1, <2>2, Accepts DEF PublishError, ALO!Next
  <2>3. CASE delivery' = delivery
    BY <1>9, <2>3, Stutters DEF PublishError, Stored
  <2>4. QED
    BY <1>9, <2>2, <2>3 DEF PublishError
<1>10. ASSUME NEW w \in Worker, Swap(w) PROVE UNCHANGED Refined
  BY <1>10, Stutters DEF Swap, Stored
<1>11. ASSUME NEW w \in Worker, InsertOK(w) PROVE ALO!Next
  BY <1>11, Persists DEF InsertOK
<1>12. ASSUME NEW w \in Worker, InsertError(w) PROVE ALO!Next
  BY <1>12, Persists DEF InsertError
<1>13. ASSUME NEW w \in Worker, NEW p \in Packet, AckItem(w, p) PROVE ALO!Next
  <2>1. p \in Persisted
    BY <1>13 DEF AckItem, IInv, BatchesAreStored, AckAfterCommit, Persisted
  <2>2. \A q \in Packet : flatten(q)' = flatten(q) /\ Stored(q)' = Stored(q)
    BY <1>13, <2>1, FlattenStable DEF AckItem, Stored, Persisted, IInv, TypeOK
  <2>3. Accepted' = Accepted /\ Persisted' = Persisted
    BY <1>13, <2>2 DEF AckItem, Accepted, Persisted
  <2>4. Settled' = Settled \union {p}
    BY <1>13 DEF AckItem, Settled, IInv, TypeOK
  <2>5. ALO!Settle(p)
    BY <2>1, <2>3, <2>4 DEF ALO!Settle, Accepted, Persisted, Settled
  <2>6. QED
    BY <2>5 DEF ALO!Next
<1>14. ASSUME NEW w \in Worker, NEW p \in Packet, AckItemLost(w, p) PROVE UNCHANGED Refined
  BY <1>14, Stutters DEF AckItemLost, Stored, IInv, TypeOK
<1>15. ASSUME NEW w \in Worker, NEW p \in Packet, NakItem(w, p) PROVE UNCHANGED Refined
  BY <1>15, Stutters DEF NakItem, Stored, IInv, TypeOK
<1>16. QED
  BY <1>1, <1>2, <1>3, <1>4, <1>5, <1>6, <1>7, <1>8, <1>9, <1>10, <1>11, <1>12, <1>13, <1>14,
       <1>15 DEF Next, Ingest, Flush

(* The telemetry path from the stream to the table implements AtLeastOnce: *)
(* a message is settled only once persisted, and nothing accepted or       *)
(* persisted is ever lost, whatever crashes, redeliveries and lost acks.   *)
THEOREM ImplementsAtLeastOnce ==
  Spec => DeliversAtLeastOnce
<1>1. Init => ALO!Init
  BY DEF Init, ALO!Init, Stored
<1>2. IInv /\ [Next]_vars => [ALO!Next]_Refined
  BY StepRefines
<1>3. QED
  BY <1>1, <1>2, Invariance, PTL
     DEF Spec, DeliversAtLeastOnce, ALO!Spec, Refined, Accepted, Persisted, Settled

-----------------------------------------------------------------------------
(* No duplicate rows.                                                      *)

(* Every row of the table comes from a message of the stream.              *)
RowsHaveMessage ==
  \A row \in db : \E p \in Packet : Stored(p) /\ row \in flatten(p)

(* The stream holds finitely many messages, so counting them makes sense.  *)
FiniteStream == IsFiniteSet(Accepted)

RowInv == RowsHaveMessage /\ FiniteStream

(* A message in the stream stays there, with its content and its stamp:    *)
(* Handle, the one step that stamps, runs before the publish.              *)
LEMMA StreamIsStable ==
  ASSUME IInv, [Next]_vars, NEW p \in Packet, Stored(p)
  PROVE  Stored(p)' /\ flatten(p)' = flatten(p)
<1> USE DEF mqttVars, procVars, IInv, TypeOK, Stored
<1>1. content' = content
  BY DEF Next, Ingest, Flush, Tick, DevicePublish, ConnectionLost, IngestCrash, OnConnect, Handle,
         PublishDLQ, PublishOK, PublishError, AckPacket, OnMessage, Swap, InsertOK, InsertError,
         AckItem, AckItemLost, NakItem, AckWaitExpires, ProcessorCrash, vars
<1>2. stamp'[p] = stamp[p]
  <2>1. ASSUME NEW q \in Packet, Handle(q) PROVE stamp'[p] = stamp[p]
    BY <2>1 DEF Handle, Validate, StampPrecedesStore
  <2>2. QED
    BY <2>1 DEF Next, Ingest, Flush, Tick, DevicePublish, ConnectionLost, IngestCrash, OnConnect,
         PublishDLQ, PublishOK, PublishError, AckPacket, OnMessage, Swap, InsertOK, InsertError,
         AckItem, AckItemLost, NakItem, AckWaitExpires, ProcessorCrash, vars
<1>3. p \in Accepted /\ (Accepted \subseteq Accepted' => Stored(p)')
  BY DEF Accepted
<1>4. Accepted \subseteq Accepted'
  BY StepRefines DEF ALO!Next, ALO!Accept, ALO!Settle, ALO!Persist, Refined, Accepted
<1>5. QED
  BY <1>1, <1>2, <1>3, <1>4, FlattenStable

(* Only a flush that commits adds rows, and only those of its own batch.   *)
LEMMA RowsAdded ==
  ASSUME IInv, [Next]_vars
  PROVE  db' = db \/ \E w \in Worker : db' = db \union RowsOf(flight[w])
BY DEF Next, Ingest, Flush, Tick, DevicePublish, ConnectionLost, IngestCrash, OnConnect, Handle,
       PublishDLQ, PublishOK, PublishError, AckPacket, OnMessage, Swap, InsertOK, InsertError,
       AckItem, AckItemLost, NakItem, AckWaitExpires, ProcessorCrash, vars, mqttVars, procVars

(* Rows keep the message they come from.                                   *)
LEMMA NextRowInv ==
  IInv /\ RowInv /\ [Next]_vars => RowInv'
<1> SUFFICES ASSUME IInv, RowInv, [Next]_vars PROVE RowInv'
  OBVIOUS
<1>1. FiniteStream'
  <2>1. Accepted' = Accepted \/ \E p \in Packet : Accepted' = Accepted \union {p}
    BY StepRefines DEF ALO!Next, ALO!Accept, ALO!Settle, ALO!Persist, Refined, Accepted
  <2>2. QED
    BY <2>1, FS_AddElement DEF RowInv, FiniteStream
<1>2. ASSUME NEW row \in db' PROVE \E p \in Packet : Stored(p)' /\ row \in flatten(p)'
  <2>1. \E p \in Packet : Stored(p) /\ row \in flatten(p)
    <3>1. CASE row \in db
      BY <3>1 DEF RowInv, RowsHaveMessage
    <3>2. CASE row \notin db
      <4>1. PICK w \in Worker : row \in RowsOf(flight[w])
        BY <1>2, <3>2, RowsAdded
      <4>2. PICK p \in flight[w] : row \in flatten(p)
        BY <4>1 DEF RowsOf
      <4>3. p \in Packet /\ Stored(p)
        BY <4>2 DEF IInv, TypeOK, BatchesAreStored
      <4>4. QED
        BY <4>2, <4>3
    <3>3. QED
      BY <3>1, <3>2
  <2>2. QED
    BY <2>1, StreamIsStable
<1>3. QED
  BY <1>1, <1>2 DEF RowInv, RowsHaveMessage

(* Rows of one reading and sensor differ in their time only, which is the  *)
(* stamp of a message that carried the reading: there are no more rows     *)
(* than messages.                                                          *)
LEMMA RowsBounded ==
  IInv /\ RowInv => RedeliveryIsNoOp
<1> SUFFICES ASSUME IInv, RowInv, NEW r \in Reading, NEW s \in Sensor
             PROVE  Cardinality({row \in db : row.reading = r /\ row.sensor = s})
                      <= Cardinality({p \in Packet : content[p] = r /\ Stored(p)})
  BY DEF RedeliveryIsNoOp
<1> DEFINE Rows == {row \in db : row.reading = r /\ row.sensor = s}
           Messages == {p \in Packet : content[p] = r /\ Stored(p)}
           RowOf(p) == [reading |-> r, sensor |-> s, time |-> stamp[p]]
           Carriers == {p \in Messages : RowOf(p) \in db}
           f == [p \in Carriers |-> RowOf(p)]
<1>1. IsFiniteSet(Messages)
  <2>1. Messages \in SUBSET Accepted
    BY DEF Accepted
  <2>2. QED
    BY <2>1, FS_Subset DEF RowInv, FiniteStream
<1>2. Carriers \in SUBSET Messages
  OBVIOUS
<1>3. IsFiniteSet(Carriers) /\ Cardinality(Carriers) <= Cardinality(Messages)
  BY <1>1, <1>2, FS_Subset
<1>4. f \in [Carriers -> Rows]
  OBVIOUS
<1>5. ASSUME NEW row \in Rows PROVE \E p \in Carriers : f[p] = row
  <2>1. PICK p \in Packet : Stored(p) /\ row \in flatten(p)
    BY DEF RowInv, RowsHaveMessage
  <2>2. content[p] = r /\ row = RowOf(p)
    BY <1>5, <2>1 DEF flatten
  <2>3. p \in Carriers
    BY <2>1, <2>2
  <2>4. QED
    BY <2>2, <2>3
<1>6. f \in Surjection(Carriers, Rows)
  BY <1>4, <1>5 DEF Surjection
<1>7. IsFiniteSet(Rows) /\ Cardinality(Rows) <= Cardinality(Carriers)
  BY <1>3, <1>6, FS_Surjection
<1>8. /\ Cardinality(Rows) \in Nat /\ Cardinality(Carriers) \in Nat
      /\ Cardinality(Messages) \in Nat
  BY <1>1, <1>3, <1>7, FS_CardinalityType
<1>9. Cardinality(Rows) <= Cardinality(Messages)
  <2> HIDE DEF Rows, Carriers, Messages
  <2> QED
    BY <1>3, <1>7, <1>8
<1>10. QED
  BY <1>9

(* The unique index makes every redelivery, retry and double flush a no-op:*)
(* a reading never has more rows per sensor than messages that carried it, *)
(* however many packets, crashes and redeliveries there are.               *)
THEOREM NoDuplicateRows ==
  Spec => []RedeliveryIsNoOp
<1>1. Init => RowInv
  <2>1. Init => Accepted = {} /\ RowsHaveMessage
    BY DEF Init, Accepted, Stored, RowsHaveMessage
  <2>2. QED
    BY <2>1, FS_EmptySet DEF RowInv, FiniteStream
<1>2. QED
  BY <1>1, NextRowInv, RowsBounded, Invariance, PTL DEF Spec
=============================================================================
