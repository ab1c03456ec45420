----------------------------- MODULE Telemetry -----------------------------
(***************************************************************************)
(* The telemetry path: a device's MQTT publish, the ingest bridge          *)
(* (cmd/ingest), the JetStream TELEMETRY stream, and the persistence       *)
(* consumer of cmd/processor that batches readings into TimescaleDB.       *)
(*                                                                         *)
(* A packet is one MQTT delivery.  Two packets may carry the same reading: *)
(* a device's MQTT client resends a publish whose PUBACK it did not see.   *)
(***************************************************************************)
EXTENDS Naturals, FiniteSets

CONSTANTS
  Packet,      (* MQTT packets devices may publish                         *)
  Reading,     (* well-formed readings                                     *)
  Malformed,   (* a payload that handle() routes to the dead-letter queue  *)
  Traffic,     (* traffic to consider: what each packet carries            *)
  Sensor,      (* sensor_type values a row can have                        *)
  Axes,        (* Axes[r]: the sensor types reading r flattens to          *)
  Registered,  (* readings whose device has a row in the devices table     *)
  Corrupt,     (* readings whose stored message does not decode            *)
  BatchSize,   (* rows that trigger a flush (100 in the code)              *)
  MaxTime,     (* bound on the ingest clock                                *)
  Faults,      (* what may crash or be lost: the bridge's link, processes  *)
  MaxCrashes   (* bound on process crashes and connection losses           *)

ASSUME TelemetryAssumption ==
  /\ Malformed \notin Reading
  /\ Traffic \subseteq [Packet -> Reading \union {Malformed}]
  /\ Axes \in [Reading -> SUBSET Sensor]
  /\ \A r \in Reading : Cardinality(Axes[r]) \in Nat
  /\ Registered \subseteq Reading
  /\ Corrupt \subseteq Reading
  /\ BatchSize \in Nat \ {0}
  /\ MaxTime \in Nat
  /\ Faults \subseteq {"link", "ingest", "processor"}
  /\ MaxCrashes \in Nat

VARIABLES
  content,   (* content[p]: what packet p carries, fixed from the start    *)
  now,       (* wall clock of the ingest host                              *)
  link,      (* the bridge's MQTT session: down, subscribed or unsubscribed*)
  broker,    (* broker[p]: what the MQTT broker knows of packet p          *)
  handler,   (* handler[p]: where the goroutine handling p is              *)
  stamp,     (* stamp[p]: the ingest time written into p's message         *)
  shed,      (* packets dropped by the rate limiter                        *)
  dlq,       (* packets in the DLQ stream                                  *)
  delivery,  (* delivery[p]: p's message as the durable consumer sees it   *)
  items,     (* consumer.items: messages waiting for the next flush        *)
  nrows,     (* len(consumer.rows)                                         *)
  pc,        (* where each goroutine that may flush is                     *)
  flight,    (* flight[w]: the items of the batch w is flushing            *)
  db,        (* rows of the readings table                                 *)
  crashes    (* faults so far                                              *)

mqttVars == <<content, now, link, broker, handler, stamp, shed, dlq>>
procVars == <<items, nrows, pc, flight, db>>
vars == <<mqttVars, delivery, procVars, crashes>>

(* The goroutines that call flush: the JetStream callback and run's ticker. *)
Worker == {"consume", "ticker"}

Row == [reading : Reading, sensor : Sensor, time : Nat]

(* Mutant of flatten: the axis is not part of the sensor type.             *)
flattenNoAxis(p) ==
  IF content[p] \in Reading
  THEN {[reading |-> content[p], sensor |-> "base", time |-> stamp[p]] :
          s \in Axes[content[p]]}
  ELSE {}

(* flatten: one row per component of the reading, keyed by ingest time.    *)
flatten(p) ==
  IF content[p] \in Reading
  THEN {[reading |-> content[p], sensor |-> s, time |-> stamp[p]] :
          s \in Axes[content[p]]}
  ELSE {}

RowsOf(S) == UNION {flatten(p) : p \in S}

Stored(p) == delivery[p] # "absent"

TypeOK ==
  /\ content \in Traffic
  /\ now \in 0..MaxTime
  /\ link \in {"down", "subscribed", "unsubscribed"}
  /\ broker \in [Packet -> {"unsent", "queued", "inflight", "acked", "lost"}]
  /\ handler \in [Packet -> {"none", "publish", "dlq", "ack"}]
  /\ stamp \in [Packet -> 0..MaxTime]
  /\ shed \subseteq Packet
  /\ dlq \subseteq Packet
  /\ delivery \in [Packet -> {"absent", "pending", "delivered", "acked", "termed"}]
  /\ items \subseteq Packet
  /\ nrows \in Nat
  /\ pc \in [Worker -> {"idle", "swap", "insert", "ack", "nak"}]
  /\ flight \in [Worker -> SUBSET Packet]
  /\ db \subseteq Row
  /\ crashes \in 0..MaxCrashes

Init ==
  /\ content \in Traffic
  /\ now = 0
  /\ link = "subscribed"
  /\ broker = [p \in Packet |-> "unsent"]
  /\ handler = [p \in Packet |-> "none"]
  /\ stamp = [p \in Packet |-> 0]
  /\ shed = {}
  /\ dlq = {}
  /\ delivery = [p \in Packet |-> "absent"]
  /\ items = {}
  /\ nrows = 0
  /\ pc = [w \in Worker |-> "idle"]
  /\ flight = [w \in Worker |-> {}]
  /\ db = {}
  /\ crashes = 0

-----------------------------------------------------------------------------
(* The MQTT broker and the bridge's session with it.                       *)

Tick ==
  /\ now < MaxTime
  /\ now' = now + 1
  /\ UNCHANGED <<content, link, broker, handler, stamp, shed, dlq, delivery, procVars, crashes>>

(* A QoS 1 publish reaches the broker.  With a clean session the broker    *)
(* keeps nothing for a bridge that is not subscribed.                      *)
DevicePublish(p) ==
  /\ broker[p] = "unsent"
  /\ broker' = [broker EXCEPT ![p] = IF link = "subscribed" THEN "queued" ELSE "lost"]
  /\ UNCHANGED <<content, now, link, handler, stamp, shed, dlq, delivery, procVars, crashes>>

(* What a discarded clean session does to the packets it held.             *)
DropSession ==
  broker' = [p \in Packet |->
               IF broker[p] \in {"queued", "inflight"} THEN "lost" ELSE broker[p]]

(* The connection is lost; handlers that already run carry on.             *)
ConnectionLost ==
  /\ "link" \in Faults
  /\ link # "down"
  /\ crashes < MaxCrashes
  /\ crashes' = crashes + 1
  /\ link' = "down"
  /\ DropSession
  /\ UNCHANGED <<content, now, handler, stamp, shed, dlq, delivery, procVars>>

(* The bridge process dies with every handler goroutine.                   *)
IngestCrash ==
  /\ "ingest" \in Faults
  /\ crashes < MaxCrashes
  /\ crashes' = crashes + 1
  /\ link' = "down"
  /\ DropSession
  /\ handler' = [p \in Packet |-> "none"]
  /\ UNCHANGED <<content, now, stamp, shed, dlq, delivery, procVars>>

(* OnConnect subscribes again; a failed subscribe is only logged, and the  *)
(* session stays up without a subscription.                                *)
OnConnect ==
  /\ link = "down"
  /\ link' \in {"subscribed", "unsubscribed"}
  /\ UNCHANGED <<content, now, broker, handler, stamp, shed, dlq, delivery, procVars, crashes>>

-----------------------------------------------------------------------------
(* ingestHandler.handle, on its own goroutine per packet.                  *)

(* Reading.Validate, and the topic and device checks around it.            *)
Validate(p) == content[p] # Malformed

(* Up to the first network call: validation, the rate limiter's verdict    *)
(* (a choice), the ingest time stamp.  A shed packet is acked at once.     *)
Handle(p) ==
  /\ link = "subscribed"
  /\ broker[p] = "queued"
  /\ \/ /\ ~Validate(p)
        /\ broker' = [broker EXCEPT ![p] = "inflight"]
        /\ handler' = [handler EXCEPT ![p] = "dlq"]
        /\ UNCHANGED <<stamp, shed>>
     \/ /\ Validate(p)
        /\ broker' = [broker EXCEPT ![p] = "acked"]
        /\ shed' = shed \union {p}
        /\ UNCHANGED <<handler, stamp>>
     \/ /\ Validate(p)
        /\ broker' = [broker EXCEPT ![p] = "inflight"]
        /\ handler' = [handler EXCEPT ![p] = "publish"]
        /\ stamp' = [stamp EXCEPT ![p] = now]
        /\ UNCHANGED shed
  /\ UNCHANGED <<content, now, link, dlq, delivery, procVars, crashes>>

(* publishDLQ returns nothing: stored or not, the packet is acked next.    *)
PublishDLQ(p) ==
  /\ handler[p] = "dlq"
  /\ dlq' \in {dlq, dlq \union {p}}
  /\ handler' = [handler EXCEPT ![p] = "ack"]
  /\ UNCHANGED <<content, now, link, broker, stamp, shed, delivery, procVars, crashes>>

(* js.Publish succeeds: the message is durable and the handler acks.       *)
PublishOK(p) ==
  /\ handler[p] = "publish"
  /\ delivery' = [delivery EXCEPT ![p] = "pending"]
  /\ handler' = [handler EXCEPT ![p] = "ack"]
  /\ UNCHANGED <<content, now, link, broker, stamp, shed, dlq, procVars, crashes>>

(* Mutant of PublishError: the handler acks after logging the error.       *)
PublishErrorAcks(p) ==
  /\ handler[p] = "publish"
  /\ delivery' \in {delivery, [delivery EXCEPT ![p] = "pending"]}
  /\ handler' = [handler EXCEPT ![p] = "ack"]
  /\ UNCHANGED <<content, now, link, broker, stamp, shed, dlq, procVars, crashes>>

(* js.Publish returns an error, whether or not the stream stored the       *)
(* message before the 5s timeout: the handler returns without an ack.      *)
PublishError(p) ==
  /\ handler[p] = "publish"
  /\ delivery' \in {delivery, [delivery EXCEPT ![p] = "pending"]}
  /\ handler' = [handler EXCEPT ![p] = "none"]
  /\ UNCHANGED <<content, now, link, broker, stamp, shed, dlq, procVars, crashes>>

(* msg.Ack(): without effect once the session that delivered p is gone.    *)
AckPacket(p) ==
  /\ handler[p] = "ack"
  /\ broker' = [broker EXCEPT ![p] = IF @ = "inflight" THEN "acked" ELSE @]
  /\ handler' = [handler EXCEPT ![p] = "none"]
  /\ UNCHANGED <<content, now, link, stamp, shed, dlq, delivery, procVars, crashes>>

-----------------------------------------------------------------------------
(* The persistence consumer of cmd/processor.                              *)

(* onMessage: an undecodable message is terminated; otherwise it joins the *)
(* batch, and the callback goes on to flush when the batch is full.        *)
OnMessage(p) ==
  /\ delivery[p] = "pending"
  /\ pc["consume"] = "idle"
  /\ \/ /\ content[p] \in Corrupt
        /\ delivery' = [delivery EXCEPT ![p] = "termed"]
        /\ UNCHANGED <<items, nrows, pc>>
     \/ /\ content[p] \notin Corrupt
        /\ delivery' = [delivery EXCEPT ![p] = "delivered"]
        /\ items' = items \union {p}
        /\ nrows' = nrows + Cardinality(Axes[content[p]])
        /\ pc' = [pc EXCEPT !["consume"] = IF nrows' >= BatchSize THEN "swap" ELSE "idle"]
  /\ UNCHANGED <<mqttVars, flight, db, crashes>>

(* flush takes the batch under the mutex.  A batch without rows is         *)
(* forgotten: its messages are neither acked nor nak'ed.                   *)
Swap(w) ==
  /\ pc[w] = IF w = "consume" THEN "swap" ELSE "idle"
  /\ items # {} \/ w = "consume"
  /\ items' = {}
  /\ nrows' = 0
  /\ IF nrows = 0
     THEN /\ pc' = [pc EXCEPT ![w] = "idle"]
          /\ UNCHANGED flight
     ELSE /\ pc' = [pc EXCEPT ![w] = "insert"]
          /\ flight' = [flight EXCEPT ![w] = items]
  /\ UNCHANGED <<mqttVars, delivery, db, crashes>>

(* Mutants of InsertOK: no unique index (the second copy of a row is told  *)
(* apart by its time); a conflict target without the time, DO UPDATE.      *)
InsertDuplicates(w) ==
  /\ pc[w] = "insert"
  /\ \A row \in RowsOf(flight[w]) : row.reading \in Registered
  /\ db' = db \union RowsOf(flight[w]) \union
            {[row EXCEPT !.time = @ + 1] : row \in db \intersect RowsOf(flight[w])}
  /\ pc' = [pc EXCEPT ![w] = "ack"]
  /\ UNCHANGED <<mqttVars, delivery, items, nrows, flight, crashes>>

InsertReplaces(w) ==
  /\ pc[w] = "insert"
  /\ \A row \in RowsOf(flight[w]) : row.reading \in Registered
  /\ db' = RowsOf(flight[w]) \union
            {old \in db : \A row \in RowsOf(flight[w]) :
                            old.reading # row.reading \/ old.sensor # row.sensor}
  /\ pc' = [pc EXCEPT ![w] = "ack"]
  /\ UNCHANGED <<mqttVars, delivery, items, nrows, flight, crashes>>

(* insertBatch commits: one statement, ON CONFLICT DO NOTHING.  The foreign*)
(* key on devices admits no row of an unregistered device.                 *)
InsertOK(w) ==
  /\ pc[w] = "insert"
  /\ \A row \in RowsOf(flight[w]) : row.reading \in Registered
  /\ db' = db \union RowsOf(flight[w])
  /\ pc' = [pc EXCEPT ![w] = "ack"]
  /\ UNCHANGED <<mqttVars, delivery, items, nrows, flight, crashes>>

(* Mutant of InsertError: flush does not return after the failed insert.   *)
InsertErrorAcks(w) ==
  /\ pc[w] = "insert"
  /\ pc' = [pc EXCEPT ![w] = "ack"]
  /\ UNCHANGED <<mqttVars, delivery, items, nrows, flight, db, crashes>>

(* insertBatch fails: rolled back, or committed with the reply lost.       *)
InsertError(w) ==
  /\ pc[w] = "insert"
  /\ \/ UNCHANGED db
     \/ /\ \A row \in RowsOf(flight[w]) : row.reading \in Registered
        /\ db' = db \union RowsOf(flight[w])
  /\ pc' = [pc EXCEPT ![w] = "nak"]
  /\ UNCHANGED <<mqttVars, delivery, items, nrows, flight, crashes>>

(* One iteration of flush's last loops leaves the batch.                   *)
LeaveBatch(w, p) ==
  /\ flight' = [flight EXCEPT ![w] = @ \ {p}]
  /\ pc' = [pc EXCEPT ![w] = IF flight[w] = {p} THEN "idle" ELSE @]

(* Mutant of AckItem: the ack is never sent.                               *)
AckItemForgotten(w, p) ==
  /\ pc[w] = "ack"
  /\ p \in flight[w]
  /\ LeaveBatch(w, p)
  /\ UNCHANGED <<mqttVars, delivery, items, nrows, db, crashes>>

(* item.msg.Ack(): its error is discarded, so the ack may be lost.         *)
AckItem(w, p) ==
  /\ pc[w] = "ack"
  /\ p \in flight[w]
  /\ delivery' = [delivery EXCEPT ![p] = "acked"]
  /\ LeaveBatch(w, p)
  /\ UNCHANGED <<mqttVars, items, nrows, db, crashes>>

AckItemLost(w, p) ==
  /\ pc[w] = "ack"
  /\ p \in flight[w]
  /\ LeaveBatch(w, p)
  /\ UNCHANGED <<mqttVars, delivery, items, nrows, db, crashes>>

(* item.msg.NakWithDelay(2s): a nak of an acked message has no effect.     *)
NakItem(w, p) ==
  /\ pc[w] = "nak"
  /\ p \in flight[w]
  /\ delivery' = [delivery EXCEPT ![p] = IF @ = "delivered" THEN "pending" ELSE @]
  /\ LeaveBatch(w, p)
  /\ UNCHANGED <<mqttVars, items, nrows, db, crashes>>

(* The server's AckWait expires: the message is delivered again, even while*)
(* an earlier delivery is still in a batch.                                *)
AckWaitExpires(p) ==
  /\ delivery[p] = "delivered"
  /\ delivery' = [delivery EXCEPT ![p] = "pending"]
  /\ UNCHANGED <<mqttVars, procVars, crashes>>

ProcessorCrash ==
  /\ "processor" \in Faults
  /\ crashes < MaxCrashes
  /\ crashes' = crashes + 1
  /\ items' = {}
  /\ nrows' = 0
  /\ pc' = [w \in Worker |-> "idle"]
  /\ flight' = [w \in Worker |-> {}]
  /\ UNCHANGED <<mqttVars, delivery, db>>

-----------------------------------------------------------------------------
Ingest(p) == Handle(p) \/ PublishDLQ(p) \/ PublishOK(p) \/ PublishError(p) \/ AckPacket(p)

Flush(w) ==
  \/ Swap(w)
  \/ InsertOK(w)
  \/ InsertError(w)
  \/ \E p \in Packet : AckItem(w, p) \/ AckItemLost(w, p) \/ NakItem(w, p)

Next ==
  \/ Tick
  \/ ConnectionLost
  \/ IngestCrash
  \/ OnConnect
  \/ ProcessorCrash
  \/ \E p \in Packet : DevicePublish(p) \/ Ingest(p) \/ OnMessage(p) \/ AckWaitExpires(p)
  \/ \E w \in Worker : Flush(w)

Spec == Init /\ [][Next]_vars

(* The flushing goroutines run, the server redelivers and does not pass    *)
(* over a message for ever while it hands out others, and neither the      *)
(* database nor the ack path fails forever (strong fairness of success).   *)
ConsumerFairness ==
  /\ \A p \in Packet :
       /\ SF_vars(OnMessage(p)) /\ WF_vars(AckWaitExpires(p))
       /\ SF_vars(\E w \in Worker : AckItem(w, p))
       /\ WF_vars(\E w \in Worker : NakItem(w, p))
  /\ \A w \in Worker :
       /\ WF_vars(Swap(w))
       /\ SF_vars(InsertOK(w))
       /\ WF_vars(InsertOK(w) \/ InsertError(w))

ConsumerFairSpec == Spec /\ ConsumerFairness

-----------------------------------------------------------------------------
(* Safety.                                                                 *)

(* The bridge never acks a packet it accepted before the message is in the *)
(* TELEMETRY stream (handle's contract in handler.go): an acked packet was *)
(* shed by the limiter, malformed, or is durably stored.                   *)
AckedIsDurable ==
  \A p \in Packet :
    broker[p] = "acked" => p \in shed \/ content[p] = Malformed \/ Stored(p)

(* The persistence consumer acks a message only after its rows committed   *)
(* (consumer.go's header), across crashes, redeliveries, lost acks and two *)
(* goroutines flushing at the same time.                                   *)
SettledIsPersisted ==
  \A p \in Packet : delivery[p] = "acked" => flatten(p) \subseteq db

(* A redelivered message is a no-op, not a duplicate row (the comment on   *)
(* the unique index in 0002_readings.sql): a reading has at most one row   *)
(* per sensor for every message that carried it into the stream.           *)
RedeliveryIsNoOp ==
  \A r \in Reading, s \in Sensor :
    Cardinality({row \in db : row.reading = r /\ row.sensor = s})
      <= Cardinality({p \in Packet : content[p] = r /\ Stored(p)})

(* The path from the stream to the table implements AtLeastOnce: accepted  *)
(* is stored in the stream, persisted is having every row in the table,    *)
(* settled is acked.                                                       *)
ALO == INSTANCE AtLeastOnce WITH
  Message   <- Packet,
  accepted  <- {p \in Packet : Stored(p)},
  persisted <- {p \in Packet : Stored(p) /\ flatten(p) \subseteq db},
  settled   <- {p \in Packet : delivery[p] = "acked"}

DeliversAtLeastOnce == ALO!Spec

(* A message is in a batch with a row of an unregistered device, its own   *)
(* or another message's: the foreign key rejects the whole insert.         *)
Poisoned(p) ==
  \E w \in Worker :
    p \in flight[w] /\ \E row \in RowsOf(flight[w]) : row.reading \notin Registered

(* A message that reaches the durable consumer and has rows is eventually  *)
(* acked (or terminated, when it does not decode), across crashes, lost    *)
(* acks, failed inserts and AckWait expiring in the middle of a flush.     *)
(* One thing keeps it from that: every batch it comes back in has a row    *)
(* the foreign key rejects.  A reading of an unregistered device is nak'ed *)
(* for ever, and a good one that is batched with it each time with it.     *)
(* Nothing is said of a message without rows: a batch that has none is     *)
(* forgotten, so such a message is acked only along with one that has      *)
(* rows.                                                                   *)
StoredIsSettled ==
  \A p \in Packet :
    \/ []<>Poisoned(p)
    \/ (delivery[p] = "pending" /\ flatten(p) # {}) ~> (delivery[p] \in {"acked", "termed"})
=============================================================================
