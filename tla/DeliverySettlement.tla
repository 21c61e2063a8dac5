------------------------- MODULE DeliverySettlement -------------------------
(***************************************************************************)
(* What becomes of a message that a Consumer was given (consumer.go): one  *)
(* worker runs processMessage or processBatch, the handler (or a goroutine *)
(* it left behind) may settle the delivery itself at any time, and the     *)
(* frames the library sends reach the broker later, in the order of their  *)
(* channel, or are lost with it.                                           *)
(*                                                                         *)
(* Messages are numbered; 1 .. NumOriginals are on the queue at first, the *)
(* other numbers are for the copies a classic queue's retry publishes.     *)
(***************************************************************************)
EXTENDS Naturals, Sequences, FiniteSets

CONSTANTS NumOriginals, NumMessages,
          MaxRetries,     \* bound on consumerConfig.MaxRetries
          MaxAttempts,    \* bound on handler runs of one original
          MaxDeaths       \* bound on channels that die

ASSUME SettlementAssumption ==
  /\ NumOriginals \in Nat \ {0} /\ NumMessages \in Nat /\ NumOriginals <= NumMessages
  /\ MaxRetries \in Nat /\ MaxAttempts \in Nat /\ MaxDeaths \in Nat

Originals == 1 .. NumOriginals
Messages == 1 .. NumMessages

VARIABLES
  cfg,        \* the consumer's configuration, and what kind of queue it consumes
  msg,        \* the broker's messages, and the headers that count attempts
  settled,    \* Delivery.settled of each message's present delivery
  wire,       \* frames sent and not yet handled by the broker, per channel
  open,       \* which channels are open
  pc, batch, results,       \* the worker: where, with which deliveries, with which errors
  header,     \* x-delivery-count of the latest delivery, 0 when absent
  panicked,   \* the batch handler panicked
  handled,    \* history: originals somebody answered for (success, or a manual ack)
  attempts,   \* history: handler runs per original
  disturbed,  \* history: something other than failures caused a redelivery
  deaths      \* history: channels that died

history == <<handled, attempts, disturbed>>
channels == <<open, deaths>>
worker == <<pc, batch, results, header, panicked>>
vars == <<cfg, msg, settled, wire, worker, channels, history>>

\* batch: ConsumeBatch; quorum, declared: the queue's type and WithQueueType's;
\* own: ChannelPerWorker.
Configurations ==
  [batch : BOOLEAN, autoAck : BOOLEAN, quorum : BOOLEAN, declared : BOOLEAN,
   own : BOOLEAN, rejectRequeue : BOOLEAN, maxRetries : 0 .. MaxRetries]

\* "deliveries": the channel deliveries arrive on; "publish": c.ch.
Channels == {"deliveries", "publish"}
PublishChannel == IF cfg.own THEN "publish" ELSE "deliveries"

\* Compressed then encrypted ("sealed"), undecodable ("corrupt"), or neither.
Encodings == {"plain", "sealed", "corrupt"}
Outcomes == {"ok", "error", "rejectRequeue", "rejectDrop"}
Settlements == {"ack", "requeue", "drop"}
PCs == {"idle", "decode", "handling", "succeeded", "failed", "backoff", "retry", "republished", "settling"}
Places == {"unused", "sent", "ready", "out", "acked", "dropped"}
MessageRecords ==
  [place : Places, origin : Originals, encoding : Encodings,
   retries : Nat,      \* header x-retry-count
   stamp : Nat,        \* header x-delivery-count as published
   count : Nat]        \* the broker's own delivery count
Frames == [op : Settlements \cup {"publish"}, m : Messages]

QueueTyped ==
  cfg \in Configurations /\ msg \in [Messages -> MessageRecords] /\ settled \in [Messages -> BOOLEAN]
WireTyped == wire \in [Channels -> Seq(Frames)]
WorkerTyped ==
  /\ pc \in PCs /\ header \in Nat /\ panicked \in BOOLEAN
  /\ batch \in Seq(Messages) /\ results \in Seq(Outcomes)
RestTyped ==
  /\ open \in [Channels -> BOOLEAN] /\ deaths \in 0 .. MaxDeaths
  /\ handled \subseteq Originals /\ attempts \in [Originals -> 0 .. MaxAttempts]
  /\ disturbed \in BOOLEAN

TypeOK == QueueTyped /\ WireTyped /\ WorkerTyped /\ RestTyped

\* A batch has no retries; a queue holds one message unless batches are consumed.
Init ==
  /\ cfg \in {c \in Configurations : c.batch => ~c.own /\ c.maxRetries = 0 /\ c.quorum /\ c.declared /\ c.rejectRequeue}
  /\ \E e \in Encodings :
       msg = [m \in Messages |->
               [place |-> IF m = 1 \/ (cfg.batch /\ m \in Originals) THEN "ready" ELSE "unused",
                origin |-> IF m \in Originals THEN m ELSE 1,
                encoding |-> IF m = 1 THEN e ELSE "plain",
                retries |-> 0, stamp |-> 0, count |-> 0]]
  /\ settled = [m \in Messages |-> FALSE]
  /\ wire = [c \in Channels |-> <<>>]
  /\ open = [c \in Channels |-> TRUE] /\ deaths = 0
  /\ pc = "idle" /\ batch = <<>> /\ results = <<>> /\ header = 0 /\ panicked = FALSE
  /\ handled = {} /\ attempts = [o \in Originals |-> 0] /\ disturbed = FALSE
-----------------------------------------------------------------------------
(* Settling.                                                                 *)

Sends(c, op, m) == wire' = [wire EXCEPT ![c] = Append(@, [op |-> op, m |-> m])]

\* Mutant: the frame is sent whether or not the guard was claimed before.
SettleUnguarded(m, op) ==
  /\ settled' = [settled EXCEPT ![m] = TRUE]
  /\ IF open["deliveries"] THEN Sends("deliveries", op, m) ELSE UNCHANGED wire

\* Ack, Nack and Reject: the guard is claimed even if the frame cannot be sent.
Settle(m, op) ==
  /\ settled' = [settled EXCEPT ![m] = TRUE]
  /\ IF settled[m] \/ ~open["deliveries"] THEN UNCHANGED wire ELSE Sends("deliveries", op, m)

Requeue(yes) == IF yes THEN "requeue" ELSE "drop"

\* The x-delivery-count a delivery carries: the broker's count, from the first
\* redelivery from a quorum queue on; else what the message was published with.
DeliveryCount(m) ==
  IF cfg.quorum /\ msg[m].count > 0 THEN msg[m].count ELSE msg[m].stamp

getRetryCount(m) == IF header > 0 THEN header - 1 ELSE msg[m].retries

\* The worker is done with its deliveries and goes back to its channel.
Done == pc' = "idle" /\ batch' = <<>> /\ results' = <<>> /\ header' = 0 /\ panicked' = FALSE
GoTo(next) == pc' = next /\ UNCHANGED <<batch, results, header, panicked>>
-----------------------------------------------------------------------------
(* processMessage and handleProcessingError.                                 *)

\* The broker acknowledges by itself when the consumer subscribed with autoAck.
Deliver(m) ==
  /\ pc = "idle" /\ open["deliveries"]
  /\ msg[m].place = "ready" /\ attempts[msg[m].origin] < MaxAttempts
  /\ Len(batch) < NumOriginals
  /\ msg' = [msg EXCEPT ![m].place = IF cfg.autoAck THEN "acked" ELSE "out"]
  /\ settled' = [settled EXCEPT ![m] = FALSE]
  /\ batch' = Append(batch, m) /\ pc' = "decode" /\ header' = DeliveryCount(m)
  /\ attempts' = [attempts EXCEPT ![msg[m].origin] = @ + 1]
  /\ UNCHANGED <<cfg, wire, results, panicked, channels, handled, disturbed>>

\* Consume decrypts, then decompresses.
Decode ==
  /\ pc = "decode" /\ ~cfg.batch
  /\ LET m == Head(batch) IN
       IF msg[m].encoding = "corrupt"
       THEN /\ pc' = "failed" /\ results' = <<"error">> /\ UNCHANGED <<batch, header, panicked>>
       ELSE GoTo("handling")
  /\ UNCHANGED <<cfg, msg, settled, wire, channels, history>>

\* A panic of the handler is an error.
HandlerReturns(r) ==
  /\ pc = "handling" /\ ~cfg.batch
  /\ results' = <<r>> /\ pc' = (IF r = "ok" THEN "succeeded" ELSE "failed")
  /\ handled' = IF r = "ok" THEN handled \cup {msg[Head(batch)].origin} ELSE handled
  /\ UNCHANGED <<cfg, msg, settled, wire, batch, header, panicked, channels, attempts, disturbed>>

\* The handler, or a goroutine it started, settles a delivery itself.
SettleManually(op) ==
  /\ pc \notin {"idle", "decode"} /\ ~cfg.autoAck
  /\ \E i \in 1 .. Len(batch) : LET m == batch[i] IN
       /\ ~settled[m] /\ Settle(m, op)
       /\ handled' = IF op = "ack" THEN handled \cup {msg[m].origin} ELSE handled
  /\ disturbed' = TRUE
  /\ UNCHANGED <<cfg, msg, worker, channels, attempts>>

Succeed ==
  /\ pc = "succeeded" /\ Done
  /\ IF cfg.autoAck THEN UNCHANGED <<settled, wire>> ELSE Settle(Head(batch), "ack")
  /\ UNCHANGED <<cfg, msg, channels, history>>

Failed(r) == pc = "failed" /\ ~cfg.autoAck /\ ~settled[Head(batch)] /\ Head(results) \in r

\* handleProcessingError has nothing to do.
SkipSettled ==
  /\ pc = "failed" /\ (cfg.autoAck \/ settled[Head(batch)]) /\ Done
  /\ UNCHANGED <<cfg, msg, settled, wire, channels, history>>

HonourReject ==
  /\ Failed({"rejectRequeue", "rejectDrop"}) /\ Done
  /\ Settle(Head(batch), Requeue(Head(results) = "rejectRequeue")) /\ disturbed' = TRUE
  /\ UNCHANGED <<cfg, msg, channels, handled, attempts>>

NackByDefault ==
  /\ Failed({"error"}) /\ cfg.maxRetries = 0 /\ Done
  /\ Settle(Head(batch), Requeue(cfg.rejectRequeue))
  /\ UNCHANGED <<cfg, msg, channels, history>>

RetriesExhausted ==
  /\ Failed({"error"}) /\ cfg.maxRetries > 0 /\ getRetryCount(Head(batch)) >= cfg.maxRetries /\ Done
  /\ Settle(Head(batch), "drop")
  /\ UNCHANGED <<cfg, msg, channels, history>>

\* Mutant: the last retry is counted as one that is left.
StartRetryOneMore ==
  /\ Failed({"error"}) /\ cfg.maxRetries > 0 /\ getRetryCount(Head(batch)) <= cfg.maxRetries
  /\ GoTo("backoff")
  /\ UNCHANGED <<cfg, msg, settled, wire, channels, history>>

StartRetry ==
  /\ Failed({"error"}) /\ getRetryCount(Head(batch)) < cfg.maxRetries
  /\ GoTo("backoff")
  /\ UNCHANGED <<cfg, msg, settled, wire, channels, history>>

\* The backoff timer, or the context.
BackoffOver ==
  /\ pc = "backoff" /\ GoTo("retry")
  /\ UNCHANGED <<cfg, msg, settled, wire, channels, history>>

RetryOnQuorum ==
  /\ pc = "retry" /\ cfg.declared /\ Done
  /\ Settle(Head(batch), "requeue")
  /\ UNCHANGED <<cfg, msg, channels, history>>

\* republishWithRetry: the headers and the decoded body, on c.ch.
Copy(m, c) ==
  msg' = [msg EXCEPT ![c] = [place |-> "sent", origin |-> msg[m].origin,
                             encoding |-> IF msg[m].encoding = "corrupt" THEN "corrupt" ELSE "plain",
                             retries |-> getRetryCount(m) + 1,
                             stamp |-> header, count |-> 0]]

\* Mutant: the original is acknowledged before the copy is published.
RepublishAckFirst ==
  /\ pc = "retry" /\ ~cfg.declared /\ open[PublishChannel] /\ ~settled[Head(batch)]
  /\ \E c \in Messages :
       /\ msg[c].place = "unused" /\ \A d \in Messages : msg[d].place = "unused" => c <= d
       /\ Copy(Head(batch), c)
       /\ LET acked == [wire EXCEPT !["deliveries"] = Append(@, [op |-> "ack", m |-> Head(batch)])] IN
            wire' = [acked EXCEPT ![PublishChannel] = Append(@, [op |-> "publish", m |-> c])]
  /\ settled' = [settled EXCEPT ![Head(batch)] = TRUE]
  /\ GoTo("republished")
  /\ UNCHANGED <<cfg, channels, history>>

Republish ==
  /\ pc = "retry" /\ ~cfg.declared /\ open[PublishChannel]
  /\ \E c \in Messages :
       /\ msg[c].place = "unused" /\ \A d \in Messages : msg[d].place = "unused" => c <= d
       /\ Copy(Head(batch), c) /\ Sends(PublishChannel, "publish", c)
  /\ GoTo("republished")
  /\ UNCHANGED <<cfg, settled, channels, history>>

\* The publish fails: the original goes to the dead-letter exchange.
RepublishFails ==
  /\ pc = "retry" /\ ~cfg.declared /\ ~open[PublishChannel] /\ Done
  /\ Settle(Head(batch), "drop")
  /\ UNCHANGED <<cfg, msg, channels, history>>

AckOriginal ==
  /\ pc = "republished" /\ Done
  /\ Settle(Head(batch), "ack")
  /\ UNCHANGED <<cfg, msg, channels, history>>
-----------------------------------------------------------------------------
(* ConsumeBatch and processBatch.                                            *)

\* ConsumeBatch decompresses, then decrypts: a sealed message cannot be decoded
\* and is rejected, as a corrupt one is.
BatchDecode ==
  /\ pc = "decode" /\ cfg.batch
  /\ LET m == batch[Len(batch)] IN
       IF msg[m].encoding = "plain"
       THEN UNCHANGED <<batch, settled, wire>>
       ELSE /\ batch' = SubSeq(batch, 1, Len(batch) - 1)
            /\ IF cfg.autoAck THEN UNCHANGED <<settled, wire>>
                              ELSE Settle(m, Requeue(cfg.rejectRequeue))
  /\ pc' = "idle"
  /\ UNCHANGED <<cfg, msg, results, header, panicked, channels, history>>

\* The batch is full, its timer fired, or the call is ending.
BatchStarts ==
  /\ pc = "idle" /\ batch # <<>> /\ GoTo("handling")
  /\ UNCHANGED <<cfg, msg, settled, wire, channels, history>>

\* The handler's errors, padded with nil or cut to the length of the batch.
Fitted(errors) == [i \in 1 .. Len(batch) |-> IF i <= Len(errors) THEN errors[i] ELSE "ok"]

BatchReturns ==
  /\ pc = "handling" /\ cfg.batch
  /\ \E n \in 0 .. Len(batch) + 1 : \E errors \in [1 .. n -> {"ok", "error"}] :
       results' = Fitted(errors)
  /\ pc' = "settling" /\ UNCHANGED <<batch, header, panicked>>
  /\ handled' = handled \cup {msg[batch[i]].origin : i \in {j \in 1 .. Len(batch) : results'[j] = "ok"}}
  /\ UNCHANGED <<cfg, msg, settled, wire, channels, attempts, disturbed>>

\* Mutant: a panic leaves no errors behind, and none is taken for success.
BatchPanicsNoErrors ==
  /\ pc = "handling" /\ cfg.batch
  /\ results' = Fitted(<<>>) /\ panicked' = TRUE
  /\ pc' = "settling" /\ UNCHANGED <<batch, header>>
  /\ UNCHANGED <<cfg, msg, settled, wire, channels, history>>

\* A panic makes an error for every message of the batch.
BatchPanics ==
  /\ pc = "handling" /\ cfg.batch
  /\ results' = [i \in 1 .. Len(batch) |-> "error"] /\ panicked' = TRUE
  /\ pc' = "settling" /\ UNCHANGED <<batch, header>>
  /\ UNCHANGED <<cfg, msg, settled, wire, channels, history>>

BatchSettles ==
  /\ pc = "settling" /\ batch # <<>>
  /\ IF cfg.autoAck THEN UNCHANGED <<settled, wire>>
     ELSE Settle(Head(batch), IF Head(results) = "ok" THEN "ack" ELSE Requeue(cfg.rejectRequeue))
  /\ batch' = Tail(batch) /\ results' = Tail(results) /\ UNCHANGED <<pc, header, panicked>>
  /\ UNCHANGED <<cfg, msg, channels, history>>

BatchDone ==
  /\ pc = "settling" /\ batch = <<>> /\ Done
  /\ UNCHANGED <<cfg, msg, settled, wire, channels, history>>
-----------------------------------------------------------------------------
(* The broker and the channels.                                              *)

BrokerHandles(c) ==
  /\ wire[c] # <<>>
  /\ LET f == Head(wire[c]) IN
       msg' = CASE f.op = "ack" -> [msg EXCEPT ![f.m].place = "acked"]
                [] f.op = "drop" -> [msg EXCEPT ![f.m].place = "dropped"]
                [] f.op = "requeue" -> [msg EXCEPT ![f.m].place = "ready", ![f.m].count = @ + 1]
                [] f.op = "publish" -> [msg EXCEPT ![f.m].place = "ready"]
  /\ wire' = [wire EXCEPT ![c] = Tail(@)]
  /\ UNCHANGED <<cfg, settled, worker, channels, history>>

\* What was on its way on the channel is lost; what was delivered on it goes back.
ChannelDies(c) ==
  /\ open[c] /\ deaths < MaxDeaths /\ (c = "publish" => cfg.own)
  /\ open' = [open EXCEPT ![c] = FALSE] /\ deaths' = deaths + 1
  /\ wire' = [wire EXCEPT ![c] = <<>>]
  /\ msg' = [m \in Messages |->
       CASE msg[m].place = "out" /\ c = "deliveries" -> [msg[m] EXCEPT !.place = "ready", !.count = @ + 1]
         [] msg[m].place = "sent" /\ c = PublishChannel -> [msg[m] EXCEPT !.place = "unused"]
         [] OTHER -> msg[m]]
  /\ disturbed' = TRUE
  /\ UNCHANGED <<cfg, settled, worker, handled, attempts>>

\* A subscription comes back on a new channel; c.ch of a ChannelPerWorker
\* consumer, which only retries publish on, is never replaced.
Resubscribe ==
  /\ ~open["deliveries"] /\ pc = "idle" /\ batch = <<>>
  /\ open' = [open EXCEPT !["deliveries"] = TRUE]
  /\ UNCHANGED <<cfg, msg, settled, wire, worker, deaths, history>>

Process ==
  \/ Decode \/ (\E r \in Outcomes : HandlerReturns(r)) \/ Succeed \/ SkipSettled \/ HonourReject
  \/ NackByDefault \/ RetriesExhausted \/ StartRetry
  \/ BackoffOver \/ RetryOnQuorum \/ Republish \/ RepublishFails \/ AckOriginal
ProcessBatch ==
  BatchDecode \/ BatchStarts \/ BatchReturns \/ BatchPanics \/ BatchSettles \/ BatchDone
Next ==
  \/ \E m \in Messages : Deliver(m)
  \/ Process \/ ProcessBatch \/ Resubscribe
  \/ \E op \in Settlements : SettleManually(op)
  \/ \E c \in Channels : BrokerHandles(c) \/ ChannelDies(c)

Spec == Init /\ [][Next]_vars
-----------------------------------------------------------------------------
(* Properties.                                                               *)

\* A delivery is settled at most once on the wire, and only while the broker
\* waits for it, though the handler and the library both may settle it.
SettledOnce ==
  \A m \in Messages :
    Cardinality({i \in 1 .. Len(wire["deliveries"]) :
                   wire["deliveries"][i].m = m /\ wire["deliveries"][i].op # "publish"})
      <= IF msg[m].place = "out" THEN 1 ELSE 0

\* With a shared channel and manual acknowledgement no message disappears: until
\* somebody answered for it, it (or a copy) is queued, with the consumer, on its
\* way back to the queue, or dead-lettered.
Kept(o) == \E m \in Messages : msg[m].origin = o /\ msg[m].place \in {"sent", "ready", "out", "dropped"}
NotLost ==
  ~cfg.own /\ ~cfg.autoAck
    => \A o \in Originals :
         (\E m \in Messages : msg[m].origin = o /\ msg[m].place # "unused") => Kept(o) \/ o \in handled

\* The queue type is declared as it is, and nothing but failures has brought a message back.
FailuresOnly == cfg.declared = cfg.quorum /\ cfg.maxRetries > 0 /\ ~disturbed

\* What WithConsumerRetry promises: failures alone make the handler run for a message
\* once and for maxRetries retries, before it goes to the dead-letter exchange. A
\* quorum queue's message runs once more.
RetriesBounded == FailuresOnly => \A o \in Originals : attempts[o] <= cfg.maxRetries + 1

\* On a classic queue, where each retry is a copy with a header that counts, the promise is kept.
ClassicRetriesBounded == ~cfg.quorum => RetriesBounded

\* After the batch handler panicked the library acknowledges nothing of the batch.
PanicAcksNothing ==
  [][panicked /\ Len(batch') < Len(batch) /\ wire' # wire
       => LET w == wire'["deliveries"] IN w[Len(w)].op # "ack"]_vars
=============================================================================
