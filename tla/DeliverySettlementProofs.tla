---------------------- MODULE DeliverySettlementProofs ----------------------
(***************************************************************************)
(* Deliveries are settled once, without autoAck no message is lost, and    *)
(* failures alone retry a message as often as configured, for any number   *)
(* of messages, attempts, retries and dying channels.                      *)
(***************************************************************************)
EXTENDS DeliverySettlement, FiniteSetTheorems, TLAPS

\* The worker has a delivery wherever it works on one, and errors for those it settles.
AtWork ==
  /\ pc \notin {"idle", "settling"} => batch # <<>>
  /\ pc \in {"succeeded", "failed", "backoff", "retry", "republished"} => ~cfg.batch
  /\ ~cfg.batch => Len(batch) <= 1 /\ (pc = "idle" => batch = <<>>)
  /\ pc \in {"backoff", "retry", "republished"} => ~cfg.autoAck
  /\ pc = "failed" => results # <<>>
  /\ pc = "settling" => Len(results) = Len(batch)

\* A batch whose handler panicked has errors only.
PanicErrs ==
  panicked => pc = "settling" /\ \A i \in 1 .. Len(results) : results[i] = "error"

-----------------------------------------------------------------------------
(* What the kinds of steps do to wires and messages.                         *)

Held == {batch[i] : i \in 1 .. Len(batch)}

\* Channel c carries one frame more.
AddsFrame(c, f) ==
  /\ wire' \in [Channels -> Seq(Frames)]
  /\ \A d \in Channels \ {c} : wire'[d] = wire[d]
  /\ Len(wire'[c]) = Len(wire[c]) + 1 /\ wire'[c][Len(wire[c]) + 1] = f
  /\ \A i \in 1 .. Len(wire[c]) : wire'[c][i] = wire[c][i]

Settles(m, op) ==
  /\ settled' \in [Messages -> BOOLEAN] /\ settled'[m]
  /\ \A n \in Messages : n # m => settled'[n] = settled[n]
  /\ \/ UNCHANGED wire
     \/ ~settled[m] /\ open["deliveries"] /\ AddsFrame("deliveries", [op |-> op, m |-> m])

PlaceAfter(op) == CASE op = "ack" -> "acked" [] op = "drop" -> "dropped"
                    [] op \in {"requeue", "publish"} -> "ready"

HandlesFirst(c) ==
  LET f == wire[c][1] IN
    /\ Len(wire[c]) >= 1 /\ f \in Frames
    /\ wire' \in [Channels -> Seq(Frames)]
    /\ \A d \in Channels \ {c} : wire'[d] = wire[d]
    /\ Len(wire'[c]) = Len(wire[c]) - 1
    /\ \A i \in 1 .. Len(wire[c]) - 1 : wire'[c][i] = wire[c][i + 1]
    /\ msg' \in [Messages -> MessageRecords]
    /\ \A n \in Messages : msg'[n].origin = msg[n].origin /\ (n # f.m => msg'[n].place = msg[n].place)
    /\ msg'[f.m].place = PlaceAfter(f.op)

Loses(c) ==
  /\ wire' \in [Channels -> Seq(Frames)] /\ wire'[c] = <<>>
  /\ \A d \in Channels \ {c} : wire'[d] = wire[d]
  /\ open' \in [Channels -> BOOLEAN] /\ ~open'[c] /\ \A d \in Channels \ {c} : open'[d] = open[d]
  /\ msg' \in [Messages -> MessageRecords]
  /\ \A n \in Messages :
       /\ msg'[n].origin = msg[n].origin
       /\ msg'[n].place = IF msg[n].place = "out" /\ c = "deliveries" THEN "ready"
                          ELSE IF msg[n].place = "sent" /\ c = PublishChannel THEN "unused"
                          ELSE msg[n].place

Copies(m, c) ==
  /\ msg' \in [Messages -> MessageRecords]
  /\ msg[c].place = "unused" /\ msg'[c].place = "sent" /\ msg'[c].origin = msg[m].origin
  /\ \A n \in Messages : n # c => msg'[n] = msg[n]

LEMMA Recorded ==
  ASSUME NEW r \in MessageRecords, NEW p \in Places
  PROVE  /\ [r EXCEPT !.place = p] \in MessageRecords
         /\ [r EXCEPT !.place = p, !.count = @ + 1] \in MessageRecords
  <1>1. r.count + 1 \in Nat
    BY DEF MessageRecords
  <1>2. QED
    BY <1>1 DEF MessageRecords

LEMMA SendsAdds ==
  ASSUME WireTyped, NEW c \in Channels, NEW op \in Settlements \cup {"publish"}, NEW m \in Messages,
         Sends(c, op, m)
  PROVE  AddsFrame(c, [op |-> op, m |-> m])
  <1> DEFINE f == [op |-> op, m |-> m]
  <1>1. f \in Frames
    BY DEF Frames
  <1>2. wire[c] \in Seq(Frames) /\ wire' = [wire EXCEPT ![c] = Append(@, f)]
    BY DEF WireTyped, Sends
  <1>3. wire'[c] = Append(wire[c], f) /\ \A d \in Channels \ {c} : wire'[d] = wire[d]
    BY <1>2 DEF WireTyped
  <1> HIDE DEF f
  <1>4. Append(wire[c], f) \in Seq(Frames)
    BY <1>1, <1>2
  <1>5. wire' \in [Channels -> Seq(Frames)]
    BY <1>2, <1>4 DEF WireTyped
  <1>6. /\ Len(wire'[c]) = Len(wire[c]) + 1 /\ wire'[c][Len(wire[c]) + 1] = f
        /\ \A i \in 1 .. Len(wire[c]) : wire'[c][i] = wire[c][i]
    BY <1>1, <1>2, <1>3
  <1>7. QED
    BY <1>3, <1>5, <1>6 DEF AddsFrame, f

LEMMA SettleSettles ==
  ASSUME WireTyped, QueueTyped, NEW op \in Settlements, NEW m \in Messages, Settle(m, op)
  PROVE  Settles(m, op)
  <1>1. "deliveries" \in Channels
    BY DEF Channels
  <1>2. CASE settled[m] \/ ~open["deliveries"]
    BY <1>2 DEF Settle, Settles, QueueTyped
  <1>3. CASE ~(settled[m] \/ ~open["deliveries"])
    <2>1. Sends("deliveries", op, m)
      BY <1>3 DEF Settle
    <2>2. AddsFrame("deliveries", [op |-> op, m |-> m])
      BY <1>1, <2>1, SendsAdds
    <2>3. QED
      BY <1>3, <2>2 DEF Settle, Settles, QueueTyped
  <1>4. QED
    BY <1>2, <1>3

LEMMA BrokerHandlesFirst ==
  ASSUME WireTyped, QueueTyped, NEW c \in Channels, BrokerHandles(c)
  PROVE  HandlesFirst(c)
  <1> DEFINE f == wire[c][1]
  <1>1. wire[c] \in Seq(Frames) /\ wire[c] # <<>>
    BY DEF WireTyped, BrokerHandles
  <1>2. Len(wire[c]) >= 1 /\ f \in Frames /\ Head(wire[c]) = f
    BY <1>1
  <1>3. /\ Tail(wire[c]) \in Seq(Frames) /\ Len(Tail(wire[c])) = Len(wire[c]) - 1
        /\ \A i \in 1 .. Len(wire[c]) - 1 : Tail(wire[c])[i] = wire[c][i + 1]
    BY <1>1
  <1>4. wire' = [wire EXCEPT ![c] = Tail(wire[c])]
    BY DEF BrokerHandles, WireTyped
  <1>5. wire'[c] = Tail(wire[c]) /\ \A d \in Channels \ {c} : wire'[d] = wire[d]
    BY <1>4 DEF WireTyped
  <1>6. wire' \in [Channels -> Seq(Frames)]
    BY <1>3, <1>4 DEF WireTyped
  <1>7. f.m \in Messages /\ f.op \in {"ack", "drop", "requeue", "publish"}
    BY <1>2 DEF Frames, Settlements
  <1>8. PICK r \in MessageRecords : /\ msg' = [msg EXCEPT ![f.m] = r]
                                    /\ r.place = PlaceAfter(f.op) /\ r.origin = msg[f.m].origin
    <2>1. msg[f.m] \in MessageRecords
      BY <1>7 DEF QueueTyped
    <2>2. CASE f.op = "ack"
      <3>1. msg' = [msg EXCEPT ![f.m] = [msg[f.m] EXCEPT !.place = "acked"]]
        BY <1>2, <2>2 DEF BrokerHandles
      <3>2. [msg[f.m] EXCEPT !.place = "acked"] \in MessageRecords
        BY <2>1, Recorded DEF Places
      <3>3. QED
        BY <2>1, <2>2, <3>1, <3>2 DEF PlaceAfter, MessageRecords
    <2>3. CASE f.op = "drop"
      <3>1. msg' = [msg EXCEPT ![f.m] = [msg[f.m] EXCEPT !.place = "dropped"]]
        BY <1>2, <2>3 DEF BrokerHandles
      <3>2. [msg[f.m] EXCEPT !.place = "dropped"] \in MessageRecords
        BY <2>1, Recorded DEF Places
      <3>3. QED
        BY <2>1, <2>3, <3>1, <3>2 DEF PlaceAfter, MessageRecords
    <2>4. CASE f.op = "requeue"
      <3>1. msg' = [msg EXCEPT ![f.m] = [msg[f.m] EXCEPT !.place = "ready", !.count = @ + 1]]
        BY <1>2, <2>4 DEF BrokerHandles
      <3>2. [msg[f.m] EXCEPT !.place = "ready", !.count = @ + 1] \in MessageRecords
        BY <2>1, Recorded DEF Places
      <3>3. QED
        BY <2>1, <2>4, <3>1, <3>2 DEF PlaceAfter, MessageRecords
    <2>5. CASE f.op = "publish"
      <3>1. msg' = [msg EXCEPT ![f.m] = [msg[f.m] EXCEPT !.place = "ready"]]
        BY <1>2, <2>5 DEF BrokerHandles
      <3>2. [msg[f.m] EXCEPT !.place = "ready"] \in MessageRecords
        BY <2>1, Recorded DEF Places
      <3>3. QED
        BY <2>1, <2>5, <3>1, <3>2 DEF PlaceAfter, MessageRecords
    <2>6. QED
      BY <1>7, <2>2, <2>3, <2>4, <2>5
  <1>9. /\ msg' \in [Messages -> MessageRecords]
        /\ \A n \in Messages : msg'[n].origin = msg[n].origin /\ (n # f.m => msg'[n].place = msg[n].place)
        /\ msg'[f.m].place = PlaceAfter(f.op)
    BY <1>7, <1>8 DEF QueueTyped
  <1>10. QED
    BY <1>2, <1>3, <1>5, <1>6, <1>9 DEF HandlesFirst

LEMMA DeathLoses ==
  ASSUME WireTyped, QueueTyped, RestTyped, NEW c \in Channels, ChannelDies(c)
  PROVE  Loses(c)
  <1>1. ASSUME NEW n \in Messages
        PROVE  /\ msg'[n] \in MessageRecords /\ msg'[n].origin = msg[n].origin
               /\ msg'[n].place = IF msg[n].place = "out" /\ c = "deliveries" THEN "ready"
                                  ELSE IF msg[n].place = "sent" /\ c = PublishChannel THEN "unused"
                                  ELSE msg[n].place
    <2>1. msg[n] \in MessageRecords
      BY DEF QueueTyped
    <2>2. /\ [msg[n] EXCEPT !.place = "ready", !.count = @ + 1] \in MessageRecords
          /\ [msg[n] EXCEPT !.place = "unused"] \in MessageRecords
      BY <2>1, Recorded DEF Places
    <2>3. CASE msg[n].place = "out" /\ c = "deliveries"
      <3>1. msg'[n] = [msg[n] EXCEPT !.place = "ready", !.count = @ + 1]
        BY <2>3 DEF ChannelDies
      <3>2. QED
        BY <2>1, <2>2, <2>3, <3>1 DEF MessageRecords
    <2>4. CASE ~(msg[n].place = "out" /\ c = "deliveries") /\ msg[n].place = "sent" /\ c = PublishChannel
      <3>1. msg'[n] = [msg[n] EXCEPT !.place = "unused"]
        BY <2>4 DEF ChannelDies
      <3>2. QED
        BY <2>1, <2>2, <2>4, <3>1 DEF MessageRecords
    <2>5. CASE ~(msg[n].place = "out" /\ c = "deliveries") /\ ~(msg[n].place = "sent" /\ c = PublishChannel)
      <3>1. msg'[n] = msg[n]
        BY <2>5 DEF ChannelDies
      <3>2. QED
        BY <2>1, <2>5, <3>1
    <2>6. QED
      BY <2>3, <2>4, <2>5
  <1>2. msg' \in [Messages -> MessageRecords]
    <2>1. DOMAIN msg' = Messages /\ msg' = [n \in Messages |-> msg'[n]]
      BY DEF ChannelDies
    <2>2. QED
      BY <1>1, <2>1
  <1>3. wire' \in [Channels -> Seq(Frames)] /\ wire'[c] = <<>>
    <2>1. <<>> \in Seq(Frames)
      OBVIOUS
    <2>2. QED
      BY <2>1 DEF ChannelDies, WireTyped
  <1>4. \A d \in Channels \ {c} : wire'[d] = wire[d]
    BY DEF ChannelDies, WireTyped
  <1>5. open' \in [Channels -> BOOLEAN] /\ ~open'[c] /\ \A d \in Channels \ {c} : open'[d] = open[d]
    BY DEF ChannelDies, RestTyped
  <1>6. QED
    BY <1>1, <1>2, <1>3, <1>4, <1>5 DEF Loses

LEMMA CopyCopies ==
  ASSUME QueueTyped, WorkerTyped, NEW m \in Messages, NEW c \in Messages, msg[c].place = "unused", Copy(m, c)
  PROVE  Copies(m, c)
  <1> DEFINE r == [place |-> "sent", origin |-> msg[m].origin,
                   encoding |-> IF msg[m].encoding = "corrupt" THEN "corrupt" ELSE "plain",
                   retries |-> getRetryCount(m) + 1, stamp |-> header, count |-> 0]
  <1>1. getRetryCount(m) \in Nat
    BY DEF getRetryCount, QueueTyped, WorkerTyped, MessageRecords
  <1>2. r \in MessageRecords
    BY <1>1 DEF MessageRecords, Places, Encodings, QueueTyped, WorkerTyped
  <1>3. msg' = [msg EXCEPT ![c] = r]
    BY DEF Copy
  <1>4. QED
    BY <1>2, <1>3 DEF Copies, QueueTyped

-----------------------------------------------------------------------------
(* Every step is of one of these kinds.                                      *)

\* Where "ok" is recorded, the handler answered for the message.
OkHandled ==
  /\ pc = "succeeded" => msg[Head(batch)].origin \in handled
  /\ pc = "settling" => \A i \in 1 .. Len(batch) : results[i] = "ok" => msg[batch[i]].origin \in handled

Onward ==
  /\ UNCHANGED <<cfg, msg, open>> /\ Held' \subseteq Held /\ handled \subseteq handled'
  /\ pc' = "republished" => UNCHANGED <<pc, batch>>

Quiet == Onward /\ UNCHANGED <<settled, wire>>

Acknowledges(m) ==
  \/ msg[m].origin \in handled'
  \/ pc = "republished" /\ m = Head(batch) /\ Held' = {}

Settling ==
  /\ Onward /\ ~cfg.autoAck
  /\ \E m \in Held, op \in Settlements : Settles(m, op) /\ (op = "ack" => Acknowledges(m))

Delivers ==
  /\ UNCHANGED <<cfg, wire, open, handled>> /\ pc = "idle" /\ pc' = "decode" /\ open["deliveries"]
  /\ \E m \in Messages :
       /\ msg[m].place = "ready" /\ Held' = Held \cup {m}
       /\ msg' = [msg EXCEPT ![m].place = IF cfg.autoAck THEN "acked" ELSE "out"]
       /\ settled' = [settled EXCEPT ![m] = FALSE]

Republishes ==
  /\ UNCHANGED <<cfg, settled, open, handled, batch>> /\ open[PublishChannel]
  /\ pc = "retry" /\ pc' = "republished" /\ Held = {Head(batch)}
  /\ \E c \in Messages :
       Copies(Head(batch), c) /\ AddsFrame(PublishChannel, [op |-> "publish", m |-> c])

Reopens ==
  /\ UNCHANGED <<cfg, msg, settled, wire, handled, pc, batch>> /\ pc = "idle" /\ Held = {}
  /\ open' = [open EXCEPT !["deliveries"] = TRUE]

Handles == \E c \in Channels : HandlesFirst(c) /\ UNCHANGED <<cfg, settled, open, handled, pc, batch>>
Dies == \E c \in Channels : /\ Loses(c) /\ (c = "publish" => cfg.own)
                            /\ UNCHANGED <<cfg, settled, handled, pc, batch>>

StepKind == Quiet \/ Settling \/ Delivers \/ Republishes \/ Reopens \/ Handles \/ Dies

LEMMA HeldSteps ==
  ASSUME WorkerTyped
  PROVE  /\ Held \subseteq Messages
         /\ batch # <<>> => Head(batch) \in Held
         /\ batch' = batch => Held' = Held
         /\ batch' = <<>> => Held' = {}
         /\ batch # <<>> /\ batch' = Tail(batch) => Held' \subseteq Held
         /\ batch # <<>> /\ batch' = SubSeq(batch, 1, Len(batch) - 1) => Held' \subseteq Held
         /\ batch # <<>> => batch[Len(batch)] \in Held
         /\ batch # <<>> /\ Len(batch) <= 1 => Held = {Head(batch)}
         /\ \A m \in Messages : batch' = Append(batch, m) => Held' = Held \cup {m}
  <1>1. batch \in Seq(Messages)
    BY DEF WorkerTyped
  <1>2. Held \subseteq Messages
    BY <1>1 DEF Held
  <1>3. batch # <<>> => Head(batch) \in Held /\ batch[Len(batch)] \in Held
    BY <1>1 DEF Held
  <1>4. (batch' = batch => Held' = Held) /\ (batch' = <<>> => Held' = {})
    BY DEF Held
  <1>5. batch # <<>> /\ batch' = Tail(batch) => Held' \subseteq Held
    <2>1. SUFFICES ASSUME batch # <<>>, batch' = Tail(batch), NEW i \in 1 .. Len(batch') PROVE batch'[i] \in Held
      BY DEF Held
    <2>2. i + 1 \in 1 .. Len(batch) /\ batch'[i] = batch[i + 1]
      BY <1>1, <2>1
    <2>3. QED
      BY <2>2 DEF Held
  <1>6. batch # <<>> /\ batch' = SubSeq(batch, 1, Len(batch) - 1) => Held' \subseteq Held
    <2>1. SUFFICES ASSUME batch # <<>>, batch' = SubSeq(batch, 1, Len(batch) - 1), NEW i \in 1 .. Len(batch')
                   PROVE  batch'[i] \in Held
      BY DEF Held
    <2>2. i \in 1 .. Len(batch) /\ batch'[i] = batch[i]
      BY <1>1, <2>1
    <2>3. QED
      BY <2>2 DEF Held
  <1>7. batch # <<>> /\ Len(batch) <= 1 => Held = {Head(batch)}
    <2>1. SUFFICES ASSUME batch # <<>>, Len(batch) <= 1 PROVE Held = {Head(batch)}
      OBVIOUS
    <2> DEFINE n == Len(batch)
    <2>2. n \in Nat /\ n # 0 /\ n <= 1
      BY <1>1, <2>1
    <2> HIDE DEF n
    <2>3. n = 1
      BY <2>2
    <2>4. Head(batch) = batch[1]
      BY <1>1, <2>1
    <2>5. QED
      BY <2>3, <2>4 DEF Held, n
  <1>8. ASSUME NEW m \in Messages, batch' = Append(batch, m) PROVE Held' = Held \cup {m}
    <2>1. /\ Len(batch') = Len(batch) + 1 /\ batch'[Len(batch) + 1] = m
          /\ \A i \in 1 .. Len(batch) : batch'[i] = batch[i]
      BY <1>1, <1>8
    <2>2. 1 .. Len(batch') = 1 .. Len(batch) \cup {Len(batch) + 1} /\ Len(batch) \in Nat
      BY <1>1, <2>1
    <2>3. QED
      BY <2>1, <2>2 DEF Held
  <1>9. QED
    BY <1>2, <1>3, <1>4, <1>5, <1>6, <1>7, <1>8

\* Every step is of a kind.
LEMMA StepKinds ==
  ASSUME TypeOK, AtWork, OkHandled, [Next]_vars
  PROVE  StepKind
  <1> USE DEF TypeOK
  <1>1. CASE Decode
    <2>1. Quiet
      BY <1>1, HeldSteps DEF Decode, GoTo, history, channels, worker, Quiet, Onward
    <2>2. QED
      BY <2>1 DEF StepKind
  <1>2. ASSUME NEW r \in Outcomes, HandlerReturns(r) PROVE StepKind
    <2>1. Quiet
      BY <1>2, HeldSteps DEF HandlerReturns, history, channels, worker, Quiet, Onward
    <2>2. QED
      BY <2>1 DEF StepKind
  <1>3. CASE Succeed
    <2>0. CASE cfg.autoAck
      <3>1. Quiet
        BY <1>3, <2>0, HeldSteps DEF Succeed, Done, history, channels, worker, Quiet, Onward
      <3>2. QED
        BY <3>1 DEF StepKind
    <2> DEFINE op == "ack"
    <2>1. CASE ~cfg.autoAck
      <3>1. batch # <<>> /\ Settle(Head(batch), op)
        BY <1>3, <2>1 DEF Succeed, Done, history, channels, worker, AtWork
      <3>2. op \in Settlements /\ Head(batch) \in Held /\ Head(batch) \in Messages
        BY <3>1, HeldSteps DEF Settlements, Requeue
      <3>3. Settles(Head(batch), op)
        BY <3>1, <3>2, SettleSettles DEF TypeOK
      <3>4. Onward /\ Held' = {}
        BY <1>3, HeldSteps DEF Succeed, Done, history, channels, worker, Onward
      <3>5. op = "ack" => Acknowledges(Head(batch))
        BY <1>3 DEF Succeed, Done, history, channels, worker, OkHandled, Acknowledges
      <3>6. QED
        BY <2>1, <3>2, <3>3, <3>4, <3>5 DEF StepKind, Settling
    <2>2. QED
      BY <2>0, <2>1
  <1>4. CASE SkipSettled
    <2>1. Quiet
      BY <1>4, HeldSteps DEF SkipSettled, Done, history, channels, worker, Quiet, Onward
    <2>2. QED
      BY <2>1 DEF StepKind
  <1>5. CASE HonourReject
    <2> DEFINE op == Requeue(Head(results) = "rejectRequeue")
    <2>1. batch # <<>> /\ ~cfg.autoAck /\ Settle(Head(batch), op)
      BY <1>5 DEF HonourReject, Failed, Done, Requeue, history, channels, worker, AtWork
    <2>2. op \in Settlements /\ Head(batch) \in Held /\ Head(batch) \in Messages
      BY <2>1, HeldSteps DEF Settlements, Requeue
    <2>3. Settles(Head(batch), op)
      BY <2>1, <2>2, SettleSettles DEF TypeOK
    <2>4. Onward /\ Held' = {}
      BY <1>5, HeldSteps DEF HonourReject, Failed, Done, Requeue, history, channels, worker, Onward
    <2>5. op = "ack" => Acknowledges(Head(batch))
      BY DEF Requeue
    <2>6. QED
      BY <2>1, <2>2, <2>3, <2>4, <2>5 DEF StepKind, Settling
  <1>6. CASE NackByDefault
    <2> DEFINE op == Requeue(cfg.rejectRequeue)
    <2>1. batch # <<>> /\ ~cfg.autoAck /\ Settle(Head(batch), op)
      BY <1>6 DEF NackByDefault, Failed, Done, Requeue, history, channels, worker, AtWork
    <2>2. op \in Settlements /\ Head(batch) \in Held /\ Head(batch) \in Messages
      BY <2>1, HeldSteps DEF Settlements, Requeue
    <2>3. Settles(Head(batch), op)
      BY <2>1, <2>2, SettleSettles DEF TypeOK
    <2>4. Onward /\ Held' = {}
      BY <1>6, HeldSteps DEF NackByDefault, Failed, Done, Requeue, history, channels, worker, Onward
    <2>5. op = "ack" => Acknowledges(Head(batch))
      BY DEF Requeue
    <2>6. QED
      BY <2>1, <2>2, <2>3, <2>4, <2>5 DEF StepKind, Settling
  <1>7. CASE RetriesExhausted
    <2> DEFINE op == "drop"
    <2>1. batch # <<>> /\ ~cfg.autoAck /\ Settle(Head(batch), op)
      BY <1>7 DEF RetriesExhausted, Failed, Done, history, channels, worker, AtWork
    <2>2. op \in Settlements /\ Head(batch) \in Held /\ Head(batch) \in Messages
      BY <2>1, HeldSteps DEF Settlements, Requeue
    <2>3. Settles(Head(batch), op)
      BY <2>1, <2>2, SettleSettles DEF TypeOK
    <2>4. Onward /\ Held' = {}
      BY <1>7, HeldSteps DEF RetriesExhausted, Failed, Done, history, channels, worker, Onward
    <2>5. op = "ack" => Acknowledges(Head(batch))
      BY DEF Requeue
    <2>6. QED
      BY <2>1, <2>2, <2>3, <2>4, <2>5 DEF StepKind, Settling
  <1>8. CASE StartRetry
    <2>1. Quiet
      BY <1>8, HeldSteps DEF StartRetry, Failed, GoTo, history, channels, worker, Quiet, Onward
    <2>2. QED
      BY <2>1 DEF StepKind
  <1>9. CASE BackoffOver
    <2>1. Quiet
      BY <1>9, HeldSteps DEF BackoffOver, GoTo, history, channels, worker, Quiet, Onward
    <2>2. QED
      BY <2>1 DEF StepKind
  <1>10. CASE RetryOnQuorum
    <2> DEFINE op == "requeue"
    <2>1. batch # <<>> /\ ~cfg.autoAck /\ Settle(Head(batch), op)
      BY <1>10 DEF RetryOnQuorum, Done, history, channels, worker, AtWork
    <2>2. op \in Settlements /\ Head(batch) \in Held /\ Head(batch) \in Messages
      BY <2>1, HeldSteps DEF Settlements, Requeue
    <2>3. Settles(Head(batch), op)
      BY <2>1, <2>2, SettleSettles DEF TypeOK
    <2>4. Onward /\ Held' = {}
      BY <1>10, HeldSteps DEF RetryOnQuorum, Done, history, channels, worker, Onward
    <2>5. op = "ack" => Acknowledges(Head(batch))
      BY DEF Requeue
    <2>6. QED
      BY <2>1, <2>2, <2>3, <2>4, <2>5 DEF StepKind, Settling
  <1>11. CASE Republish
    <2>1. PICK c \in Messages : msg[c].place = "unused" /\ Copy(Head(batch), c) /\ Sends(PublishChannel, "publish", c)
      BY <1>11 DEF Republish
    <2>2. batch # <<>> /\ Len(batch) <= 1 /\ Head(batch) \in Messages /\ Held = {Head(batch)}
      <3>1. batch # <<>> /\ Len(batch) <= 1
        BY <1>11 DEF Republish, AtWork
      <3>2. QED
        BY <3>1, HeldSteps
    <2>3. PublishChannel \in Channels
      BY DEF PublishChannel, Channels
    <2>4. Copies(Head(batch), c)
      BY <2>1, <2>2, CopyCopies DEF TypeOK
    <2>5. AddsFrame(PublishChannel, [op |-> "publish", m |-> c])
      BY <2>1, <2>3, SendsAdds DEF TypeOK
    <2>6. Republishes
      BY <1>11, <2>2, <2>4, <2>5 DEF Republish, GoTo, history, channels, worker, Republishes
    <2>7. QED
      BY <2>6 DEF StepKind
  <1>12. CASE RepublishFails
    <2> DEFINE op == "drop"
    <2>1. batch # <<>> /\ ~cfg.autoAck /\ Settle(Head(batch), op)
      BY <1>12 DEF RepublishFails, Done, history, channels, worker, AtWork
    <2>2. op \in Settlements /\ Head(batch) \in Held /\ Head(batch) \in Messages
      BY <2>1, HeldSteps DEF Settlements, Requeue
    <2>3. Settles(Head(batch), op)
      BY <2>1, <2>2, SettleSettles DEF TypeOK
    <2>4. Onward /\ Held' = {}
      BY <1>12, HeldSteps DEF RepublishFails, Done, history, channels, worker, Onward
    <2>5. op = "ack" => Acknowledges(Head(batch))
      BY DEF Requeue
    <2>6. QED
      BY <2>1, <2>2, <2>3, <2>4, <2>5 DEF StepKind, Settling
  <1>13. CASE AckOriginal
    <2> DEFINE op == "ack"
    <2>1. batch # <<>> /\ ~cfg.autoAck /\ Settle(Head(batch), op)
      BY <1>13 DEF AckOriginal, Done, history, channels, worker, AtWork
    <2>2. op \in Settlements /\ Head(batch) \in Held /\ Head(batch) \in Messages
      BY <2>1, HeldSteps DEF Settlements, Requeue
    <2>3. Settles(Head(batch), op)
      BY <2>1, <2>2, SettleSettles DEF TypeOK
    <2>4. Onward /\ Held' = {}
      BY <1>13, HeldSteps DEF AckOriginal, Done, history, channels, worker, Onward
    <2>5. op = "ack" => Acknowledges(Head(batch))
      BY <1>13, <2>4 DEF AckOriginal, Done, history, channels, worker, Acknowledges
    <2>6. QED
      BY <2>1, <2>2, <2>3, <2>4, <2>5 DEF StepKind, Settling
  <1>14. CASE BatchDecode
    <2> DEFINE m == batch[Len(batch)]
    <2> DEFINE op == Requeue(cfg.rejectRequeue)
    <2>1. batch # <<>> /\ m \in Held /\ m \in Messages /\ op \in Settlements /\ op # "ack"
      BY <1>14, HeldSteps DEF BatchDecode, Requeue, history, channels, worker, AtWork,
          Settlements, Requeue
    <2>2. Onward
      BY <1>14, <2>1, HeldSteps DEF BatchDecode, Requeue, history, channels, worker, Onward
    <2>3. CASE UNCHANGED <<settled, wire>>
      BY <2>2, <2>3 DEF StepKind, Quiet
    <2>4. CASE ~cfg.autoAck /\ Settle(m, op)
      <3>1. Settles(m, op)
        BY <2>1, <2>4, SettleSettles DEF TypeOK
      <3>2. QED
        BY <2>1, <2>2, <2>4, <3>1 DEF StepKind, Settling
    <2>5. QED
      BY <1>14, <2>3, <2>4 DEF BatchDecode
  <1>15. CASE BatchStarts
    <2>1. Quiet
      BY <1>15, HeldSteps DEF BatchStarts, GoTo, history, channels, worker, Quiet, Onward
    <2>2. QED
      BY <2>1 DEF StepKind
  <1>16. CASE BatchReturns
    <2>1. Quiet
      BY <1>16, HeldSteps DEF BatchReturns, history, channels, worker, Quiet, Onward
    <2>2. QED
      BY <2>1 DEF StepKind
  <1>17. CASE BatchPanics
    <2>1. Quiet
      BY <1>17, HeldSteps DEF BatchPanics, history, channels, worker, Quiet, Onward
    <2>2. QED
      BY <2>1 DEF StepKind
  <1>18. CASE BatchSettles
    <2> DEFINE op == IF Head(results) = "ok" THEN "ack" ELSE Requeue(cfg.rejectRequeue)
    <2>1. batch # <<>> /\ Head(batch) \in Held /\ Head(batch) \in Messages /\ op \in Settlements
      BY <1>18, HeldSteps DEF BatchSettles, Requeue, history, channels, worker, Settlements
    <2>2. Onward
      BY <1>18, <2>1, HeldSteps DEF BatchSettles, Requeue, history, channels, worker, Onward
    <2>3. CASE UNCHANGED <<settled, wire>>
      BY <2>2, <2>3 DEF StepKind, Quiet
    <2>4. CASE ~cfg.autoAck /\ Settle(Head(batch), op)
      <3>1. Settles(Head(batch), op)
        BY <2>1, <2>4, SettleSettles DEF TypeOK
      <3>2. ASSUME op = "ack" PROVE msg[Head(batch)].origin \in handled
        <4>1. Head(results) = "ok"
          BY <3>2 DEF Requeue
        <4>2. 1 \in 1 .. Len(batch) /\ Head(batch) = batch[1] /\ Head(results) = results[1]
          BY <2>1, <1>18 DEF BatchSettles, AtWork, WorkerTyped
        <4>3. QED
          BY <4>1, <4>2, <1>18 DEF BatchSettles, OkHandled
      <3>3. op = "ack" => Acknowledges(Head(batch))
        BY <2>2, <3>2 DEF Acknowledges, Onward
      <3>4. QED
        BY <2>1, <2>2, <2>4, <3>1, <3>3 DEF StepKind, Settling
    <2>5. QED
      BY <1>18, <2>3, <2>4 DEF BatchSettles
  <1>19. CASE BatchDone
    <2>1. Quiet
      BY <1>19, HeldSteps DEF BatchDone, Done, history, channels, worker, Quiet, Onward
    <2>2. QED
      BY <2>1 DEF StepKind
  <1>20. CASE Resubscribe
    <2>1. Reopens
      BY <1>20, HeldSteps DEF Resubscribe, history, channels, worker, Reopens, Held
    <2>2. QED
      BY <2>1 DEF StepKind
  <1>21. ASSUME NEW op \in Settlements, SettleManually(op) PROVE StepKind
    <2>1. PICK i \in 1 .. Len(batch) : /\ ~settled[batch[i]] /\ Settle(batch[i], op)
                               /\ handled' = IF op = "ack" THEN handled \cup {msg[batch[i]].origin} ELSE handled
      BY <1>21 DEF SettleManually
    <2>2. batch[i] \in Held /\ batch[i] \in Messages
      BY HeldSteps DEF Held
    <2>3. Settles(batch[i], op)
      BY <2>1, <2>2, SettleSettles DEF TypeOK
    <2>4. Onward /\ ~cfg.autoAck
      BY <1>21, <2>1, HeldSteps DEF SettleManually, history, channels, worker, Onward
    <2>5. op = "ack" => Acknowledges(batch[i])
      BY <2>1 DEF Acknowledges
    <2>6. QED
      BY <2>2, <2>3, <2>4, <2>5 DEF StepKind, Settling
  <1>22. ASSUME NEW m \in Messages, Deliver(m) PROVE StepKind
    <2>1. Delivers
      BY <1>22, HeldSteps DEF Deliver, history, channels, worker, Delivers
    <2>2. QED
      BY <2>1 DEF StepKind
  <1>23. ASSUME NEW c \in Channels, BrokerHandles(c) PROVE StepKind
    <2>1. Handles
      BY <1>23, BrokerHandlesFirst DEF BrokerHandles, history, channels, worker, Handles, TypeOK
    <2>2. QED
      BY <2>1 DEF StepKind
  <1>24. ASSUME NEW c \in Channels, ChannelDies(c) PROVE StepKind
    <2>1. Dies
      BY <1>24, DeathLoses DEF ChannelDies, history, channels, worker, Dies, TypeOK
    <2>2. QED
      BY <2>1 DEF StepKind
  <1>25. CASE UNCHANGED vars
    BY <1>25, HeldSteps DEF vars, history, channels, worker, StepKind, Quiet, Onward
  <1>26. QED
    BY <1>1, <1>2, <1>3, <1>4, <1>5, <1>6, <1>7, <1>8, <1>9, <1>10, <1>11, <1>12, <1>13,
       <1>14, <1>15, <1>16, <1>17, <1>18, <1>19, <1>20, <1>21, <1>22, <1>23, <1>24, <1>25 DEF Next, Process, ProcessBatch

LEMMA WireTypes ==
  ASSUME TypeOK, StepKind PROVE WireTyped' /\ QueueTyped'
  <1> USE DEF TypeOK, WireTyped, QueueTyped
  <1>1. CASE Quiet
    BY <1>1 DEF Quiet, Onward
  <1>2. CASE Settling
    BY <1>2 DEF Settling, Onward, Settles, AddsFrame
  <1>3. CASE Delivers
    <2>1. PICK m \in Messages : /\ msg' = [msg EXCEPT ![m].place = IF cfg.autoAck THEN "acked" ELSE "out"]
                                /\ settled' = [settled EXCEPT ![m] = FALSE]
      BY <1>3 DEF Delivers
    <2>2. msg' \in [Messages -> MessageRecords]
      BY <2>1, Recorded DEF Places
    <2>3. QED
      BY <1>3, <2>1, <2>2 DEF Delivers
  <1>4. CASE Republishes
    BY <1>4 DEF Republishes, Copies, AddsFrame
  <1>5. CASE Reopens
    BY <1>5 DEF Reopens
  <1>6. CASE Handles
    BY <1>6 DEF Handles, HandlesFirst
  <1>7. CASE Dies
    BY <1>7 DEF Dies, Loses
  <1>8. QED
    BY <1>1, <1>2, <1>3, <1>4, <1>5, <1>6, <1>7 DEF StepKind

LEMMA DoneTyped ==
  ASSUME Done PROVE WorkerTyped'
  <1>1. pc' \in PCs /\ header' \in Nat
    BY DEF Done, PCs
  <1>2. panicked' \in BOOLEAN
    BY DEF Done
  <1>3. batch' \in Seq(Messages) /\ results' \in Seq(Outcomes)
    BY DEF Done
  <1>4. QED
    BY <1>1, <1>2, <1>3 DEF WorkerTyped

LEMMA GoToTyped ==
  ASSUME WorkerTyped, NEW next \in PCs, GoTo(next) PROVE WorkerTyped'
  BY DEF WorkerTyped, GoTo

\* The worker's fields keep their types.
LEMMA WorkerTypes ==
  ASSUME QueueTyped, WorkerTyped, AtWork, [Next]_vars
  PROVE  WorkerTyped'
  <1> USE DEF WorkerTyped, PCs, Outcomes
  <1>1. CASE Decode
    <2>1. CASE GoTo("handling")
      BY <2>1, GoToTyped
    <2>2. CASE pc' = "failed" /\ results' = <<"error">> /\ UNCHANGED <<batch, header, panicked>>
      BY <2>2
    <2>3. QED
      BY <1>1, <2>1, <2>2 DEF Decode
  <1>2. ASSUME NEW r \in Outcomes, HandlerReturns(r) PROVE WorkerTyped'
    <2>1. results' = <<r>> /\ pc' \in PCs /\ UNCHANGED <<batch, header, panicked>>
      BY <1>2 DEF HandlerReturns
    <2>2. QED
      BY <2>1
  <1>3. CASE Succeed
    BY <1>3, DoneTyped DEF Succeed
  <1>4. CASE SkipSettled
    BY <1>4, DoneTyped DEF SkipSettled
  <1>5. CASE HonourReject
    BY <1>5, DoneTyped DEF HonourReject
  <1>6. CASE NackByDefault
    BY <1>6, DoneTyped DEF NackByDefault
  <1>7. CASE RetriesExhausted
    BY <1>7, DoneTyped DEF RetriesExhausted
  <1>8. CASE StartRetry
    BY <1>8, GoToTyped DEF StartRetry
  <1>9. CASE BackoffOver
    BY <1>9, GoToTyped DEF BackoffOver
  <1>10. CASE RetryOnQuorum
    BY <1>10, DoneTyped DEF RetryOnQuorum
  <1>11. CASE Republish
    BY <1>11, GoToTyped DEF Republish
  <1>12. CASE RepublishFails
    BY <1>12, DoneTyped DEF RepublishFails
  <1>13. CASE AckOriginal
    BY <1>13, DoneTyped DEF AckOriginal
  <1>14. CASE BatchDecode
    <2>1. batch # <<>>
      BY <1>14 DEF BatchDecode, AtWork
    <2>2. SubSeq(batch, 1, Len(batch) - 1) \in Seq(Messages)
      BY <2>1
    <2>3. QED
      BY <1>14, <2>2 DEF BatchDecode
  <1>15. CASE BatchStarts
    BY <1>15, GoToTyped DEF BatchStarts
  <1>16. CASE BatchReturns
    <2>0. PICK n \in 0 .. Len(batch) + 1 : \E errors \in [1 .. n -> {"ok", "error"}] : results' = Fitted(errors)
      BY <1>16 DEF BatchReturns
    <2>1. PICK errors \in [1 .. n -> {"ok", "error"}] : results' = Fitted(errors)
      BY <2>0
    <2>2. Len(errors) = n
      <3>1. n \in Nat
        BY <2>0
      <3>2. QED
        BY <2>1, <3>1
    <2>3. Fitted(errors) \in [1 .. Len(batch) -> Outcomes]
      BY <2>1, <2>2 DEF Fitted
    <2>4. Fitted(errors) \in Seq(Outcomes)
      <3>1. Len(batch) \in Nat
        OBVIOUS
      <3>2. QED
        BY <2>3, <3>1
    <2>5. QED
      BY <1>16, <2>1, <2>4 DEF BatchReturns
  <1>17. CASE BatchPanics
    <2>1. [i \in 1 .. Len(batch) |-> "error"] \in Seq(Outcomes)
      OBVIOUS
    <2>2. QED
      BY <1>17, <2>1 DEF BatchPanics
  <1>18. CASE BatchSettles
    <2>1. batch # <<>> /\ results # <<>>
      BY <1>18 DEF BatchSettles, AtWork
    <2>2. Tail(batch) \in Seq(Messages) /\ Tail(results) \in Seq(Outcomes)
      BY <2>1
    <2>3. batch' = Tail(batch) /\ results' = Tail(results) /\ UNCHANGED <<pc, header, panicked>>
      BY <1>18 DEF BatchSettles
    <2>4. QED
      BY <2>2, <2>3
  <1>19. CASE BatchDone
    BY <1>19, DoneTyped DEF BatchDone
  <1>20. CASE Resubscribe
    BY <1>20 DEF Resubscribe, history, channels, worker
  <1>21. ASSUME NEW op \in Settlements, SettleManually(op) PROVE WorkerTyped'
    BY <1>21 DEF SettleManually, history, channels, worker
  <1>22. ASSUME NEW m \in Messages, Deliver(m) PROVE WorkerTyped'
    <2>1. msg[m] \in MessageRecords
      BY DEF QueueTyped
    <2>2. DeliveryCount(m) \in Nat
      BY <2>1 DEF DeliveryCount, MessageRecords
    <2>3. QED
      BY <1>22, <2>2 DEF Deliver
  <1>23. ASSUME NEW c \in Channels, BrokerHandles(c) PROVE WorkerTyped'
    BY <1>23 DEF BrokerHandles, history, channels, worker
  <1>24. ASSUME NEW c \in Channels, ChannelDies(c) PROVE WorkerTyped'
    BY <1>24 DEF ChannelDies, history, channels, worker
  <1>25. CASE UNCHANGED vars
    BY <1>25 DEF vars, history, channels, worker
  <1>26. QED
    BY <1>1, <1>2, <1>3, <1>4, <1>5, <1>6, <1>7, <1>8, <1>9, <1>10, <1>11, <1>12, <1>13,
       <1>14, <1>15, <1>16, <1>17, <1>18, <1>19, <1>20, <1>21, <1>22, <1>23, <1>24, <1>25 DEF Next, Process, ProcessBatch

\* Channels and histories keep their types.
LEMMA RestTypes ==
  ASSUME QueueTyped, WorkerTyped, RestTyped, AtWork, [Next]_vars
  PROVE  RestTyped'
  <1> USE DEF RestTyped
  <1>1. CASE Decode
    BY <1>1 DEF Decode, GoTo, history, channels, worker
  <1>2. ASSUME NEW r \in Outcomes, HandlerReturns(r) PROVE RestTyped'
    <2>1. Head(batch) \in Messages
      BY <1>2 DEF HandlerReturns, AtWork, WorkerTyped
    <2>2. msg[Head(batch)].origin \in Originals
      BY <2>1 DEF QueueTyped, MessageRecords
    <2>3. QED
      BY <1>2, <2>2 DEF HandlerReturns, history, channels
  <1>3. CASE Succeed
    BY <1>3 DEF Succeed, Done, history, channels, worker
  <1>4. CASE SkipSettled
    BY <1>4 DEF SkipSettled, Done, history, channels, worker
  <1>5. CASE HonourReject
    BY <1>5 DEF HonourReject, Failed, Done, Requeue, history, channels, worker
  <1>6. CASE NackByDefault
    BY <1>6 DEF NackByDefault, Failed, Done, Requeue, history, channels, worker
  <1>7. CASE RetriesExhausted
    BY <1>7 DEF RetriesExhausted, Failed, Done, history, channels, worker
  <1>8. CASE StartRetry
    BY <1>8 DEF StartRetry, Failed, GoTo, history, channels, worker
  <1>9. CASE BackoffOver
    BY <1>9 DEF BackoffOver, GoTo, history, channels, worker
  <1>10. CASE RetryOnQuorum
    BY <1>10 DEF RetryOnQuorum, Done, history, channels, worker
  <1>11. CASE Republish
    BY <1>11 DEF Republish, GoTo, history, channels, worker
  <1>12. CASE RepublishFails
    BY <1>12 DEF RepublishFails, Done, history, channels, worker
  <1>13. CASE AckOriginal
    BY <1>13 DEF AckOriginal, Done, history, channels, worker
  <1>14. CASE BatchDecode
    BY <1>14 DEF BatchDecode, Requeue, history, channels, worker
  <1>15. CASE BatchStarts
    BY <1>15 DEF BatchStarts, GoTo, history, channels, worker
  <1>16. CASE BatchReturns
    <2>1. \A i \in 1 .. Len(batch) : msg[batch[i]].origin \in Originals
      BY DEF QueueTyped, MessageRecords, WorkerTyped
    <2>2. QED
      BY <1>16, <2>1 DEF BatchReturns, channels
  <1>17. CASE BatchPanics
    BY <1>17 DEF BatchPanics, history, channels, worker
  <1>18. CASE BatchSettles
    BY <1>18 DEF BatchSettles, Requeue, history, channels, worker
  <1>19. CASE BatchDone
    BY <1>19 DEF BatchDone, Done, history, channels, worker
  <1>20. CASE Resubscribe
    BY <1>20 DEF Resubscribe, history, channels, worker
  <1>21. ASSUME NEW op \in Settlements, SettleManually(op) PROVE RestTyped'
    <2>1. PICK i \in 1 .. Len(batch) : handled' = IF op = "ack" THEN handled \cup {msg[batch[i]].origin} ELSE handled
      BY <1>21 DEF SettleManually
    <2>2. msg[batch[i]].origin \in Originals
      BY DEF QueueTyped, MessageRecords, WorkerTyped
    <2>3. QED
      BY <1>21, <2>1, <2>2 DEF SettleManually, channels
  <1>22. ASSUME NEW m \in Messages, Deliver(m) PROVE RestTyped'
    <2>1. msg[m].origin \in Originals
      BY DEF QueueTyped, MessageRecords
    <2>2. attempts[msg[m].origin] + 1 \in 0 .. MaxAttempts
      BY <1>22, <2>1, SettlementAssumption DEF Deliver
    <2>3. QED
      BY <1>22, <2>1, <2>2 DEF Deliver, channels
  <1>23. ASSUME NEW c \in Channels, BrokerHandles(c) PROVE RestTyped'
    BY <1>23 DEF BrokerHandles, history, channels, worker
  <1>24. ASSUME NEW c \in Channels, ChannelDies(c) PROVE RestTyped'
    <2>0. deaths < MaxDeaths /\ deaths \in 0 .. MaxDeaths
      BY <1>24 DEF ChannelDies
    <2>1. deaths + 1 \in 0 .. MaxDeaths
      BY <2>0, SettlementAssumption
    <2>2. QED
      BY <1>24, <2>1 DEF ChannelDies
  <1>25. CASE UNCHANGED vars
    BY <1>25 DEF vars, history, channels, worker
  <1>26. QED
    BY <1>1, <1>2, <1>3, <1>4, <1>5, <1>6, <1>7, <1>8, <1>9, <1>10, <1>11, <1>12, <1>13,
       <1>14, <1>15, <1>16, <1>17, <1>18, <1>19, <1>20, <1>21, <1>22, <1>23, <1>24, <1>25 DEF Next, Process, ProcessBatch

\* The worker goes on only with a delivery in hand.
LEMMA WorkerAtWork ==
  ASSUME QueueTyped, WorkerTyped, AtWork, [Next]_vars
  PROVE  AtWork'
  <1> USE DEF WorkerTyped, AtWork
  <1>1. CASE Decode
    BY <1>1 DEF Decode, GoTo, history, channels, worker
  <1>2. ASSUME NEW r \in Outcomes, HandlerReturns(r) PROVE AtWork'
    BY <1>2 DEF HandlerReturns, history, channels, worker
  <1>3. CASE Succeed
    BY <1>3 DEF Succeed, Done, history, channels, worker
  <1>4. CASE SkipSettled
    BY <1>4 DEF SkipSettled, Done, history, channels, worker
  <1>5. CASE HonourReject
    BY <1>5 DEF HonourReject, Failed, Done, Requeue, history, channels, worker
  <1>6. CASE NackByDefault
    BY <1>6 DEF NackByDefault, Failed, Done, Requeue, history, channels, worker
  <1>7. CASE RetriesExhausted
    BY <1>7 DEF RetriesExhausted, Failed, Done, history, channels, worker
  <1>8. CASE StartRetry
    BY <1>8 DEF StartRetry, Failed, GoTo, history, channels, worker
  <1>9. CASE BackoffOver
    BY <1>9 DEF BackoffOver, GoTo, history, channels, worker
  <1>10. CASE RetryOnQuorum
    BY <1>10 DEF RetryOnQuorum, Done, history, channels, worker
  <1>11. CASE Republish
    BY <1>11 DEF Republish, GoTo, history, channels, worker
  <1>12. CASE RepublishFails
    BY <1>12 DEF RepublishFails, Done, history, channels, worker
  <1>13. CASE AckOriginal
    BY <1>13 DEF AckOriginal, Done, history, channels, worker
  <1>14. CASE BatchDecode
    BY <1>14 DEF BatchDecode, Requeue, history, channels, worker
  <1>15. CASE BatchStarts
    BY <1>15 DEF BatchStarts, GoTo, history, channels, worker
  <1>16. CASE BatchReturns
    <2>1. Len(results') = Len(batch)
      <3>1. PICK errors : results' = Fitted(errors)
        BY <1>16 DEF BatchReturns
      <3>2. Len(batch) \in Nat
        OBVIOUS
      <3>3. QED
        BY <3>1, <3>2 DEF Fitted
    <2>2. cfg.batch /\ pc' = "settling" /\ UNCHANGED <<cfg, batch>>
      BY <1>16 DEF BatchReturns
    <2>3. QED
      BY <2>1, <2>2
  <1>17. CASE BatchPanics
    BY <1>17 DEF BatchPanics, history, channels, worker
  <1>18. CASE BatchSettles
    BY <1>18 DEF BatchSettles, Requeue, history, channels, worker
  <1>19. CASE BatchDone
    BY <1>19 DEF BatchDone, Done, history, channels, worker
  <1>20. CASE Resubscribe
    BY <1>20 DEF Resubscribe, history, channels, worker
  <1>21. ASSUME NEW op \in Settlements, SettleManually(op) PROVE AtWork'
    BY <1>21 DEF SettleManually, history, channels, worker
  <1>22. ASSUME NEW m \in Messages, Deliver(m) PROVE AtWork'
    BY <1>22 DEF Deliver, history, channels, worker
  <1>23. ASSUME NEW c \in Channels, BrokerHandles(c) PROVE AtWork'
    BY <1>23 DEF BrokerHandles, history, channels, worker
  <1>24. ASSUME NEW c \in Channels, ChannelDies(c) PROVE AtWork'
    BY <1>24 DEF ChannelDies, history, channels, worker
  <1>25. CASE UNCHANGED vars
    BY <1>25 DEF vars, history, channels, worker
  <1>26. QED
    BY <1>1, <1>2, <1>3, <1>4, <1>5, <1>6, <1>7, <1>8, <1>9, <1>10, <1>11, <1>12, <1>13,
       <1>14, <1>15, <1>16, <1>17, <1>18, <1>19, <1>20, <1>21, <1>22, <1>23, <1>24, <1>25 DEF Next, Process, ProcessBatch

LEMMA BatchFacts ==
  ASSUME WorkerTyped, AtWork
  PROVE  (pc = "succeeded" => Head(batch) \in Messages) /\ \A i \in 1 .. Len(batch) : batch[i] \in Messages
  <1>1. batch \in Seq(Messages) /\ (pc = "succeeded" => batch # <<>>)
    BY DEF WorkerTyped, AtWork
  <1>2. QED
    BY <1>1

\* Nothing is recorded as ok that the handler did not answer for.
LEMMA OkIsHandled ==
  ASSUME TypeOK, AtWork, OkHandled, [Next]_vars
  PROVE  OkHandled'
  <1> USE DEF QueueTyped, WorkerTyped, AtWork, OkHandled
  <1>1. CASE Decode
    BY <1>1 DEF Decode, GoTo, history, channels, worker
  <1>2. ASSUME NEW r \in Outcomes, HandlerReturns(r) PROVE OkHandled'
    BY <1>2 DEF HandlerReturns, history, channels, worker
  <1>3. CASE Succeed
    BY <1>3 DEF Succeed, Done, history, channels, worker
  <1>4. CASE SkipSettled
    BY <1>4 DEF SkipSettled, Done, history, channels, worker
  <1>5. CASE HonourReject
    BY <1>5 DEF HonourReject, Failed, Done, Requeue, history, channels, worker
  <1>6. CASE NackByDefault
    BY <1>6 DEF NackByDefault, Failed, Done, Requeue, history, channels, worker
  <1>7. CASE RetriesExhausted
    BY <1>7 DEF RetriesExhausted, Failed, Done, history, channels, worker
  <1>8. CASE StartRetry
    BY <1>8 DEF StartRetry, Failed, GoTo, history, channels, worker
  <1>9. CASE BackoffOver
    BY <1>9 DEF BackoffOver, GoTo, history, channels, worker
  <1>10. CASE RetryOnQuorum
    BY <1>10 DEF RetryOnQuorum, Done, history, channels, worker
  <1>11. CASE Republish
    BY <1>11 DEF Republish, GoTo, history, channels, worker
  <1>12. CASE RepublishFails
    BY <1>12 DEF RepublishFails, Done, history, channels, worker
  <1>13. CASE AckOriginal
    BY <1>13 DEF AckOriginal, Done, history, channels, worker
  <1>14. CASE BatchDecode
    BY <1>14 DEF BatchDecode, Requeue, history, channels, worker
  <1>15. CASE BatchStarts
    BY <1>15 DEF BatchStarts, GoTo, history, channels, worker
  <1>16. CASE BatchReturns
    <2>1. pc' = "settling" /\ UNCHANGED <<msg, batch>>
      BY <1>16 DEF BatchReturns
    <2>2. \A i \in 1 .. Len(batch) : results'[i] = "ok" => msg[batch[i]].origin \in handled'
      BY <1>16 DEF BatchReturns
    <2>3. QED
      BY <2>1, <2>2
  <1>17. CASE BatchPanics
    BY <1>17 DEF BatchPanics, history, channels, worker
  <1>18. CASE BatchSettles
    <2>1. /\ batch' = Tail(batch) /\ results' = Tail(results) /\ batch # <<>> /\ results # <<>>
         /\ pc = "settling" /\ UNCHANGED <<msg, pc, handled>>
      BY <1>18 DEF BatchSettles, Requeue, history, channels, worker
    <2>2. ASSUME NEW i \in 1 .. Len(batch'), results'[i] = "ok" PROVE msg'[batch'[i]].origin \in handled'
      <3>1. i + 1 \in 1 .. Len(batch) /\ batch'[i] = batch[i + 1] /\ results'[i] = results[i + 1]
        BY <2>1
      <3>2. QED
        BY <2>1, <2>2, <3>1
    <2>3. QED
      BY <2>1, <2>2
  <1>19. CASE BatchDone
    BY <1>19 DEF BatchDone, Done, history, channels, worker
  <1>20. CASE Resubscribe
    BY <1>20 DEF Resubscribe, history, channels, worker
  <1>21. ASSUME NEW op \in Settlements, SettleManually(op) PROVE OkHandled'
    BY <1>21 DEF SettleManually, history, channels, worker
  <1>22. ASSUME NEW m \in Messages, Deliver(m) PROVE OkHandled'
    BY <1>22 DEF Deliver, history, channels, worker
  <1>23. ASSUME NEW c \in Channels, BrokerHandles(c) PROVE OkHandled'
    <2>1. \A n \in Messages : msg'[n].origin = msg[n].origin
      BY <1>23, BrokerHandlesFirst DEF HandlesFirst, TypeOK
    <2>2. UNCHANGED <<pc, batch, results, handled>>
      BY <1>23 DEF BrokerHandles, history, channels, worker
    <2> HIDE DEF AtWork, QueueTyped, WorkerTyped
    <2>3. QED
      BY <2>1, <2>2, BatchFacts DEF TypeOK
  <1>24. ASSUME NEW c \in Channels, ChannelDies(c) PROVE OkHandled'
    <2>1. \A n \in Messages : msg'[n].origin = msg[n].origin
      BY <1>24, DeathLoses DEF Loses, TypeOK
    <2>2. UNCHANGED <<pc, batch, results, handled>>
      BY <1>24 DEF ChannelDies, history, channels, worker
    <2> HIDE DEF AtWork, QueueTyped, WorkerTyped
    <2>3. QED
      BY <2>1, <2>2, BatchFacts DEF TypeOK
  <1>25. CASE UNCHANGED vars
    BY <1>25 DEF vars, history, channels, worker
  <1>26. QED
    BY <1>1, <1>2, <1>3, <1>4, <1>5, <1>6, <1>7, <1>8, <1>9, <1>10, <1>11, <1>12, <1>13,
       <1>14, <1>15, <1>16, <1>17, <1>18, <1>19, <1>20, <1>21, <1>22, <1>23, <1>24, <1>25 DEF Next, Process, ProcessBatch

-----------------------------------------------------------------------------
(* Settling once.                                                            *)

\* A frame on its way is about a message that waits for it, and about one only.
FramesTrue ==
  \A c \in Channels : \A i \in 1 .. Len(wire[c]) :
    LET f == wire[c][i] IN
      IF f.op = "publish" THEN c = PublishChannel /\ msg[f.m].place = "sent"
                          ELSE c = "deliveries" /\ settled[f.m] /\ msg[f.m].place = "out"

FramesDistinct ==
  \A c, d \in Channels : \A i \in 1 .. Len(wire[c]), j \in 1 .. Len(wire[d]) :
    wire[c][i].m = wire[d][j].m => c = d /\ i = j

\* While its channel is open, the broker waits for what the worker has not settled.
HeldIsOut ==
  ~cfg.autoAck /\ open["deliveries"] => \A m \in Held : settled[m] \/ msg[m].place = "out"

OnceInv == FramesTrue /\ FramesDistinct /\ HeldIsOut

LEMMA FrameFacts ==
  ASSUME WireTyped, NEW c \in Channels, NEW i \in 1 .. Len(wire[c])
  PROVE  wire[c][i] \in Frames /\ wire[c][i].m \in Messages /\ Len(wire[c]) \in Nat
         /\ wire[c][i].op \in {"ack", "drop", "requeue", "publish"}
  <1>1. wire[c] \in Seq(Frames)
    BY DEF WireTyped
  <1>2. wire[c][i] \in Frames
    BY <1>1
  <1>3. QED
    BY <1>1, <1>2 DEF Frames, Settlements

LEMMA LenNat ==
  ASSUME WireTyped, NEW c \in Channels PROVE Len(wire[c]) \in Nat
  <1>1. wire[c] \in Seq(Frames)
    BY DEF WireTyped
  <1>2. QED
    BY <1>1

\* A frame whose message no frame is about may be added.
LEMMA AddKeepsDistinct ==
  ASSUME WireTyped, FramesDistinct, NEW c \in Channels, NEW f \in Frames, AddsFrame(c, f),
         \A d \in Channels : \A i \in 1 .. Len(wire[d]) : wire[d][i].m # f.m
  PROVE  FramesDistinct'
  <1>1. ASSUME NEW d \in Channels, NEW i \in 1 .. Len(wire'[d])
        PROVE  \/ i \in 1 .. Len(wire[d]) /\ wire'[d][i] = wire[d][i]
               \/ d = c /\ i = Len(wire[c]) + 1 /\ wire'[d][i] = f
    BY <1>1, LenNat DEF AddsFrame
  <1>2. SUFFICES ASSUME NEW d \in Channels, NEW e \in Channels, NEW i \in 1 .. Len(wire'[d]),
                        NEW j \in 1 .. Len(wire'[e]), wire'[d][i].m = wire'[e][j].m
                 PROVE  d = e /\ i = j
    BY DEF FramesDistinct
  <1>3. CASE i \in 1 .. Len(wire[d]) /\ wire'[d][i] = wire[d][i] /\ j \in 1 .. Len(wire[e]) /\ wire'[e][j] = wire[e][j]
    BY <1>2, <1>3 DEF FramesDistinct
  <1>4. CASE wire'[d][i] = f
    <2>1. ~(j \in 1 .. Len(wire[e]) /\ wire'[e][j] = wire[e][j])
      BY <1>2, <1>4
    <2>2. e = c /\ j = Len(wire[c]) + 1
      BY <1>1, <2>1
    <2>3. ~(i \in 1 .. Len(wire[d]) /\ wire'[d][i] = wire[d][i])
      BY <1>4
    <2>4. d = c /\ i = Len(wire[c]) + 1
      BY <1>1, <2>3
    <2>5. QED
      BY <2>2, <2>4
  <1>5. CASE wire'[e][j] = f
    <2>1. ~(i \in 1 .. Len(wire[d]) /\ wire'[d][i] = wire[d][i])
      BY <1>2, <1>5
    <2>2. d = c /\ i = Len(wire[c]) + 1
      BY <1>1, <2>1
    <2>3. ~(j \in 1 .. Len(wire[e]) /\ wire'[e][j] = wire[e][j])
      BY <1>5
    <2>4. e = c /\ j = Len(wire[c]) + 1
      BY <1>1, <2>3
    <2>5. QED
      BY <2>2, <2>4
  <1>6. QED
    BY <1>1, <1>3, <1>4, <1>5

LEMMA OnceKept ==
  ASSUME TypeOK, OnceInv, StepKind PROVE OnceInv'
  <1> USE DEF TypeOK
  <1>1. CASE Quiet
    BY <1>1 DEF Quiet, Onward, OnceInv, FramesTrue, FramesDistinct, HeldIsOut, PublishChannel
  <1>2. CASE Settling
    <2>1. PICK m \in Held, op \in Settlements : Settles(m, op)
      BY <1>2 DEF Settling
    <2>2. UNCHANGED <<cfg, msg, open>> /\ Held' \subseteq Held /\ ~cfg.autoAck /\ m \in Messages
      BY <1>2, HeldSteps DEF Settling, Onward
    <2>3. \A n \in Messages : settled[n] => settled'[n]
      BY <2>1, <2>2 DEF Settles
    <2>4. HeldIsOut'
      BY <2>2, <2>3, HeldSteps DEF OnceInv, HeldIsOut
    <2>5. CASE UNCHANGED wire
      BY <2>2, <2>3, <2>4, <2>5, FrameFacts DEF OnceInv, FramesTrue, FramesDistinct, PublishChannel
    <2>6. CASE ~settled[m] /\ open["deliveries"] /\ AddsFrame("deliveries", [op |-> op, m |-> m])
      <3> DEFINE f == [op |-> op, m |-> m]
      <3>1. f \in Frames /\ f.m = m /\ f.op # "publish" /\ "deliveries" \in Channels /\ settled'[m]
        BY <2>1, <2>2 DEF Frames, Settlements, Channels, Settles
      <3>2. msg[m].place = "out"
        BY <2>1, <2>2, <2>6 DEF OnceInv, HeldIsOut
      <3>3. \A d \in Channels : \A i \in 1 .. Len(wire[d]) : wire[d][i].m # m
        BY <2>6, <3>2 DEF OnceInv, FramesTrue
      <3> HIDE DEF f
      <3>4. FramesDistinct'
        BY <2>6, <3>1, <3>3, AddKeepsDistinct DEF OnceInv, f
      <3>5. ASSUME NEW c \in Channels, NEW i \in 1 .. Len(wire'[c])
            PROVE  \/ i \in 1 .. Len(wire[c]) /\ wire'[c][i] = wire[c][i]
                   \/ c = "deliveries" /\ wire'[c][i] = f
        BY <2>6, <3>1, <3>5, LenNat DEF AddsFrame, f
      <3>6. FramesTrue'
        BY <2>2, <2>3, <3>1, <3>2, <3>5, FrameFacts DEF OnceInv, FramesTrue, PublishChannel
      <3>7. QED
        BY <2>4, <3>4, <3>6 DEF OnceInv
    <2>7. QED
      BY <2>1, <2>5, <2>6 DEF Settles
  <1>3. CASE Delivers
    <2>1. PICK m \in Messages :
            /\ msg[m].place = "ready" /\ Held' = Held \cup {m}
            /\ msg' = [msg EXCEPT ![m].place = IF cfg.autoAck THEN "acked" ELSE "out"]
            /\ settled' = [settled EXCEPT ![m] = FALSE]
      BY <1>3 DEF Delivers
    <2>2. UNCHANGED <<cfg, wire, open>>
      BY <1>3 DEF Delivers
    <2>3. \A n \in Messages : n # m => msg'[n] = msg[n] /\ settled'[n] = settled[n]
      BY <2>1 DEF QueueTyped
    <2>4. \A c \in Channels : \A i \in 1 .. Len(wire[c]) : wire[c][i].m # m
      BY <2>1 DEF OnceInv, FramesTrue
    <2>5. FramesTrue' /\ FramesDistinct'
      BY <2>2, <2>3, <2>4, FrameFacts DEF OnceInv, FramesTrue, FramesDistinct, PublishChannel
    <2>6. ~cfg.autoAck => msg'[m].place = "out"
      BY <2>1 DEF QueueTyped, MessageRecords
    <2>7. HeldIsOut'
      BY <2>1, <2>2, <2>3, <2>6, HeldSteps DEF OnceInv, HeldIsOut
    <2>8. QED
      BY <2>5, <2>7 DEF OnceInv
  <1>4. CASE Republishes
    <2> DEFINE m == Head(batch)
    <2>1. PICK c \in Messages : Copies(m, c) /\ AddsFrame(PublishChannel, [op |-> "publish", m |-> c])
      BY <1>4 DEF Republishes
    <2>2. UNCHANGED <<cfg, settled, open, batch>> /\ PublishChannel \in Channels
      BY <1>4 DEF Republishes, PublishChannel, Channels
    <2> DEFINE f == [op |-> "publish", m |-> c]
    <2>3. f \in Frames /\ f.m = c /\ f.op = "publish"
      BY DEF Frames
    <2> HIDE DEF f
    <2>4. \A d \in Channels : \A i \in 1 .. Len(wire[d]) : wire[d][i].m # c
      BY <2>1 DEF OnceInv, FramesTrue, Copies
    <2>5. FramesDistinct'
      BY <2>1, <2>2, <2>3, <2>4, AddKeepsDistinct DEF OnceInv, f
    <2>6. ASSUME NEW d \in Channels, NEW i \in 1 .. Len(wire'[d])
          PROVE  \/ i \in 1 .. Len(wire[d]) /\ wire'[d][i] = wire[d][i]
                 \/ d = PublishChannel /\ wire'[d][i] = f
      BY <2>1, <2>2, <2>6, LenNat DEF AddsFrame, f
    <2>7. FramesTrue'
      BY <2>1, <2>2, <2>3, <2>4, <2>6, FrameFacts DEF OnceInv, FramesTrue, PublishChannel, Copies
    <2>8. Held' = Held
      BY <2>2 DEF Held
    <2>9. HeldIsOut'
      BY <2>1, <2>2, <2>8, HeldSteps DEF OnceInv, HeldIsOut, Copies
    <2>10. QED
      BY <2>5, <2>7, <2>9 DEF OnceInv
  <1>5. CASE Reopens
    <2>1. UNCHANGED <<cfg, msg, settled, wire, batch>> /\ Held = {}
      BY <1>5 DEF Reopens
    <2>2. FramesTrue' /\ FramesDistinct'
      BY <2>1 DEF OnceInv, FramesTrue, FramesDistinct, PublishChannel
    <2>3. Held' = {}
      BY <2>1 DEF Held
    <2>4. QED
      BY <2>2, <2>3 DEF OnceInv, HeldIsOut
  <1>6. CASE Handles
    <2>1. PICK c \in Channels : HandlesFirst(c)
      BY <1>6 DEF Handles
    <2>2. UNCHANGED <<cfg, settled, open, batch>>
      BY <1>6 DEF Handles
    <2> DEFINE n == wire[c][1].m
    <2>3. 1 \in 1 .. Len(wire[c]) /\ Len(wire[c]) \in Nat
      BY <2>1, LenNat DEF HandlesFirst
    <2>4. n \in Messages
      BY <2>3, FrameFacts
    <2>5. ASSUME NEW d \in Channels, NEW i \in 1 .. Len(wire'[d])
          PROVE  LET j == IF d = c THEN i + 1 ELSE i IN j \in 1 .. Len(wire[d]) /\ wire'[d][i] = wire[d][j]
      BY <2>1, <2>3, <2>5, LenNat DEF HandlesFirst
    <2>6. ASSUME NEW d \in Channels, NEW i \in 1 .. Len(wire'[d])
          PROVE  wire'[d][i].m # n /\ wire'[d][i].m \in Messages
      <3> DEFINE j == IF d = c THEN i + 1 ELSE i
      <3>1. j \in 1 .. Len(wire[d]) /\ wire'[d][i] = wire[d][j] /\ ~(d = c /\ j = 1)
        BY <2>5
      <3>2. QED
        BY <2>3, <3>1, FrameFacts DEF OnceInv, FramesDistinct
    <2>7. \A k \in Messages : k # n => msg'[k].place = msg[k].place
      BY <2>1 DEF HandlesFirst
    <2>8. FramesTrue'
      <3>1. SUFFICES ASSUME NEW d \in Channels, NEW i \in 1 .. Len(wire'[d])
                     PROVE  LET f == wire'[d][i] IN
                              IF f.op = "publish" THEN d = PublishChannel' /\ msg'[f.m].place = "sent"
                              ELSE d = "deliveries" /\ settled'[f.m] /\ msg'[f.m].place = "out"
        BY DEF FramesTrue
      <3> DEFINE j == IF d = c THEN i + 1 ELSE i
      <3>2. j \in 1 .. Len(wire[d]) /\ wire'[d][i] = wire[d][j]
        BY <2>5
      <3> HIDE DEF j
      <3>3. msg'[wire[d][j].m].place = msg[wire[d][j].m].place
        BY <2>6, <2>7, <3>2
      <3>4. QED
        BY <2>2, <3>2, <3>3 DEF OnceInv, FramesTrue, PublishChannel
    <2>9. FramesDistinct'
      <3>1. SUFFICES ASSUME NEW d \in Channels, NEW e \in Channels, NEW i \in 1 .. Len(wire'[d]),
                            NEW k \in 1 .. Len(wire'[e]), wire'[d][i].m = wire'[e][k].m
                     PROVE  d = e /\ i = k
        BY DEF FramesDistinct
      <3> DEFINE di == IF d = c THEN i + 1 ELSE i
      <3> DEFINE ek == IF e = c THEN k + 1 ELSE k
      <3>2. di \in 1 .. Len(wire[d]) /\ wire'[d][i] = wire[d][di]
        BY <2>5
      <3>3. ek \in 1 .. Len(wire[e]) /\ wire'[e][k] = wire[e][ek]
        BY <2>5
      <3> HIDE DEF di, ek
      <3>4. d = e /\ di = ek
        BY <3>1, <3>2, <3>3 DEF OnceInv, FramesDistinct
      <3>5. QED
        BY <3>4 DEF di, ek
    <2>10. Held' = Held
      BY <2>2 DEF Held
    <2>11. wire[c][1].op = "publish" => msg[n].place = "sent"
      BY <2>3 DEF OnceInv, FramesTrue
    <2>12. wire[c][1].op # "publish" => settled[n]
      BY <2>3 DEF OnceInv, FramesTrue
    <2>13. HeldIsOut'
      BY <2>2, <2>4, <2>7, <2>10, <2>11, <2>12, HeldSteps DEF OnceInv, HeldIsOut
    <2>14. QED
      BY <2>8, <2>9, <2>13 DEF OnceInv
  <1>7. CASE Dies
    <2>1. PICK c \in Channels : Loses(c) /\ (c = "publish" => cfg.own)
      BY <1>7 DEF Dies
    <2>2. UNCHANGED <<cfg, settled, batch>>
      BY <1>7 DEF Dies
    <2>3. ASSUME NEW d \in Channels, NEW i \in 1 .. Len(wire'[d])
          PROVE  d # c /\ wire'[d] = wire[d] /\ i \in 1 .. Len(wire[d])
      BY <2>1, <2>3 DEF Loses
    <2>4. FramesDistinct'
      BY <2>3 DEF OnceInv, FramesDistinct
    <2>5. FramesTrue'
      <3>1. SUFFICES ASSUME NEW d \in Channels, NEW i \in 1 .. Len(wire'[d])
                     PROVE  LET f == wire'[d][i] IN
                              IF f.op = "publish" THEN d = PublishChannel' /\ msg'[f.m].place = "sent"
                              ELSE d = "deliveries" /\ settled'[f.m] /\ msg'[f.m].place = "out"
        BY DEF FramesTrue
      <3>2. d # c /\ wire'[d][i] = wire[d][i] /\ i \in 1 .. Len(wire[d]) /\ wire[d][i].m \in Messages
        BY <2>3, FrameFacts
      <3>3. PICK f \in Frames : f = wire[d][i]
        BY <3>2, FrameFacts DEF TypeOK
      <3>4. PublishChannel' = PublishChannel /\ settled' = settled
        BY <2>2 DEF PublishChannel
      <3>5. IF f.op = "publish" THEN d = PublishChannel /\ msg[f.m].place = "sent"
            ELSE d = "deliveries" /\ settled[f.m] /\ msg[f.m].place = "out"
        BY <3>2, <3>3 DEF OnceInv, FramesTrue
      <3>6. msg'[f.m].place = IF msg[f.m].place = "out" /\ c = "deliveries" THEN "ready"
                              ELSE IF msg[f.m].place = "sent" /\ c = PublishChannel THEN "unused"
                              ELSE msg[f.m].place
        BY <2>1, <3>2, <3>3 DEF Loses
      <3>7. QED
        BY <3>2, <3>3, <3>4, <3>5, <3>6
    <2>6. Held' = Held
      BY <2>2 DEF Held
    <2>7. HeldIsOut'
      BY <2>1, <2>2, <2>6, HeldSteps DEF OnceInv, HeldIsOut, Loses, Channels
    <2>8. QED
      BY <2>4, <2>5, <2>7 DEF OnceInv
  <1>8. QED
    BY <1>1, <1>2, <1>3, <1>4, <1>5, <1>6, <1>7 DEF StepKind

\* SettledOnce says of the wire what FramesDistinct says of its frames.
LEMMA OnceSettles ==
  ASSUME WireTyped, FramesTrue, FramesDistinct PROVE SettledOnce
  <1> DEFINE w == wire["deliveries"]
  <1> DEFINE I(m) == {i \in 1 .. Len(w) : w[i].m = m /\ w[i].op # "publish"}
  <1>1. SUFFICES ASSUME NEW m \in Messages
                 PROVE  Cardinality(I(m)) <= IF msg[m].place = "out" THEN 1 ELSE 0
    BY DEF SettledOnce
  <1>2. "deliveries" \in Channels
    BY DEF Channels
  <1>3. \A i \in I(m) : msg[m].place = "out"
    BY <1>2 DEF FramesTrue
  <1>4. \A i, j \in I(m) : i = j
    BY <1>2 DEF FramesDistinct
  <1> HIDE DEF I
  <1>5. CASE I(m) = {}
    BY <1>5, FS_EmptySet
  <1>6. CASE I(m) # {}
    <2>1. PICK i : i \in I(m)
      BY <1>6
    <2>2. I(m) = {i}
      BY <1>4, <2>1
    <2>3. Cardinality(I(m)) = 1
      BY <2>2, FS_Singleton
    <2>4. QED
      BY <1>3, <2>1, <2>3
  <1>7. QED
    BY <1>5, <1>6

\* A panic leaves an error for every message of the batch.
LEMMA PanicLeavesErrors ==
  ASSUME WorkerTyped, AtWork, PanicErrs, [Next]_vars
  PROVE  PanicErrs'
  <1> USE DEF AtWork, PanicErrs
  <1>1. CASE Decode
    BY <1>1 DEF Decode, GoTo, history, channels, worker
  <1>2. ASSUME NEW r \in Outcomes, HandlerReturns(r) PROVE PanicErrs'
    BY <1>2 DEF HandlerReturns, history, channels, worker
  <1>3. CASE Succeed
    BY <1>3 DEF Succeed, Done, history, channels, worker
  <1>4. CASE SkipSettled
    BY <1>4 DEF SkipSettled, Done, history, channels, worker
  <1>5. CASE HonourReject
    BY <1>5 DEF HonourReject, Failed, Done, Requeue, history, channels, worker
  <1>6. CASE NackByDefault
    BY <1>6 DEF NackByDefault, Failed, Done, Requeue, history, channels, worker
  <1>7. CASE RetriesExhausted
    BY <1>7 DEF RetriesExhausted, Failed, Done, history, channels, worker
  <1>8. CASE StartRetry
    BY <1>8 DEF StartRetry, Failed, GoTo, history, channels, worker
  <1>9. CASE BackoffOver
    BY <1>9 DEF BackoffOver, GoTo, history, channels, worker
  <1>10. CASE RetryOnQuorum
    BY <1>10 DEF RetryOnQuorum, Done, history, channels, worker
  <1>11. CASE Republish
    BY <1>11 DEF Republish, GoTo, history, channels, worker
  <1>12. CASE RepublishFails
    BY <1>12 DEF RepublishFails, Done, history, channels, worker
  <1>13. CASE AckOriginal
    BY <1>13 DEF AckOriginal, Done, history, channels, worker
  <1>14. CASE BatchDecode
    BY <1>14 DEF BatchDecode, Requeue, history, channels, worker
  <1>15. CASE BatchStarts
    BY <1>15 DEF BatchStarts, GoTo, history, channels, worker
  <1>16. CASE BatchReturns
    BY <1>16 DEF BatchReturns, history, channels, worker
  <1>17. CASE BatchPanics
    <2>1. results' = [i \in 1 .. Len(batch) |-> "error"] /\ pc' = "settling"
      BY <1>17 DEF BatchPanics
    <2>2. Len(batch) \in Nat
      BY DEF WorkerTyped
    <2>3. Len(results') = Len(batch)
      BY <2>1, <2>2
    <2>4. QED
      BY <2>1, <2>3
  <1>18. CASE BatchSettles
    <2>1. results \in Seq(Outcomes) /\ results # <<>> /\ results' = Tail(results) /\ UNCHANGED <<pc, panicked>>
      BY <1>18 DEF BatchSettles, Requeue, history, channels, worker, WorkerTyped
    <2>2. ASSUME NEW i \in 1 .. Len(results') PROVE i + 1 \in 1 .. Len(results) /\ results'[i] = results[i + 1]
      BY <2>1
    <2>3. QED
      BY <2>1, <2>2
  <1>19. CASE BatchDone
    BY <1>19 DEF BatchDone, Done, history, channels, worker
  <1>20. CASE Resubscribe
    BY <1>20 DEF Resubscribe, history, channels, worker
  <1>21. ASSUME NEW op \in Settlements, SettleManually(op) PROVE PanicErrs'
    BY <1>21 DEF SettleManually, history, channels, worker
  <1>22. ASSUME NEW m \in Messages, Deliver(m) PROVE PanicErrs'
    BY <1>22 DEF Deliver, history, channels, worker
  <1>23. ASSUME NEW c \in Channels, BrokerHandles(c) PROVE PanicErrs'
    BY <1>23 DEF BrokerHandles, history, channels, worker
  <1>24. ASSUME NEW c \in Channels, ChannelDies(c) PROVE PanicErrs'
    BY <1>24 DEF ChannelDies, history, channels, worker
  <1>25. CASE UNCHANGED vars
    BY <1>25 DEF vars, history, channels, worker
  <1>26. QED
    BY <1>1, <1>2, <1>3, <1>4, <1>5, <1>6, <1>7, <1>8, <1>9, <1>10, <1>11, <1>12, <1>13,
       <1>14, <1>15, <1>16, <1>17, <1>18, <1>19, <1>20, <1>21, <1>22, <1>23, <1>24, <1>25 DEF Next, Process, ProcessBatch

PanicQuiet ==
  panicked /\ Len(batch') < Len(batch) /\ wire' # wire
    => LET w == wire'["deliveries"] IN w[Len(w)].op # "ack"

\* No step acknowledges a message of a batch whose handler panicked.
LEMMA PanicStep ==
  ASSUME WireTyped, WorkerTyped, QueueTyped, AtWork, PanicErrs, [Next]_vars
  PROVE  PanicQuiet
  <1> USE DEF PanicErrs, PanicQuiet
  <1>1. CASE Decode
    BY <1>1 DEF Decode, GoTo, history, channels, worker
  <1>2. ASSUME NEW r \in Outcomes, HandlerReturns(r) PROVE PanicQuiet
    BY <1>2 DEF HandlerReturns, history, channels, worker
  <1>3. CASE Succeed
    BY <1>3 DEF Succeed, Done, history, channels, worker
  <1>4. CASE SkipSettled
    BY <1>4 DEF SkipSettled, Done, history, channels, worker
  <1>5. CASE HonourReject
    BY <1>5 DEF HonourReject, Failed, Done, Requeue, history, channels, worker
  <1>6. CASE NackByDefault
    BY <1>6 DEF NackByDefault, Failed, Done, Requeue, history, channels, worker
  <1>7. CASE RetriesExhausted
    BY <1>7 DEF RetriesExhausted, Failed, Done, history, channels, worker
  <1>8. CASE StartRetry
    BY <1>8 DEF StartRetry, Failed, GoTo, history, channels, worker
  <1>9. CASE BackoffOver
    BY <1>9 DEF BackoffOver, GoTo, history, channels, worker
  <1>10. CASE RetryOnQuorum
    BY <1>10 DEF RetryOnQuorum, Done, history, channels, worker
  <1>11. CASE Republish
    BY <1>11 DEF Republish, GoTo, history, channels, worker
  <1>12. CASE RepublishFails
    BY <1>12 DEF RepublishFails, Done, history, channels, worker
  <1>13. CASE AckOriginal
    BY <1>13 DEF AckOriginal, Done, history, channels, worker
  <1>14. CASE BatchDecode
    BY <1>14 DEF BatchDecode, Requeue, history, channels, worker
  <1>15. CASE BatchStarts
    BY <1>15 DEF BatchStarts, GoTo, history, channels, worker
  <1>16. CASE BatchReturns
    BY <1>16 DEF BatchReturns, history, channels, worker
  <1>17. CASE BatchPanics
    BY <1>17 DEF BatchPanics, history, channels, worker
  <1>18. CASE BatchSettles
    <2> SUFFICES ASSUME panicked, wire' # wire PROVE wire'["deliveries"][Len(wire'["deliveries"])].op # "ack"
      BY DEF PanicQuiet
    <2>1. Len(results) = Len(batch) /\ batch # <<>>
      BY <1>18 DEF BatchSettles, AtWork
    <2>2. results \in Seq(Outcomes) /\ batch \in Seq(Messages)
      BY DEF WorkerTyped
    <2>3. 1 \in 1 .. Len(results) /\ Head(results) = results[1] /\ Head(batch) \in Messages
      BY <2>1, <2>2
    <2>4. Head(results) = "error"
      BY <2>3
    <2> DEFINE op == Requeue(cfg.rejectRequeue)
    <2>5. Settle(Head(batch), op) /\ op \in Settlements /\ op # "ack"
      BY <1>18, <2>4 DEF BatchSettles, Requeue, Settlements
    <2> HIDE DEF op
    <2>6. AddsFrame("deliveries", [op |-> op, m |-> Head(batch)])
      BY <2>3, <2>5, SettleSettles DEF Settles
    <2>7. wire'["deliveries"][Len(wire'["deliveries"])] = [op |-> op, m |-> Head(batch)]
      BY <2>6 DEF AddsFrame
    <2>8. QED
      BY <2>5, <2>7
  <1>19. CASE BatchDone
    BY <1>19 DEF BatchDone, Done, history, channels, worker
  <1>20. CASE Resubscribe
    BY <1>20 DEF Resubscribe, history, channels, worker
  <1>21. ASSUME NEW op \in Settlements, SettleManually(op) PROVE PanicQuiet
    BY <1>21 DEF SettleManually, history, channels, worker
  <1>22. ASSUME NEW m \in Messages, Deliver(m) PROVE PanicQuiet
    BY <1>22 DEF Deliver, history, channels, worker
  <1>23. ASSUME NEW c \in Channels, BrokerHandles(c) PROVE PanicQuiet
    <2>1. Len(batch') = Len(batch) /\ Len(batch) \in Nat
      BY <1>23 DEF BrokerHandles, worker, WorkerTyped
    <2>2. QED
      BY <2>1
  <1>24. ASSUME NEW c \in Channels, ChannelDies(c) PROVE PanicQuiet
    <2>1. batch' = batch
      BY <1>24 DEF ChannelDies, worker
    <2>2. Len(batch') = Len(batch) /\ Len(batch) \in Nat
      BY <2>1 DEF WorkerTyped
    <2>3. QED
      BY <2>2
  <1>25. CASE UNCHANGED vars
    BY <1>25 DEF vars, history, channels, worker
  <1>26. QED
    BY <1>1, <1>2, <1>3, <1>4, <1>5, <1>6, <1>7, <1>8, <1>9, <1>10, <1>11, <1>12, <1>13,
       <1>14, <1>15, <1>16, <1>17, <1>18, <1>19, <1>20, <1>21, <1>22, <1>23, <1>24, <1>25 DEF Next, Process, ProcessBatch

-----------------------------------------------------------------------------
(* No message is lost.                                                       *)

Manual == ~cfg.own /\ ~cfg.autoAck
W == wire["deliveries"]
AckAt(m, i) == W[i].op = "ack" /\ W[i].m = m
PublishAt(m, i) == W[i].op = "publish" /\ W[i].m = m
Twin(c, m) == c # m /\ msg[c].origin = msg[m].origin
Owes(m) == msg[m].origin \notin handled
Waiting(m) == msg[m].place \in {"ready", "out", "dropped"}
Alive(m) == Waiting(m) \/ msg[m].place = "sent"

\* An acknowledgement on its way, of a message nobody answered for, leaves a twin behind that no
\* earlier frame acknowledges.
AckBacked ==
  \A i \in 1 .. Len(W), m \in Messages :
    AckAt(m, i) /\ Owes(m) =>
      \E c \in Messages : Twin(c, m) /\ Alive(c) /\ \A j \in 1 .. i : ~AckAt(c, j)

\* A copy on its way has a twin that no earlier frame acknowledges: the copy may be lost.
SentBacked ==
  \A p \in 1 .. Len(W), c \in Messages :
    PublishAt(c, p) /\ Owes(c) =>
      \E m \in Messages : Twin(m, c) /\ Waiting(m) /\ \A j \in 1 .. p : ~AckAt(m, j)

SentOnWire == \A c \in Messages : msg[c].place = "sent" => \E p \in 1 .. Len(W) : PublishAt(c, p)

\* What the worker still owes an answer for is waiting, and unacknowledged.
HeldBacked ==
  open["deliveries"] => \A m \in Held : Owes(m) => Waiting(m) /\ \A j \in 1 .. Len(W) : ~AckAt(m, j)

\* Before the original is acknowledged, its copy is on its way or queued.
CopyBacked ==
  open["deliveries"] /\ pc = "republished" /\ Owes(Head(batch)) =>
    \E c \in Messages : Twin(c, Head(batch)) /\ msg[c].place \in {"sent", "ready"}

BackedInv == AckBacked /\ SentBacked /\ SentOnWire /\ HeldBacked /\ CopyBacked /\ NotLost
LossInv == Manual => BackedInv

LEMMA Lengths == ASSUME WireTyped PROVE Len(W) \in Nat /\ "deliveries" \in Channels /\ "publish" \in Channels
  <1>1. "deliveries" \in Channels /\ "publish" \in Channels
    BY DEF Channels
  <1>2. QED
    BY <1>1, LenNat DEF W

\* On the one wire there is, frames are about messages in these places.
LEMMA WirePlaces ==
  ASSUME WireTyped, FramesTrue, Manual, NEW i \in 1 .. Len(W)
  PROVE  /\ W[i].m \in Messages /\ W[i].op \in {"ack", "drop", "requeue", "publish"}
         /\ W[i].op = "publish" => msg[W[i].m].place = "sent"
         /\ W[i].op # "publish" => msg[W[i].m].place = "out"
         /\ Len(wire["publish"]) = 0
  <1>1. "deliveries" \in Channels /\ "publish" \in Channels /\ PublishChannel = "deliveries"
    BY DEF Channels, Manual, PublishChannel
  <1>2. \A j \in 1 .. Len(wire["publish"]) : FALSE
    BY <1>1 DEF FramesTrue
  <1>3. Len(wire["publish"]) = 0
    BY <1>1, <1>2, LenNat
  <1>4. QED
    BY <1>1, <1>3, FrameFacts DEF FramesTrue, W

\* Answers, and steps that change neither messages nor wire, keep it.
LEMMA QuietKeeps ==
  ASSUME WorkerTyped, Manual, BackedInv, Onward, UNCHANGED wire PROVE BackedInv'
  <1>1. /\ UNCHANGED <<msg, W, open, cfg>> /\ Held' \subseteq Held /\ handled \subseteq handled'
        /\ \A m : Owes(m)' => Owes(m)
        /\ pc' = "republished" => UNCHANGED <<pc, batch>>
    BY DEF Onward, W, Owes
  <1>2. AckBacked' /\ SentBacked' /\ SentOnWire'
    BY <1>1 DEF BackedInv, AckBacked, SentBacked, SentOnWire, AckAt, PublishAt, Twin, Owes,
        Waiting, Alive
  <1>3. HeldBacked'
    BY <1>1 DEF BackedInv, HeldBacked, AckAt, Owes, Waiting
  <1>4. CopyBacked'
    BY <1>1 DEF BackedInv, CopyBacked, Owes, Twin
  <1>5. NotLost'
    BY <1>1 DEF BackedInv, NotLost, Kept
  <1>6. QED
    BY <1>2, <1>3, <1>4, <1>5 DEF BackedInv

LEMMA SettlingKeeps ==
  ASSUME TypeOK, AtWork, OnceInv, Manual, BackedInv, Settling PROVE BackedInv'
  <1>1. PICK m \in Held, op \in Settlements : Settles(m, op) /\ (op = "ack" => Acknowledges(m))
    BY DEF Settling
  <1>2. Onward
    BY DEF Settling
  <1>3. CASE UNCHANGED wire
    BY <1>2, <1>3, QuietKeeps DEF TypeOK
  <1>4. CASE open["deliveries"] /\ AddsFrame("deliveries", [op |-> op, m |-> m])
    <2>1. /\ UNCHANGED <<msg, open, cfg>> /\ Held' \subseteq Held /\ handled \subseteq handled'
          /\ \A n : Owes(n)' => Owes(n)
          /\ pc' = "republished" => UNCHANGED <<pc, batch>>
      BY <1>2 DEF Onward, Owes
    <2>2. /\ Len(W') = Len(W) + 1 /\ \A i \in 1 .. Len(W) : W'[i] = W[i]
          /\ W'[Len(W) + 1].op = op /\ W'[Len(W) + 1].m = m
      BY <1>4 DEF AddsFrame, W
    <2>3. Len(W) \in Nat /\ \A i \in 1 .. Len(W') : i \in 1 .. Len(W) \/ i = Len(W) + 1
      BY <2>2, Lengths DEF TypeOK
    <2>4. op # "publish"
      BY DEF Settlements
    <2>5. AckBacked'
      <3>1. SUFFICES ASSUME NEW i \in 1 .. Len(W'), NEW n \in Messages, AckAt(n, i)', Owes(n)'
                     PROVE  \E c \in Messages : Twin(c, n) /\ Alive(c) /\ \A j \in 1 .. i : ~AckAt(c, j)'
        BY <2>1 DEF AckBacked, Twin, Alive, Waiting
      <3>2. CASE i \in 1 .. Len(W)
        <4>1. AckAt(n, i) /\ Owes(n)
          BY <2>1, <2>2, <3>1, <3>2 DEF AckAt
        <4>2. PICK c \in Messages : Twin(c, n) /\ Alive(c) /\ \A j \in 1 .. i : ~AckAt(c, j)
          BY <3>2, <4>1 DEF BackedInv, AckBacked
        <4>3. \A j \in 1 .. i : ~AckAt(c, j)'
          BY <2>2, <2>3, <3>2, <4>2 DEF AckAt
        <4>4. QED
          BY <4>2, <4>3
      <3>3. CASE i = Len(W) + 1
        <4>1. n = m /\ op = "ack" /\ Owes(m)
          BY <2>1, <2>2, <3>1, <3>3 DEF AckAt
        <4>2. pc = "republished" /\ m = Head(batch)
          BY <1>1, <3>1, <4>1, <2>1 DEF Acknowledges, Owes
        <4>3. PICK c \in Messages : Twin(c, m) /\ msg[c].place \in {"sent", "ready"}
          BY <1>4, <4>1, <4>2 DEF BackedInv, CopyBacked
        <4>4. \A j \in 1 .. Len(W) : ~AckAt(c, j)
          BY <4>3, WirePlaces DEF AckAt, OnceInv, TypeOK
        <4>5. \A j \in 1 .. i : ~AckAt(c, j)'
          BY <2>2, <2>3, <3>3, <4>3, <4>4 DEF AckAt, Twin
        <4>6. QED
          BY <4>1, <4>3, <4>5 DEF Alive, Waiting
      <3>4. QED
        BY <2>3, <3>2, <3>3
    <2>6. SentBacked'
      <3>1. SUFFICES ASSUME NEW p \in 1 .. Len(W'), NEW c \in Messages, PublishAt(c, p)', Owes(c)'
                     PROVE  \E n \in Messages : Twin(n, c) /\ Waiting(n) /\ \A j \in 1 .. p : ~AckAt(n, j)'
        BY <2>1 DEF SentBacked, Twin, Waiting
      <3>2. p \in 1 .. Len(W) /\ PublishAt(c, p) /\ Owes(c)
        BY <2>1, <2>2, <2>3, <2>4, <3>1 DEF PublishAt
      <3>3. PICK n \in Messages : Twin(n, c) /\ Waiting(n) /\ \A j \in 1 .. p : ~AckAt(n, j)
        BY <3>2 DEF BackedInv, SentBacked
      <3>4. \A j \in 1 .. p : ~AckAt(n, j)'
        BY <2>2, <2>3, <3>2, <3>3 DEF AckAt
      <3>5. QED
        BY <3>3, <3>4
    <2>7. SentOnWire'
      BY <2>1, <2>2, <2>3 DEF BackedInv, SentOnWire, PublishAt
    <2>8. HeldBacked'
      <3>1. SUFFICES ASSUME open["deliveries"], NEW n \in Held', Owes(n)'
                     PROVE  Waiting(n) /\ \A j \in 1 .. Len(W') : ~AckAt(n, j)'
        BY <2>1 DEF HeldBacked, Waiting
      <3>2. Waiting(n) /\ \A j \in 1 .. Len(W) : ~AckAt(n, j)
        BY <2>1, <3>1 DEF BackedInv, HeldBacked
      <3>3. ASSUME NEW j \in 1 .. Len(W'), j = Len(W) + 1, AckAt(n, j)' PROVE FALSE
        <4>1. n = m /\ op = "ack"
          BY <2>2, <3>3 DEF AckAt
        <4>2. msg[m].origin \in handled' \/ Held' = {}
          BY <1>1, <4>1 DEF Acknowledges
        <4>3. QED
          BY <2>1, <3>1, <4>1, <4>2 DEF Owes
      <3>4. QED
        BY <2>2, <2>3, <3>2, <3>3 DEF AckAt
    <2>9. CopyBacked'
      BY <2>1 DEF BackedInv, CopyBacked, Owes, Twin
    <2>10. NotLost'
      BY <2>1 DEF BackedInv, NotLost, Kept
    <2>11. QED
      BY <2>5, <2>6, <2>7, <2>8, <2>9, <2>10 DEF BackedInv
  <1>5. QED
    BY <1>1, <1>3, <1>4 DEF Settles

LEMMA DeliveryKeeps ==
  ASSUME TypeOK, OnceInv, Manual, BackedInv, Delivers PROVE BackedInv'
  <1>1. PICK m \in Messages :
          /\ msg[m].place = "ready" /\ Held' = Held \cup {m}
          /\ msg' = [msg EXCEPT ![m].place = IF cfg.autoAck THEN "acked" ELSE "out"]
    BY DEF Delivers
  <1>2. UNCHANGED <<W, open, handled>> /\ pc' = "decode"
    BY DEF Delivers, W
  <1>3. /\ \A n \in Messages : msg'[n].origin = msg[n].origin /\ (n # m => msg'[n] = msg[n])
        /\ msg'[m].place = "out"
    BY <1>1 DEF TypeOK, QueueTyped, MessageRecords, Manual
  <1>4. \A n \in Messages : (Waiting(n)' <=> Waiting(n)) /\ (Alive(n)' <=> Alive(n)) /\ (Owes(n)' <=> Owes(n))
    BY <1>1, <1>2, <1>3 DEF Waiting, Alive, Owes
  <1>5. \A c, n \in Messages : Twin(c, n)' <=> Twin(c, n)
    BY <1>3 DEF Twin
  <1>6. \A i : \A n : (AckAt(n, i)' <=> AckAt(n, i)) /\ (PublishAt(n, i)' <=> PublishAt(n, i))
    BY <1>2 DEF AckAt, PublishAt
  <1>7. AckBacked'
    BY <1>2, <1>4, <1>5, <1>6 DEF BackedInv, AckBacked
  <1>8. SentBacked'
    BY <1>2, <1>4, <1>5, <1>6 DEF BackedInv, SentBacked
  <1>9. SentOnWire'
    BY <1>2, <1>3, <1>6 DEF BackedInv, SentOnWire
  <1>10. HeldBacked'
    <2>1. Waiting(m) /\ \A j \in 1 .. Len(W) : ~AckAt(m, j)
      BY <1>1, WirePlaces DEF TypeOK, OnceInv, AckAt, Waiting
    <2>2. QED
      BY <1>1, <1>2, <1>4, <1>6, <2>1, HeldSteps DEF BackedInv, HeldBacked, TypeOK
  <1>11. CopyBacked'
    BY <1>2 DEF CopyBacked
  <1>12. NotLost'
    <2>1. \A o \in Originals : Kept(o)' <=> Kept(o)
      BY <1>3, <1>4 DEF Kept, Alive, Waiting
    <2>2. \A n \in Messages : msg'[n].place # "unused" => msg[n].place # "unused"
      BY <1>1, <1>3
    <2>3. QED
      BY <1>2, <1>3, <2>1, <2>2 DEF BackedInv, NotLost, Manual
  <1>13. QED
    BY <1>7, <1>8, <1>9, <1>10, <1>11, <1>12 DEF BackedInv

LEMMA RepublishingKeeps ==
  ASSUME TypeOK, AtWork, OnceInv, Manual, BackedInv, Republishes PROVE BackedInv'
  <1>0. PICK m \in Messages : m = Head(batch) /\ Held = {m}
    BY HeldSteps DEF Republishes, TypeOK
  <1>1. PICK c \in Messages : Copies(m, c) /\ AddsFrame(PublishChannel, [op |-> "publish", m |-> c])
    BY <1>0 DEF Republishes
  <1>2. /\ UNCHANGED <<open, handled, batch, cfg>> /\ pc' = "republished" /\ open["deliveries"]
        /\ PublishChannel = "deliveries" /\ Held' = {m} /\ Head(batch)' = m
    BY <1>0 DEF Republishes, Manual, PublishChannel, Held
  <1>3. /\ Len(W') = Len(W) + 1 /\ \A i \in 1 .. Len(W) : W'[i] = W[i]
        /\ W'[Len(W) + 1].op = "publish" /\ W'[Len(W) + 1].m = c
    BY <1>1, <1>2 DEF AddsFrame, W
  <1>4. Len(W) \in Nat /\ \A i \in 1 .. Len(W') : i \in 1 .. Len(W) \/ i = Len(W) + 1
    BY <1>3, Lengths DEF TypeOK
  <1>5. /\ msg[c].place = "unused" /\ msg'[c].place = "sent" /\ msg'[c].origin = msg[m].origin
        /\ \A n \in Messages : n # c => msg'[n] = msg[n]
    BY <1>1 DEF Copies
  <1>6. ~Waiting(c) /\ ~Alive(c)
    BY <1>5 DEF Waiting, Alive
  <1>7. \A n \in Messages : n # c => /\ Waiting(n)' <=> Waiting(n)
                                     /\ Alive(n)' <=> Alive(n)
                                     /\ Owes(n)' <=> Owes(n)
    BY <1>2, <1>5 DEF Waiting, Alive, Owes
  <1>8. \A k, n \in Messages : k # c /\ n # c => (Twin(k, n)' <=> Twin(k, n))
    BY <1>5 DEF Twin
  <1>9. \A i \in 1 .. Len(W) : W[i].m # c /\ W[i].m \in Messages
    BY <1>5, WirePlaces DEF TypeOK, OnceInv
  <1>10. \A i \in 1 .. Len(W) : \A n : (AckAt(n, i)' <=> AckAt(n, i)) /\ (PublishAt(n, i)' <=> PublishAt(n, i))
    BY <1>3 DEF AckAt, PublishAt
  <1>11. AckBacked'
    <2>1. SUFFICES ASSUME NEW i \in 1 .. Len(W'), NEW n \in Messages, AckAt(n, i)', Owes(n)'
                   PROVE  \E k \in Messages : Twin(k, n)' /\ Alive(k)' /\ \A j \in 1 .. i : ~AckAt(k, j)'
      BY DEF AckBacked
    <2>2. i \in 1 .. Len(W) /\ AckAt(n, i) /\ n # c
      BY <1>3, <1>4, <1>9, <1>10, <2>1 DEF AckAt
    <2>3. PICK k \in Messages : Twin(k, n) /\ Alive(k) /\ \A j \in 1 .. i : ~AckAt(k, j)
      BY <1>7, <2>1, <2>2 DEF BackedInv, AckBacked
    <2>4. Twin(k, n)' /\ Alive(k)'
      BY <1>6, <1>7, <1>8, <2>2, <2>3
    <2>5. \A j \in 1 .. i : ~AckAt(k, j)'
      BY <1>4, <1>10, <2>2, <2>3
    <2>6. QED
      BY <2>4, <2>5
  <1>12. Owes(m) => Waiting(m) /\ m # c /\ \A j \in 1 .. Len(W) : ~AckAt(m, j)
    BY <1>0, <1>2, <1>6 DEF BackedInv, HeldBacked
  <1>13. m # c => Twin(m, c)' /\ Twin(c, m)'
    BY <1>2, <1>5 DEF Twin
  <1>14. Owes(c)' => Owes(m)
    BY <1>2, <1>5 DEF Owes
  <1>15. SentBacked'
    <2>1. SUFFICES ASSUME NEW p \in 1 .. Len(W'), NEW n \in Messages, PublishAt(n, p)', Owes(n)'
                   PROVE  \E k \in Messages : Twin(k, n)' /\ Waiting(k)' /\ \A j \in 1 .. p : ~AckAt(k, j)'
      BY DEF SentBacked
    <2>2. CASE p \in 1 .. Len(W)
      <3>1. PublishAt(n, p) /\ n # c
        BY <1>9, <1>10, <2>1, <2>2 DEF PublishAt
      <3>2. PICK k \in Messages : Twin(k, n) /\ Waiting(k) /\ \A j \in 1 .. p : ~AckAt(k, j)
        BY <1>7, <2>1, <2>2, <3>1 DEF BackedInv, SentBacked
      <3>3. Twin(k, n)' /\ Waiting(k)'
        BY <1>6, <1>7, <1>8, <3>1, <3>2
      <3>4. \A j \in 1 .. p : ~AckAt(k, j)'
        BY <1>4, <1>10, <2>2, <3>2
      <3>5. QED
        BY <3>3, <3>4
    <2>3. CASE p = Len(W) + 1
      <3>1. n = c
        BY <1>3, <2>1, <2>3 DEF PublishAt
      <3>2. Waiting(m) /\ m # c /\ \A j \in 1 .. Len(W) : ~AckAt(m, j)
        BY <1>12, <1>14, <2>1, <3>1
      <3>3. \A j \in 1 .. p : ~AckAt(m, j)'
        <4>1. SUFFICES ASSUME NEW j \in 1 .. p PROVE ~AckAt(m, j)'
          OBVIOUS
        <4>2. CASE j \in 1 .. Len(W)
          BY <1>10, <3>2, <4>2
        <4>3. CASE j = Len(W) + 1
          BY <1>3, <4>3 DEF AckAt
        <4>4. QED
          BY <1>4, <2>3, <4>2, <4>3
      <3>4. QED
        BY <1>2, <1>7, <1>13, <3>1, <3>2, <3>3
    <2>4. QED
      BY <1>4, <2>2, <2>3
  <1>16. SentOnWire'
    <2>1. SUFFICES ASSUME NEW n \in Messages, msg'[n].place = "sent" PROVE \E p \in 1 .. Len(W') : PublishAt(n, p)'
      BY DEF SentOnWire
    <2>2. CASE n = c
      <3>1. Len(W) + 1 \in 1 .. Len(W')
        BY <1>3, <1>4
      <3>2. QED
        BY <1>3, <2>2, <3>1 DEF PublishAt
    <2>3. CASE n # c
      BY <1>3, <1>4, <1>5, <1>10, <2>1, <2>3 DEF BackedInv, SentOnWire
    <2>4. QED
      BY <2>2, <2>3
  <1>17. HeldBacked'
    <2>1. SUFFICES ASSUME Owes(m)'
                   PROVE  Waiting(m)' /\ \A j \in 1 .. Len(W') : ~AckAt(m, j)'
      BY <1>2 DEF HeldBacked
    <2>2. Owes(m)
      BY <1>2, <1>5, <2>1 DEF Owes
    <2>3. Waiting(m)'
      BY <1>2, <1>7, <1>12, <2>2
    <2>4. ASSUME NEW j \in 1 .. Len(W') PROVE ~AckAt(m, j)'
      <3>1. CASE j \in 1 .. Len(W)
        BY <1>10, <1>12, <2>2, <3>1
      <3>2. CASE j = Len(W) + 1
        BY <1>3, <3>2 DEF AckAt
      <3>3. QED
        BY <1>4, <3>1, <3>2
    <2>5. QED
      BY <2>3, <2>4
  <1>18. CopyBacked'
    <2>1. SUFFICES ASSUME Owes(m)' PROVE Twin(c, m)'
      BY <1>2, <1>5 DEF CopyBacked
    <2>2. Owes(m)
      BY <1>2, <1>5, <2>1 DEF Owes
    <2>3. QED
      BY <1>12, <1>13, <2>2
  <1>19. NotLost'
    <2>1. SUFFICES ASSUME NEW o \in Originals, NEW n \in Messages, msg'[n].origin = o, msg'[n].place # "unused"
                   PROVE  Kept(o)' \/ o \in handled'
      BY DEF NotLost
    <2>2. CASE n = c
      BY <1>5, <2>1, <2>2 DEF Kept
    <2>3. CASE n # c
      <3>1. Kept(o) \/ o \in handled
        BY <1>5, <2>1, <2>3 DEF BackedInv, NotLost, Manual
      <3>2. Kept(o) => Kept(o)'
        BY <1>5 DEF Kept
      <3>3. QED
        BY <1>2, <3>1, <3>2
    <2>4. QED
      BY <2>2, <2>3
  <1>20. QED
    BY <1>11, <1>15, <1>16, <1>17, <1>18, <1>19 DEF BackedInv

LEMMA HandlingKeeps ==
  ASSUME TypeOK, AtWork, OnceInv, Manual, BackedInv, Handles PROVE BackedInv'
  <1>1. HandlesFirst("deliveries") /\ UNCHANGED <<cfg, open, handled, pc, batch>> /\ Len(W) \in Nat
    <2>1. PICK c \in Channels : HandlesFirst(c)
      BY DEF Handles
    <2>2. Len(wire[c]) >= 1 /\ Len(wire[c]) \in Nat
      BY <2>1, LenNat DEF HandlesFirst, TypeOK
    <2>3. ~(1 \in 1 .. Len(wire["publish"]))
      BY DEF OnceInv, FramesTrue, Manual, PublishChannel, Channels
    <2>4. c = "deliveries"
      BY <2>2, <2>3 DEF Channels
    <2>5. QED
      BY <2>1, <2>4, Lengths DEF Handles, TypeOK
  <1> DEFINE n == W[1].m
  <1> DEFINE op == W[1].op
  <1>2. /\ Len(W) >= 1 /\ Len(W') = Len(W) - 1 /\ \A i \in 1 .. Len(W') : W'[i] = W[i + 1]
        /\ \A k \in Messages : msg'[k].origin = msg[k].origin /\ (k # n => msg'[k].place = msg[k].place)
        /\ msg'[n].place = PlaceAfter(op)
    BY <1>1 DEF HandlesFirst, W
  <1>3. 1 \in 1 .. Len(W) /\ Len(W') \in Nat /\ \A i \in 1 .. Len(W') : i + 1 \in 1 .. Len(W)
    BY <1>1, <1>2
  <1>4. /\ n \in Messages /\ op \in {"ack", "drop", "requeue", "publish"}
        /\ op = "publish" => msg[n].place = "sent"
        /\ op # "publish" => msg[n].place = "out"
    BY <1>3, WirePlaces DEF TypeOK, OnceInv
  <1>5. PICK after : after = PlaceAfter(op)
    OBVIOUS
  <1>6. /\ op = "ack" => after = "acked"
        /\ op = "drop" => after = "dropped"
        /\ op \in {"requeue", "publish"} => after = "ready"
    BY <1>5 DEF PlaceAfter
  <1>7. PICK x \in Messages, o1 \in {"ack", "drop", "requeue", "publish"} : x = n /\ o1 = op
    BY <1>4
  <1>8. \A m \in Messages : (m # x \/ o1 # "ack") => (Waiting(m) => Waiting(m)') /\ (Alive(m) => Alive(m)')
    BY <1>2, <1>4, <1>5, <1>6, <1>7 DEF Waiting, Alive
  <1>9. \A m \in Messages : ~AckAt(m, 1) => (Waiting(m) => Waiting(m)') /\ (Alive(m) => Alive(m)')
    BY <1>7, <1>8 DEF AckAt
  <1>10. \A m, k \in Messages : (Twin(m, k)' <=> Twin(m, k)) /\ (Owes(m)' <=> Owes(m))
    BY <1>1, <1>2 DEF Twin, Owes
  <1>11. \A i \in 1 .. Len(W') : \A m : (AckAt(m, i)' <=> AckAt(m, i + 1)) /\ (PublishAt(m, i)' <=> PublishAt(m, i + 1))
    BY <1>2 DEF AckAt, PublishAt
  <1>12. ASSUME NEW i \in 1 .. Len(W'), NEW m \in Messages, \A j \in 1 .. i + 1 : ~AckAt(m, j)
         PROVE  \A j \in 1 .. i : ~AckAt(m, j)'
    <2>1. \A j \in 1 .. i : j \in 1 .. Len(W') /\ j + 1 \in 1 .. i + 1
      BY <1>3
    <2>2. QED
      BY <1>11, <1>12, <2>1
  <1>13. \A i \in 1 .. Len(W') : 1 \in 1 .. i + 1
    BY <1>3
  <1>14. AckBacked'
    <2>1. SUFFICES ASSUME NEW i \in 1 .. Len(W'), NEW m \in Messages, AckAt(m, i)', Owes(m)'
                   PROVE  \E k \in Messages : Twin(k, m)' /\ Alive(k)' /\ \A j \in 1 .. i : ~AckAt(k, j)'
      BY DEF AckBacked
    <2>2. AckAt(m, i + 1) /\ Owes(m) /\ i + 1 \in 1 .. Len(W)
      BY <1>3, <1>10, <1>11, <2>1
    <2>3. PICK k \in Messages : Twin(k, m) /\ Alive(k) /\ \A j \in 1 .. i + 1 : ~AckAt(k, j)
      BY <2>2 DEF BackedInv, AckBacked
    <2>4. Alive(k)' /\ Twin(k, m)'
      BY <1>9, <1>10, <1>13, <2>3
    <2>5. \A j \in 1 .. i : ~AckAt(k, j)'
      BY <1>12, <2>3
    <2>6. QED
      BY <2>4, <2>5
  <1>15. SentBacked'
    <2>1. SUFFICES ASSUME NEW i \in 1 .. Len(W'), NEW m \in Messages, PublishAt(m, i)', Owes(m)'
                   PROVE  \E k \in Messages : Twin(k, m)' /\ Waiting(k)' /\ \A j \in 1 .. i : ~AckAt(k, j)'
      BY DEF SentBacked
    <2>2. PublishAt(m, i + 1) /\ Owes(m) /\ i + 1 \in 1 .. Len(W)
      BY <1>3, <1>10, <1>11, <2>1
    <2>3. PICK k \in Messages : Twin(k, m) /\ Waiting(k) /\ \A j \in 1 .. i + 1 : ~AckAt(k, j)
      BY <2>2 DEF BackedInv, SentBacked
    <2>4. Waiting(k)' /\ Twin(k, m)'
      BY <1>9, <1>10, <1>13, <2>3
    <2>5. \A j \in 1 .. i : ~AckAt(k, j)'
      BY <1>12, <2>3
    <2>6. QED
      BY <2>4, <2>5
  <1>16. SentOnWire'
    <2>1. SUFFICES ASSUME NEW m \in Messages, msg'[m].place = "sent" PROVE \E p \in 1 .. Len(W') : PublishAt(m, p)'
      BY DEF SentOnWire
    <2>2. m # x
      BY <1>2, <1>5, <1>6, <1>7, <2>1
    <2>3. msg[m].place = "sent"
      BY <1>2, <1>7, <2>1, <2>2
    <2>4. PICK p \in 1 .. Len(W) : PublishAt(m, p)
      BY <2>3 DEF BackedInv, SentOnWire
    <2>5. p # 1
      BY <1>7, <2>2, <2>4 DEF PublishAt
    <2>6. PICK q \in 1 .. Len(W') : p = q + 1
      <3>1. p - 1 \in 1 .. Len(W') /\ p = (p - 1) + 1
        BY <1>1, <1>2, <2>5
      <3>2. QED
        BY <3>1
    <2>7. PublishAt(m, q)'
      BY <1>11, <2>4, <2>6
    <2>8. QED
      BY <2>7
  <1>17. Held' = Held /\ Held \subseteq Messages
    BY <1>1, HeldSteps DEF TypeOK
  <1>18. HeldBacked'
    <2>1. SUFFICES ASSUME open["deliveries"], NEW m \in Held, Owes(m)'
                   PROVE  Waiting(m)' /\ \A j \in 1 .. Len(W') : ~AckAt(m, j)'
      BY <1>1, <1>17 DEF HeldBacked
    <2>2. Waiting(m) /\ \A j \in 1 .. Len(W) : ~AckAt(m, j)
      BY <1>10, <1>17, <2>1 DEF BackedInv, HeldBacked
    <2>3. Waiting(m)'
      BY <1>3, <1>9, <1>17, <2>2
    <2>4. \A j \in 1 .. Len(W') : ~AckAt(m, j)'
      BY <1>3, <1>11, <2>2
    <2>5. QED
      BY <2>3, <2>4
  <1>19. CopyBacked'
    <2>1. SUFFICES ASSUME open["deliveries"], pc = "republished", Owes(Head(batch))'
                   PROVE  \E c \in Messages : Twin(c, Head(batch))' /\ msg'[c].place \in {"sent", "ready"}
      BY <1>1 DEF CopyBacked
    <2>2. PICK h \in Messages : h = Head(batch)
      BY <2>1, HeldSteps DEF AtWork, TypeOK
    <2>3. h = Head(batch)'
      BY <1>1, <2>2
    <2>4. Owes(h)
      BY <1>1, <1>2, <2>1, <2>2, <2>3 DEF Owes
    <2>5. PICK c \in Messages : Twin(c, h) /\ msg[c].place \in {"sent", "ready"}
      BY <2>1, <2>2, <2>4 DEF BackedInv, CopyBacked
    <2>6. msg'[c].place \in {"sent", "ready"}
      BY <1>2, <1>4, <1>5, <1>6, <1>7, <2>5
    <2>7. Twin(c, Head(batch))'
      BY <1>2, <2>2, <2>3, <2>5 DEF Twin
    <2>8. QED
      BY <2>6, <2>7
  <1>20. NotLost'
    <2>1. SUFFICES ASSUME NEW o \in Originals, NEW m \in Messages, msg'[m].origin = o, msg'[m].place # "unused"
                   PROVE  Kept(o)' \/ o \in handled'
      BY DEF NotLost
    <2>2. msg[m].origin = o /\ msg[m].place # "unused"
      BY <1>2, <1>4, <1>7, <2>1
    <2>3. CASE o \in handled
      BY <1>1, <2>3
    <2>4. CASE o \notin handled
      <3>1. Kept(o)
        BY <2>2, <2>4 DEF BackedInv, NotLost, Manual
      <3>2. PICK k \in Messages : msg[k].origin = o /\ Alive(k)
        BY <3>1 DEF Kept, Alive, Waiting
      <3>3. PICK l \in Messages : msg[l].origin = o /\ Alive(l) /\ ~AckAt(l, 1)
        <4>1. CASE AckAt(k, 1)
          <5>1. PICK l \in Messages : Twin(l, k) /\ Alive(l) /\ \A j \in 1 .. 1 : ~AckAt(l, j)
            BY <1>3, <2>4, <3>2, <4>1 DEF BackedInv, AckBacked, Owes
          <5>2. QED
            BY <3>2, <5>1 DEF Twin
        <4>2. CASE ~AckAt(k, 1)
          BY <3>2, <4>2
        <4>3. QED
          BY <4>1, <4>2
      <3>4. Alive(l)' /\ msg'[l].origin = o
        BY <1>2, <1>9, <3>3
      <3>5. QED
        BY <3>4 DEF Kept, Alive, Waiting
    <2>5. QED
      BY <2>3, <2>4
  <1>21. QED
    BY <1>14, <1>15, <1>16, <1>18, <1>19, <1>20 DEF BackedInv

LEMMA DeathKeeps ==
  ASSUME TypeOK, OnceInv, Manual, BackedInv, Dies PROVE BackedInv'
  <1>1. Loses("deliveries") /\ UNCHANGED <<cfg, handled>> /\ PublishChannel = "deliveries"
    BY DEF Dies, Manual, PublishChannel, Channels
  <1>2. /\ W' = <<>> /\ ~open'["deliveries"]
        /\ \A n \in Messages :
             /\ msg'[n].origin = msg[n].origin
             /\ msg'[n].place = IF msg[n].place = "out" THEN "ready"
                                ELSE IF msg[n].place = "sent" THEN "unused" ELSE msg[n].place
    BY <1>1 DEF Loses, W
  <1>3. AckBacked' /\ SentBacked' /\ HeldBacked' /\ CopyBacked'
    BY <1>2 DEF AckBacked, SentBacked, HeldBacked, CopyBacked
  <1>4. SentOnWire'
    BY <1>2 DEF SentOnWire
  <1>5. NotLost'
    <2>1. SUFFICES ASSUME NEW o \in Originals, NEW m \in Messages, msg'[m].origin = o, msg'[m].place # "unused",
                          o \notin handled
                   PROVE  Kept(o)'
      BY <1>1 DEF NotLost
    <2>2. msg[m].origin = o /\ msg[m].place # "unused"
      BY <1>2, <2>1
    <2>3. PICK k \in Messages : msg[k].origin = o /\ Alive(k)
      BY <2>1, <2>2 DEF BackedInv, NotLost, Manual, Kept, Alive, Waiting
    <2>4. PICK l \in Messages : msg[l].origin = o /\ Waiting(l)
      <3>1. CASE msg[k].place = "sent"
        <4>1. PICK p \in 1 .. Len(W) : PublishAt(k, p)
          BY <3>1 DEF BackedInv, SentOnWire
        <4>2. PICK l \in Messages : Twin(l, k) /\ Waiting(l)
          BY <2>1, <2>3, <4>1 DEF BackedInv, SentBacked, Owes
        <4>3. QED
          BY <2>3, <4>2 DEF Twin
      <3>2. CASE msg[k].place # "sent"
        BY <2>3, <3>2 DEF Alive
      <3>3. QED
        BY <3>1, <3>2
    <2>5. msg'[l].origin = o /\ msg'[l].place \in {"ready", "dropped"}
      BY <1>2, <2>4 DEF Waiting
    <2>6. QED
      BY <2>5 DEF Kept
  <1>6. QED
    BY <1>3, <1>4, <1>5 DEF BackedInv

LEMMA LossKept ==
  ASSUME TypeOK, AtWork, OnceInv, LossInv, StepKind PROVE LossInv'
  <1>1. UNCHANGED cfg
    BY DEF StepKind, Quiet, Settling, Onward, Delivers, Republishes, Reopens, Handles, Dies
  <1>2. SUFFICES ASSUME Manual, BackedInv PROVE BackedInv'
    BY <1>1 DEF LossInv, Manual
  <1>3. CASE Quiet
    BY <1>2, <1>3, QuietKeeps DEF Quiet, TypeOK
  <1>4. CASE Settling
    BY <1>2, <1>4, SettlingKeeps
  <1>5. CASE Delivers
    BY <1>2, <1>5, DeliveryKeeps
  <1>6. CASE Republishes
    BY <1>2, <1>6, RepublishingKeeps
  <1>7. CASE Reopens
    <2>1. UNCHANGED <<cfg, msg, W, handled, pc, batch>> /\ pc = "idle" /\ Held' = {}
      BY <1>7 DEF Reopens, W, Held
    <2>2. AckBacked' /\ SentBacked' /\ SentOnWire'
      BY <1>2, <2>1 DEF BackedInv, AckBacked, SentBacked, SentOnWire, AckAt, PublishAt, Twin,
          Owes, Waiting, Alive
    <2>3. HeldBacked' /\ CopyBacked'
      BY <2>1 DEF HeldBacked, CopyBacked
    <2>4. NotLost'
      BY <1>2, <2>1 DEF BackedInv, NotLost, Kept
    <2>5. QED
      BY <2>2, <2>3, <2>4 DEF BackedInv
  <1>8. CASE Handles
    BY <1>2, <1>8, HandlingKeeps
  <1>9. CASE Dies
    BY <1>2, <1>9, DeathKeeps
  <1>10. QED
    BY <1>3, <1>4, <1>5, <1>6, <1>7, <1>8, <1>9 DEF StepKind
-----------------------------------------------------------------------------
(* How often failures alone make a handler run.                              *)

\* The documented limit of retries, and one more on a quorum queue.
Limit == cfg.maxRetries + (IF cfg.quorum THEN 1 ELSE 0)

\* The retries a message has behind it, counted by the broker or by its header.
Tries(m) == msg[m].count + msg[m].retries

\* Deliveries are counted one way only, the queue type's; a quorum queue's message has no copies.
CountedOnce ==
  \A m \in Messages :
    /\ msg[m].stamp = 0 /\ (msg[m].place # "unused" => msg[m].origin = 1)
    /\ cfg.quorum => msg[m].retries = 0 /\ msg[m].place # "sent" /\ (m # 1 => msg[m].place = "unused")
    /\ ~cfg.quorum => msg[m].count = 0

\* What makes the next handler run: a message that waits or is on its way, the worker that has
\* not settled its delivery, or a requeue that the broker has not seen.
Coming(m) == msg[m].place \in {"sent", "ready"}
Returning(m) ==
  \E c \in Channels : \E i \in 1 .. Len(wire[c]) : wire[c][i].op = "requeue" /\ wire[c][i].m = m
Working == pc \notin {"idle", "republished"}

\* There is one of these at most.
OneAtATime ==
  /\ \A m \in Messages : Coming(m) => /\ ~Working /\ \A n \in Messages : Coming(n) => n = m
                                      /\ \A n \in Messages : ~Returning(n)
  /\ Working => \A n \in Messages : ~Returning(n)

\* Each has the count of the handler's runs, and is within the limit.
CountsTrue ==
  /\ \A m \in Messages : Coming(m) => attempts[1] = Tries(m) /\ Tries(m) <= Limit
  /\ \A m \in Messages : Returning(m) => cfg.quorum /\ attempts[1] = Tries(m) + 1 /\ Tries(m) < Limit
  /\ Working => /\ msg[Head(batch)].origin = 1
                /\ header = IF cfg.quorum THEN msg[Head(batch)].count ELSE 0
                /\ attempts[1] = Tries(Head(batch)) + 1 /\ Tries(Head(batch)) <= Limit
                /\ pc \in {"backoff", "retry"} => Tries(Head(batch)) < Limit
  /\ attempts[1] <= Limit + 1 /\ \A o \in Originals : o # 1 => attempts[o] = 0

CountedInv == pc # "settling" /\ CountedOnce /\ OneAtATime /\ CountsTrue
RetryInv ==
  /\ cfg.maxRetries > 0 => ~cfg.batch
  /\ FailuresOnly => CountedInv

LEMMA RetryFacts ==
  ASSUME TypeOK
  PROVE  /\ Limit \in Nat /\ cfg.maxRetries \in Nat /\ cfg.quorum \in BOOLEAN /\ header \in Nat
         /\ cfg.maxRetries > 0 => Limit \in Nat \ {0}
         /\ 1 \in Originals /\ 1 \in Messages /\ \A o \in Originals : attempts[o] \in Nat
         /\ \A m \in Messages : /\ msg[m].origin \in Originals /\ Tries(m) \in Nat
                                /\ msg[m].count \in Nat /\ msg[m].retries \in Nat
  <1> USE SettlementAssumption DEF TypeOK
  <1>1. cfg.maxRetries \in Nat /\ cfg.quorum \in BOOLEAN /\ header \in Nat
    BY DEF QueueTyped, Configurations, WorkerTyped
  <1>2. Limit \in Nat /\ (cfg.maxRetries > 0 => Limit \in Nat \ {0})
    BY <1>1 DEF Limit
  <1>3. 1 \in Originals /\ 1 \in Messages
    BY DEF Originals, Messages
  <1>4. \A o \in Originals : attempts[o] \in Nat
    BY DEF RestTyped
  <1>5. \A m \in Messages : msg[m].origin \in Originals /\ msg[m].count \in Nat /\ msg[m].retries \in Nat
    BY DEF QueueTyped, MessageRecords
  <1>6. \A m \in Messages : Tries(m) \in Nat
    BY <1>5 DEF Tries
  <1>7. QED
    BY <1>1, <1>2, <1>3, <1>4, <1>5, <1>6

\* The message the worker handles, one at a time.
LEMMA AtHand ==
  ASSUME TypeOK, AtWork, CountedInv, pc # "idle"
  PROVE  batch # <<>> /\ Head(batch) \in Messages
  BY HeldSteps DEF TypeOK, AtWork, CountedInv

\* A frame that is no requeue returns nothing.
LEMMA FrameReturns ==
  ASSUME TypeOK, NEW c \in Channels, NEW op, NEW m \in Messages, AddsFrame(c, [op |-> op, m |-> m])
  PROVE  \A n \in Messages : Returning(n)' => Returning(n) \/ (op = "requeue" /\ n = m)
  <1> SUFFICES ASSUME NEW n \in Messages, NEW d \in Channels, NEW i \in 1 .. Len(wire'[d]),
                      wire'[d][i].op = "requeue", wire'[d][i].m = n
               PROVE  Returning(n) \/ (op = "requeue" /\ n = m)
    BY DEF Returning
  <1>1. CASE d # c
    BY <1>1 DEF AddsFrame, Returning
  <1>2. CASE d = c
    <2>1. Len(wire[c]) \in Nat /\ Len(wire'[c]) = Len(wire[c]) + 1
      BY LenNat DEF TypeOK, AddsFrame
    <2>2. i \in 1 .. Len(wire[c]) \/ i = Len(wire[c]) + 1
      BY <1>2, <2>1
    <2>3. CASE i \in 1 .. Len(wire[c])
      BY <1>2, <2>3 DEF AddsFrame, Returning
    <2>4. CASE i = Len(wire[c]) + 1
      BY <1>2, <2>4 DEF AddsFrame
    <2>5. QED
      BY <2>2, <2>3, <2>4
  <1>3. QED
    BY <1>1, <1>2

LEMMA SettleReturns ==
  ASSUME TypeOK, NEW op \in Settlements, NEW m \in Messages, Settle(m, op)
  PROVE  \A n \in Messages : Returning(n)' => Returning(n) \/ (op = "requeue" /\ n = m)
  <1>1. Settles(m, op)
    BY SettleSettles DEF TypeOK
  <1>2. CASE UNCHANGED wire
    BY <1>2 DEF Returning
  <1>3. CASE AddsFrame("deliveries", [op |-> op, m |-> m])
    BY <1>3, FrameReturns DEF Channels
  <1>4. QED
    BY <1>1, <1>2, <1>3 DEF Settles

\* A worker that goes on with its message, or is done with it, and requeues nothing.
WorkerGoesOn ==
  /\ UNCHANGED <<cfg, msg, attempts>> /\ \A n \in Messages : Returning(n)' => Returning(n)
  /\ \/ pc' = "idle"
     \/ /\ pc' \notin {"idle", "settling"} /\ UNCHANGED <<batch, header>> /\ (Working' => Working)
        /\ pc' \in {"backoff", "retry"} => Tries(Head(batch)) < Limit

LEMMA GoingOnKeeps ==
  ASSUME TypeOK, AtWork, CountedInv, WorkerGoesOn PROVE CountedInv'
  <1>1. /\ UNCHANGED <<cfg, msg, attempts>> /\ Limit' = Limit
        /\ \A n \in Messages : (Returning(n)' => Returning(n)) /\ (Coming(n)' <=> Coming(n)) /\ Tries(n)' = Tries(n)
    BY DEF WorkerGoesOn, Coming, Tries, Limit
  <1>2. pc' # "settling" /\ (Working' => Working /\ UNCHANGED <<batch, header>>)
    BY DEF WorkerGoesOn, Working
  <1>3. CountedOnce'
    BY <1>1 DEF CountedInv, CountedOnce
  <1>4. OneAtATime'
    BY <1>1, <1>2 DEF CountedInv, OneAtATime
  <1>5. /\ \A m \in Messages : Coming(m)' => attempts'[1] = Tries(m)' /\ Tries(m)' <= Limit'
        /\ \A m \in Messages : Returning(m)' =>
             cfg'.quorum /\ attempts'[1] = Tries(m)' + 1 /\ Tries(m)' < Limit'
        /\ attempts'[1] <= Limit' + 1 /\ \A o \in Originals : o # 1 => attempts'[o] = 0
    BY <1>1 DEF CountedInv, CountsTrue
  <1>6. ASSUME Working'
        PROVE  /\ msg'[Head(batch')].origin = 1
               /\ header' = IF cfg'.quorum THEN msg'[Head(batch')].count ELSE 0
               /\ attempts'[1] = Tries(Head(batch))' + 1 /\ Tries(Head(batch))' <= Limit'
               /\ pc' \in {"backoff", "retry"} => Tries(Head(batch))' < Limit'
    <2>1. Working /\ batch' = batch /\ header' = header /\ pc' # "idle"
      BY <1>2, <1>6 DEF Working
    <2>2. PICK h \in Messages : h = Head(batch)
      BY <2>1, AtHand DEF Working
    <2>3. /\ msg[h].origin = 1 /\ header = IF cfg.quorum THEN msg[h].count ELSE 0
          /\ attempts[1] = Tries(h) + 1 /\ Tries(h) <= Limit
          /\ pc' \in {"backoff", "retry"} => Tries(h) < Limit
      BY <2>1, <2>2 DEF CountedInv, CountsTrue, WorkerGoesOn
    <2>4. Tries(Head(batch))' = Tries(h)
      BY <1>1, <2>1, <2>2 DEF Tries
    <2>5. QED
      BY <1>1, <2>1, <2>2, <2>3, <2>4
  <1>7. CountsTrue'
    BY <1>5, <1>6 DEF CountsTrue
  <1>8. QED
    BY <1>2, <1>3, <1>4, <1>7 DEF CountedInv

\* Nothing but a failure makes a difference once something else has; the configuration stays.
LEMMA DisturbedStays ==
  ASSUME Next PROVE cfg' = cfg /\ (disturbed => disturbed' = TRUE)
  <1>1. CASE Process
    BY <1>1 DEF Process, Decode, HandlerReturns, Succeed, SkipSettled, HonourReject, NackByDefault,
       RetriesExhausted, StartRetry, BackoffOver, RetryOnQuorum, Republish, RepublishFails, AckOriginal,
       Failed, history
  <1>2. CASE ProcessBatch
    BY <1>2 DEF ProcessBatch, BatchDecode, BatchStarts, BatchReturns, BatchPanics, BatchSettles, BatchDone, history
  <1>3. CASE \/ \E m \in Messages : Deliver(m)
             \/ Resubscribe
             \/ \E op \in Settlements : SettleManually(op)
             \/ \E c \in Channels : BrokerHandles(c) \/ ChannelDies(c)
    BY <1>3 DEF Deliver, Resubscribe, SettleManually, BrokerHandles, ChannelDies, history
  <1>4. QED
    BY <1>1, <1>2, <1>3 DEF Next

\* Until it retries, the worker goes on or is done.
LEMMA ProcessingGoesOn ==
  ASSUME TypeOK, AtWork, CountedInv, ~cfg.batch, cfg.maxRetries > 0, cfg.declared = cfg.quorum,
         Process, ~disturbed', ~RetryOnQuorum, ~Republish
  PROVE  WorkerGoesOn
  <1> USE DEF GoTo, Done, channels, history, worker
  <1>1. wire' = wire => \A n \in Messages : Returning(n)' => Returning(n)
    BY DEF Returning
  <1>2. pc # "idle" => Head(batch) \in Messages
    BY AtHand
  <1>3. ASSUME NEW op \in Settlements, pc # "idle", Settle(Head(batch), op), op # "requeue"
        PROVE  \A n \in Messages : Returning(n)' => Returning(n)
    BY <1>2, <1>3, SettleReturns
  <1>4. CASE Decode
    BY <1>1, <1>4 DEF Decode, WorkerGoesOn, Working
  <1>5. ASSUME NEW r \in Outcomes, HandlerReturns(r) PROVE WorkerGoesOn
    BY <1>1, <1>5 DEF HandlerReturns, WorkerGoesOn, Working
  <1>6. CASE Succeed
    <2>1. wire' = wire \/ Settle(Head(batch), "ack")
      BY <1>6 DEF Succeed
    <2>2. \A n \in Messages : Returning(n)' => Returning(n)
      BY <1>1, <1>3, <1>6, <2>1 DEF Succeed, Settlements
    <2>3. QED
      BY <1>6, <2>2 DEF Succeed, WorkerGoesOn
  <1>7. CASE SkipSettled
    BY <1>1, <1>7 DEF SkipSettled, WorkerGoesOn
  <1>8. CASE HonourReject
    BY <1>8 DEF HonourReject
  <1>9. CASE NackByDefault
    BY <1>9 DEF NackByDefault
  <1>10. CASE RetriesExhausted
    <2>1. \A n \in Messages : Returning(n)' => Returning(n)
      BY <1>3, <1>10 DEF RetriesExhausted, Failed, Settlements
    <2>2. QED
      BY <1>10, <2>1 DEF RetriesExhausted, WorkerGoesOn
  <1>11. CASE StartRetry
    <2>1. pc = "failed" /\ getRetryCount(Head(batch)) < cfg.maxRetries /\ pc' = "backoff"
      BY <1>11 DEF StartRetry, Failed
    <2>2. PICK h \in Messages : h = Head(batch)
      BY <1>2, <2>1
    <2>3. Working /\ header = IF cfg.quorum THEN msg[h].count ELSE 0
      BY <2>1, <2>2 DEF CountedInv, CountsTrue, Working
    <2>4. /\ msg[h].count \in Nat /\ msg[h].retries \in Nat /\ cfg.maxRetries \in Nat /\ header \in Nat
          /\ cfg.quorum => msg[h].retries = 0
          /\ ~cfg.quorum => msg[h].count = 0
      BY RetryFacts DEF CountedInv, CountedOnce
    <2>5. Tries(h) < Limit
      <3>1. (IF header > 0 THEN header - 1 ELSE msg[h].retries) < cfg.maxRetries
        BY <2>1, <2>2 DEF getRetryCount
      <3>2. CASE cfg.quorum
        BY <2>3, <2>4, <3>1, <3>2 DEF Tries, Limit
      <3>3. CASE ~cfg.quorum
        BY <2>3, <2>4, <3>1, <3>3 DEF Tries, Limit
      <3>4. QED
        BY <3>2, <3>3
    <2>6. QED
      BY <1>1, <1>11, <2>1, <2>2, <2>3, <2>5 DEF StartRetry, WorkerGoesOn, Working
  <1>12. CASE BackoffOver
    <2>1. pc = "backoff" /\ Working
      BY <1>12 DEF BackoffOver, Working
    <2>2. Tries(Head(batch)) < Limit
      BY <2>1 DEF CountedInv, CountsTrue
    <2>3. QED
      BY <1>1, <1>12, <2>1, <2>2 DEF BackoffOver, WorkerGoesOn, Working
  <1>13. CASE RepublishFails
    <2>1. \A n \in Messages : Returning(n)' => Returning(n)
      BY <1>3, <1>13 DEF RepublishFails, Settlements
    <2>2. QED
      BY <1>13, <2>1 DEF RepublishFails, WorkerGoesOn
  <1>14. CASE AckOriginal
    <2>1. \A n \in Messages : Returning(n)' => Returning(n)
      BY <1>3, <1>14 DEF AckOriginal, Settlements
    <2>2. QED
      BY <1>14, <2>1 DEF AckOriginal, WorkerGoesOn
  <1>15. QED
    BY <1>4, <1>5, <1>6, <1>7, <1>8, <1>9, <1>10, <1>11, <1>12, <1>13, <1>14 DEF Process

\* A retry on a quorum queue: the message goes back, to be counted by the broker.
LEMMA RequeueKeeps ==
  ASSUME TypeOK, AtWork, CountedInv, cfg.declared = cfg.quorum, RetryOnQuorum PROVE CountedInv'
  <1>1. /\ pc = "retry" /\ cfg.quorum /\ pc' = "idle" /\ Settle(Head(batch), "requeue")
        /\ UNCHANGED <<cfg, msg, attempts>>
    BY DEF RetryOnQuorum, Done, history
  <1>2. PICK h \in Messages : h = Head(batch)
    BY <1>1, AtHand
  <1>3. Working /\ ~Working'
    BY <1>1 DEF Working
  <1>4. /\ attempts[1] = Tries(h) + 1 /\ Tries(h) < Limit
        /\ \A n \in Messages : ~Returning(n) /\ ~Coming(n)
    BY <1>1, <1>2, <1>3 DEF CountedInv, OneAtATime, CountsTrue
  <1>5. \A n \in Messages : Returning(n)' => n = h
    BY <1>1, <1>2, <1>4, SettleReturns DEF Settlements
  <1>6. Limit' = Limit /\ \A n \in Messages : (Coming(n)' <=> Coming(n)) /\ Tries(n)' = Tries(n)
    BY <1>1 DEF Limit, Coming, Tries
  <1>7. CountedOnce'
    BY <1>1 DEF CountedInv, CountedOnce
  <1>8. OneAtATime'
    BY <1>3, <1>4, <1>6 DEF OneAtATime
  <1>9. CountsTrue'
    BY <1>1, <1>3, <1>4, <1>5, <1>6 DEF CountedInv, CountsTrue
  <1>10. QED
    BY <1>1, <1>7, <1>8, <1>9 DEF CountedInv

\* A retry on a classic queue: a copy that counts one more.
LEMMA RepublishKeeps ==
  ASSUME TypeOK, AtWork, CountedInv, cfg.declared = cfg.quorum, Republish PROVE CountedInv'
  <1>1. /\ pc = "retry" /\ ~cfg.quorum /\ pc' = "republished" /\ UNCHANGED <<cfg, attempts, batch>>
        /\ Working /\ ~Working'
    BY DEF Republish, GoTo, history, Working
  <1>2. PICK h \in Messages : h = Head(batch)
    BY <1>1, AtHand
  <1>3. PICK c \in Messages : Copy(h, c) /\ Sends(PublishChannel, "publish", c)
    BY <1>2 DEF Republish
  <1>4. /\ attempts[1] = Tries(h) + 1 /\ Tries(h) < Limit /\ header = 0 /\ msg[h].origin = 1
        /\ \A n \in Messages : ~Returning(n) /\ ~Coming(n)
    BY <1>1, <1>2 DEF CountedInv, OneAtATime, CountsTrue
  <1>5. msg[h].count = 0 /\ msg[h].retries \in Nat
    BY <1>1, RetryFacts DEF CountedInv, CountedOnce
  <1>6. /\ msg'[c].place = "sent" /\ msg'[c].origin = 1 /\ msg'[c].retries = msg[h].retries + 1
        /\ msg'[c].stamp = 0 /\ msg'[c].count = 0
        /\ \A n \in Messages : n # c => msg'[n] = msg[n]
    BY <1>3, <1>4 DEF Copy, getRetryCount, TypeOK, QueueTyped
  <1>7. Tries(c)' = Tries(h) + 1 /\ \A n \in Messages : Coming(n)' => n = c
    BY <1>4, <1>5, <1>6 DEF Tries, Coming
  <1>8. AddsFrame(PublishChannel, [op |-> "publish", m |-> c])
    <2>1. PublishChannel \in Channels
      BY DEF PublishChannel, Channels
    <2>2. QED
      BY <1>3, <2>1, SendsAdds DEF TypeOK
  <1>9. \A n \in Messages : ~Returning(n)'
    <2>1. PublishChannel \in Channels
      BY DEF PublishChannel, Channels
    <2>2. QED
      BY <1>4, <1>8, <2>1, FrameReturns
  <1>10. Limit' = Limit
    BY <1>1 DEF Limit
  <1>11. CountedOnce'
    BY <1>1, <1>6 DEF CountedInv, CountedOnce
  <1>12. OneAtATime'
    BY <1>1, <1>7, <1>9 DEF OneAtATime
  <1>13. CountsTrue'
    <2>1. Tries(h) \in Nat /\ Limit \in Nat /\ attempts[1] \in Nat
      BY RetryFacts
    <2>2. \A m \in Messages : Coming(m)' => attempts'[1] = Tries(m)' /\ Tries(m)' <= Limit'
      BY <1>1, <1>4, <1>7, <1>10, <2>1
    <2>3. attempts'[1] <= Limit' + 1 /\ \A o \in Originals : o # 1 => attempts'[o] = 0
      BY <1>1, <1>10 DEF CountedInv, CountsTrue
    <2>4. QED
      BY <1>1, <1>9, <2>2, <2>3 DEF CountsTrue
  <1>14. QED
    BY <1>1, <1>11, <1>12, <1>13 DEF CountedInv

\* The handler runs once more, for a message that has counted the runs before.
LEMMA DeliverKeeps ==
  ASSUME TypeOK, AtWork, CountedInv, ~cfg.batch, NEW m \in Messages, Deliver(m) PROVE CountedInv'
  <1>1. /\ pc = "idle" /\ batch = <<>> /\ pc' = "decode" /\ UNCHANGED <<cfg, wire>> /\ msg[m].place = "ready"
        /\ batch' = Append(batch, m) /\ header' = DeliveryCount(m)
        /\ attempts' = [attempts EXCEPT ![msg[m].origin] = @ + 1]
    BY DEF Deliver, AtWork
  <1>2. Head(batch') = m /\ Working' /\ Coming(m) /\ Limit' = Limit
    BY <1>1 DEF Working, Coming, Limit
  <1>3. /\ msg[m].origin = 1 /\ attempts[1] = Tries(m) /\ Tries(m) <= Limit
        /\ \A n \in Messages : (Coming(n) => n = m) /\ ~Returning(n)
    BY <1>1, <1>2 DEF CountedInv, CountedOnce, OneAtATime, CountsTrue
  <1>4. /\ \A n \in Messages : /\ msg'[n].origin = msg[n].origin /\ msg'[n].count = msg[n].count
                               /\ msg'[n].retries = msg[n].retries /\ msg'[n].stamp = msg[n].stamp
                               /\ n # m => msg'[n].place = msg[n].place
        /\ msg'[m].place \in {"acked", "out"}
    BY DEF Deliver, TypeOK, QueueTyped, MessageRecords
  <1>5. \A n \in Messages : ~Coming(n)' /\ (Returning(n)' <=> Returning(n)) /\ Tries(n)' = Tries(n)
    BY <1>1, <1>3, <1>4 DEF Coming, Returning, Tries
  <1>6. 1 \in Originals /\ attempts[1] \in Nat /\ Limit \in Nat
    BY RetryFacts
  <1>7. attempts'[1] = attempts[1] + 1 /\ \A o \in Originals : o # 1 => attempts'[o] = attempts[o]
    BY <1>1, <1>3, <1>6 DEF TypeOK, RestTyped
  <1>8. header' = IF cfg.quorum THEN msg[m].count ELSE 0
    <2>1. msg[m].stamp = 0 /\ msg[m].count \in Nat
      BY RetryFacts DEF CountedInv, CountedOnce
    <2>2. QED
      BY <1>1, <2>1 DEF DeliveryCount
  <1>9. CountedOnce'
    BY <1>1, <1>3, <1>4 DEF CountedInv, CountedOnce
  <1>10. OneAtATime'
    BY <1>3, <1>5 DEF OneAtATime
  <1>11. CountsTrue'
    <2>1. Tries(Head(batch))' = Tries(m)
      BY <1>2, <1>5 DEF Tries
    <2>2. /\ msg'[Head(batch')].origin = 1
          /\ header' = IF cfg'.quorum THEN msg'[Head(batch')].count ELSE 0
          /\ attempts'[1] = Tries(Head(batch))' + 1 /\ Tries(Head(batch))' <= Limit'
      BY <1>1, <1>2, <1>3, <1>4, <1>7, <1>8, <2>1
    <2>3. attempts'[1] <= Limit' + 1 /\ \A o \in Originals : o # 1 => attempts'[o] = 0
      BY <1>2, <1>3, <1>6, <1>7 DEF CountedInv, CountsTrue
    <2>4. QED
      BY <1>1, <1>3, <1>5, <2>2, <2>3 DEF CountsTrue
  <1>12. QED
    BY <1>1, <1>9, <1>10, <1>11 DEF CountedInv

\* The broker counts a redelivery.
LEMMA BrokerCounts ==
  ASSUME TypeOK, NEW c \in Channels, BrokerHandles(c)
  PROVE  LET f == wire[c][1] IN
           \A n \in Messages : /\ msg'[n].retries = msg[n].retries /\ msg'[n].stamp = msg[n].stamp
                               /\ msg'[n].count = IF f.op = "requeue" /\ n = f.m THEN msg[n].count + 1 ELSE msg[n].count
  <1> DEFINE f == wire[c][1]
  <1>1. Head(wire[c]) = f /\ f.m \in Messages /\ f.op \in {"ack", "drop", "requeue", "publish"}
    <2>1. wire[c] \in Seq(Frames) /\ wire[c] # <<>>
      BY DEF TypeOK, WireTyped, BrokerHandles
    <2>2. Head(wire[c]) = f /\ f \in Frames
      BY <2>1
    <2>3. QED
      BY <2>2 DEF Frames, Settlements
  <1>2. msg \in [Messages -> MessageRecords] /\ \A n \in Messages : msg[n].count \in Nat
    BY RetryFacts DEF TypeOK, QueueTyped
  <1>3. CASE f.op = "requeue"
    <2>1. msg' = [msg EXCEPT ![f.m].place = "ready", ![f.m].count = @ + 1]
      BY <1>1, <1>3 DEF BrokerHandles
    <2>2. QED
      BY <1>1, <1>2, <1>3, <2>1 DEF MessageRecords
  <1>4. CASE f.op # "requeue"
    <2>1. \E p \in Places : msg' = [msg EXCEPT ![f.m].place = p]
      BY <1>1, <1>4 DEF BrokerHandles, Places
    <2>2. QED
      BY <1>1, <1>2, <1>4, <2>1 DEF MessageRecords
  <1>5. QED
    BY <1>3, <1>4

LEMMA HandlingCounts ==
  ASSUME TypeOK, AtWork, OnceInv, CountedInv, NEW c \in Channels, BrokerHandles(c) PROVE CountedInv'
  <1> DEFINE f == wire[c][1]
  <1>1. HandlesFirst(c) /\ UNCHANGED <<cfg, pc, batch, header, attempts>>
    BY BrokerHandlesFirst DEF TypeOK, BrokerHandles, worker, history
  <1>2. PICK x \in Messages, op \in {"ack", "drop", "requeue", "publish"} : x = f.m /\ op = f.op
    BY <1>1 DEF HandlesFirst, Frames, Settlements
  <1>3. /\ \A n \in Messages :
             /\ msg'[n].origin = msg[n].origin /\ (n # x => msg'[n].place = msg[n].place)
             /\ msg'[n].retries = msg[n].retries /\ msg'[n].stamp = msg[n].stamp
             /\ msg'[n].count = IF op = "requeue" /\ n = x THEN msg[n].count + 1 ELSE msg[n].count
        /\ msg'[x].place = PlaceAfter(op)
    BY <1>1, <1>2, BrokerCounts DEF HandlesFirst
  <1>4. PICK after : after = PlaceAfter(op)
    OBVIOUS
  <1>5. /\ op = "ack" => after = "acked"
        /\ op = "drop" => after = "dropped"
        /\ op \in {"requeue", "publish"} => after = "ready"
    BY <1>4 DEF PlaceAfter
  <1>6. /\ 1 \in 1 .. Len(wire[c])
        /\ \A d \in Channels : \A i \in 1 .. Len(wire'[d]) :
             \E j \in 1 .. Len(wire[d]) : wire'[d][i] = wire[d][j] /\ (d = c => j # 1)
    <2>1. Len(wire[c]) \in Nat /\ Len(wire[c]) >= 1 /\ Len(wire'[c]) = Len(wire[c]) - 1
      BY <1>1, LenNat DEF HandlesFirst, TypeOK
    <2>2. ASSUME NEW i \in 1 .. Len(wire'[c])
          PROVE  \E j \in 1 .. Len(wire[c]) : wire'[c][i] = wire[c][j] /\ j # 1
      <3>1. i + 1 \in 1 .. Len(wire[c]) /\ i + 1 # 1 /\ wire'[c][i] = wire[c][i + 1]
        BY <1>1, <2>1 DEF HandlesFirst
      <3>2. QED
        BY <3>1
    <2>3. \A d \in Channels : d # c => wire'[d] = wire[d]
      BY <1>1 DEF HandlesFirst
    <2>4. ASSUME NEW d \in Channels, d # c, NEW i \in 1 .. Len(wire'[d])
          PROVE  \E j \in 1 .. Len(wire[d]) : wire'[d][i] = wire[d][j]
      BY <2>3, <2>4
    <2>5. 1 \in 1 .. Len(wire[c])
      BY <2>1
    <2>6. ASSUME NEW d \in Channels, NEW i \in 1 .. Len(wire'[d])
          PROVE  \E j \in 1 .. Len(wire[d]) : wire'[d][i] = wire[d][j] /\ (d = c => j # 1)
      <3>1. CASE d = c
        BY <2>2, <3>1
      <3>2. CASE d # c
        BY <2>4, <3>2
      <3>3. QED
        BY <3>1, <3>2
    <2>7. QED
      BY <2>5, <2>6
  <1>7. \A n \in Messages : Returning(n)' => Returning(n) /\ n # x
    <2>1. SUFFICES ASSUME NEW n \in Messages, NEW d \in Channels, NEW i \in 1 .. Len(wire'[d]),
                          wire'[d][i].op = "requeue", wire'[d][i].m = n
                   PROVE  Returning(n) /\ n # x
      BY DEF Returning
    <2>2. PICK j \in 1 .. Len(wire[d]) : wire'[d][i] = wire[d][j] /\ (d = c => j # 1)
      BY <1>6
    <2>3. Returning(n)
      BY <2>1, <2>2 DEF Returning
    <2>4. n # x
      BY <1>2, <1>6, <2>1, <2>2 DEF OnceInv, FramesDistinct
    <2>5. QED
      BY <2>3, <2>4
  <1>8. /\ op = "publish" => msg[x].place = "sent"
        /\ op # "publish" => msg[x].place = "out"
        /\ op = "requeue" => Returning(x)
    BY <1>2, <1>6 DEF OnceInv, FramesTrue, Returning
  <1>9. Limit' = Limit /\ (Working' <=> Working)
    BY <1>1 DEF Limit, Working
  <1>10. CASE op = "requeue"
    <2>1. /\ cfg.quorum /\ attempts[1] = Tries(x) + 1 /\ Tries(x) < Limit /\ ~Working
          /\ \A n \in Messages : ~Coming(n)
      BY <1>8, <1>10 DEF CountedInv, OneAtATime, CountsTrue
    <2>2. x = 1 /\ \A n \in Messages : n # x => msg[n].place = "unused"
      BY <1>8, <1>10, <2>1 DEF CountedInv, CountedOnce
    <2>3. \A n \in Messages : ~Returning(n)'
      <3>1. \A n \in Messages : Returning(n) => msg[n].place = "out"
        BY DEF Returning, OnceInv, FramesTrue
      <3>2. QED
        BY <1>7, <2>2, <3>1
    <2>4. \A n \in Messages : Coming(n)' => n = x
      BY <1>3, <2>1 DEF Coming
    <2>5. Tries(x)' = Tries(x) + 1
      BY <1>3, <1>10, RetryFacts DEF Tries
    <2>6. CountedOnce'
      BY <1>1, <1>3, <1>4, <1>5, <1>8, <1>10, <2>1, <2>2 DEF CountedInv, CountedOnce
    <2>7. OneAtATime'
      BY <1>9, <2>1, <2>3, <2>4 DEF OneAtATime
    <2>8. CountsTrue'
      <3>1. Tries(x) \in Nat /\ Limit \in Nat
        BY RetryFacts
      <3>2. \A m \in Messages : Coming(m)' => attempts'[1] = Tries(m)' /\ Tries(m)' <= Limit'
        BY <1>1, <1>9, <2>1, <2>4, <2>5, <3>1
      <3>3. attempts'[1] <= Limit' + 1 /\ \A o \in Originals : o # 1 => attempts'[o] = 0
        BY <1>1, <1>9 DEF CountedInv, CountsTrue
      <3>4. QED
        BY <1>9, <2>1, <2>3, <3>2, <3>3 DEF CountsTrue
    <2>9. QED
      BY <1>1, <2>6, <2>7, <2>8 DEF CountedInv
  <1>11. CASE op # "requeue"
    <2>1. \A n \in Messages : (Coming(n)' => Coming(n)) /\ Tries(n)' = Tries(n)
      BY <1>3, <1>4, <1>5, <1>8, <1>11 DEF Coming, Tries
    <2>2. CountedOnce'
      <3>1. \A n \in Messages : msg'[n].place # "unused" => msg[n].place # "unused"
        BY <1>3, <1>8
      <3>2. \A n \in Messages : msg'[n].place = "sent" => msg[n].place = "sent"
        BY <1>3, <1>4, <1>5
      <3>3. QED
        BY <1>1, <1>3, <1>11, <3>1, <3>2 DEF CountedInv, CountedOnce
    <2>3. OneAtATime'
      BY <1>7, <1>9, <2>1 DEF CountedInv, OneAtATime
    <2>4. CountsTrue'
      <3>1. ASSUME Working'
            PROVE  /\ msg'[Head(batch')].origin = 1
                   /\ header' = IF cfg'.quorum THEN msg'[Head(batch')].count ELSE 0
                   /\ attempts'[1] = Tries(Head(batch))' + 1 /\ Tries(Head(batch))' <= Limit'
                   /\ pc' \in {"backoff", "retry"} => Tries(Head(batch))' < Limit'
        <4>1. Working /\ pc # "idle"
          BY <1>9, <3>1 DEF Working
        <4>2. PICK h \in Messages : h = Head(batch)
          BY <4>1, AtHand
        <4>3. /\ msg[h].origin = 1 /\ header = IF cfg.quorum THEN msg[h].count ELSE 0
              /\ attempts[1] = Tries(h) + 1 /\ Tries(h) <= Limit
              /\ pc \in {"backoff", "retry"} => Tries(h) < Limit
          BY <4>1, <4>2 DEF CountedInv, CountsTrue
        <4>4. Tries(Head(batch))' = Tries(h)
          BY <1>1, <2>1, <4>2 DEF Tries
        <4>5. QED
          BY <1>1, <1>3, <1>9, <1>11, <4>2, <4>3, <4>4
      <3>2. /\ \A m \in Messages : Coming(m)' => attempts'[1] = Tries(m)' /\ Tries(m)' <= Limit'
            /\ \A m \in Messages : Returning(m)' =>
                 cfg'.quorum /\ attempts'[1] = Tries(m)' + 1 /\ Tries(m)' < Limit'
            /\ attempts'[1] <= Limit' + 1 /\ \A o \in Originals : o # 1 => attempts'[o] = 0
        BY <1>1, <1>7, <1>9, <2>1 DEF CountedInv, CountsTrue
      <3>3. QED
        BY <3>1, <3>2 DEF CountsTrue
    <2>5. QED
      BY <1>1, <2>2, <2>3, <2>4 DEF CountedInv
  <1>12. QED
    BY <1>10, <1>11

LEMMA RetriesKept ==
  ASSUME TypeOK, AtWork, OnceInv, RetryInv, [Next]_vars PROVE RetryInv'
  <1>1. CASE UNCHANGED vars
    BY <1>1 DEF vars, channels, history, worker, RetryInv, FailuresOnly, CountedInv, CountedOnce, OneAtATime,
       CountsTrue, Coming, Returning, Working, Tries, Limit
  <1>2. CASE Next
    <2>1. cfg' = cfg /\ (disturbed => disturbed' = TRUE)
      BY <1>2, DisturbedStays
    <2>2. SUFFICES ASSUME FailuresOnly' PROVE CountedInv'
      BY <2>1 DEF RetryInv
    <2>3. CountedInv /\ ~cfg.batch /\ cfg.maxRetries > 0 /\ cfg.declared = cfg.quorum /\ ~disturbed'
      BY <2>1, <2>2 DEF RetryInv, FailuresOnly
    <2>4. CASE RetryOnQuorum
      BY <2>3, <2>4, RequeueKeeps
    <2>5. CASE Republish
      BY <2>3, <2>5, RepublishKeeps
    <2>6. CASE Process /\ ~RetryOnQuorum /\ ~Republish
      BY <2>3, <2>6, ProcessingGoesOn, GoingOnKeeps
    <2>7. CASE ProcessBatch
      <3>1. ~ProcessBatch
        BY <2>3 DEF ProcessBatch, BatchDecode, BatchStarts, BatchReturns, BatchPanics, BatchSettles,
           BatchDone, AtWork, CountedInv
      <3>2. QED
        BY <2>7, <3>1
    <2>8. ASSUME NEW m \in Messages, Deliver(m) PROVE CountedInv'
      BY <2>3, <2>8, DeliverKeeps
    <2>9. CASE Resubscribe
      <3>1. WorkerGoesOn
        BY <2>9 DEF Resubscribe, worker, history, WorkerGoesOn, Returning
      <3>2. QED
        BY <2>3, <3>1, GoingOnKeeps
    <2>10. ASSUME NEW op \in Settlements, SettleManually(op) PROVE CountedInv'
      BY <2>3, <2>10 DEF SettleManually
    <2>11. ASSUME NEW c \in Channels, BrokerHandles(c) PROVE CountedInv'
      BY <2>3, <2>11, HandlingCounts
    <2>12. ASSUME NEW c \in Channels, ChannelDies(c) PROVE CountedInv'
      BY <2>3, <2>12 DEF ChannelDies
    <2>13. QED
      BY <1>2, <2>4, <2>5, <2>6, <2>7, <2>8, <2>9, <2>10, <2>11, <2>12 DEF Next
  <1>3. QED
    BY <1>1, <1>2

LEMMA RetriesStart == Init => RetryInv
  <1> SUFFICES ASSUME Init PROVE RetryInv
    OBVIOUS
  <1>1. cfg \in Configurations /\ (cfg.batch => cfg.maxRetries = 0)
    BY DEF Init
  <1>2. 1 \in Originals /\ cfg.maxRetries \in Nat /\ Limit \in Nat
    BY <1>1, SettlementAssumption DEF Originals, Configurations, Limit
  <1>3. SUFFICES ASSUME cfg.maxRetries > 0 PROVE ~cfg.batch /\ CountedInv
    BY DEF RetryInv, FailuresOnly
  <1>4. ~cfg.batch
    BY <1>1, <1>2, <1>3
  <1>5. \A m \in Messages : /\ msg[m].place = IF m = 1 THEN "ready" ELSE "unused"
                            /\ msg[m].retries = 0 /\ msg[m].stamp = 0 /\ msg[m].count = 0
                            /\ m = 1 => msg[m].origin = 1
    BY <1>2, <1>4 DEF Init
  <1>6. \A m \in Messages : ~Returning(m)
    BY DEF Init, Returning
  <1>7. pc = "idle" /\ \A o \in Originals : attempts[o] = 0
    BY DEF Init
  <1>8. CountedOnce
    BY <1>5 DEF CountedOnce
  <1>9. OneAtATime
    BY <1>5, <1>6, <1>7 DEF OneAtATime, Coming, Working
  <1>10. CountsTrue
    BY <1>2, <1>5, <1>6, <1>7 DEF CountsTrue, Coming, Working, Tries
  <1>11. QED
    BY <1>4, <1>7, <1>8, <1>9, <1>10 DEF CountedInv

-----------------------------------------------------------------------------
\* The inductive invariant.
SettlementInv == TypeOK /\ AtWork /\ PanicErrs /\ OkHandled /\ OnceInv /\ LossInv

LEMMA InitInv == Init => SettlementInv
  <1> SUFFICES ASSUME Init PROVE SettlementInv
    OBVIOUS
  <1> USE SettlementAssumption
  <1>1. 1 \in Originals /\ 1 \in Messages /\ Originals \subseteq Messages
    BY DEF Originals, Messages
  <1>2. QueueTyped
    <2>1. PICK e \in Encodings :
            msg = [m \in Messages |->
               [place |-> IF m = 1 \/ (cfg.batch /\ m \in Originals) THEN "ready" ELSE "unused",
                origin |-> IF m \in Originals THEN m ELSE 1,
                encoding |-> IF m = 1 THEN e ELSE "plain",
                retries |-> 0, stamp |-> 0, count |-> 0]]
      BY DEF Init
    <2>2. msg \in [Messages -> MessageRecords]
      BY <1>1, <2>1 DEF MessageRecords, Places, Encodings
    <2>3. QED
      BY <2>2 DEF Init, QueueTyped
  <1>3. WireTyped
    <2>1. <<>> \in Seq(Frames)
      OBVIOUS
    <2>2. QED
      BY <2>1 DEF Init, WireTyped
  <1>4. WorkerTyped
    <2>1. <<>> \in Seq(Messages) /\ <<>> \in Seq(Outcomes)
      OBVIOUS
    <2>2. pc \in PCs /\ header \in Nat /\ batch \in Seq(Messages) /\ results \in Seq(Outcomes)
      BY <2>1 DEF Init, PCs
    <2>3. panicked \in BOOLEAN
      BY DEF Init
    <2>4. QED
      BY <2>2, <2>3 DEF WorkerTyped
  <1>5. RestTyped
    <2>1. open \in [Channels -> BOOLEAN] /\ deaths \in 0 .. MaxDeaths
      BY DEF Init
    <2>2. handled \subseteq Originals /\ attempts \in [Originals -> 0 .. MaxAttempts]
      BY DEF Init
    <2>3. disturbed \in BOOLEAN
      BY DEF Init
    <2>4. QED
      BY <2>1, <2>2, <2>3 DEF RestTyped
  <1>6. AtWork /\ PanicErrs /\ OkHandled
    BY DEF Init, AtWork, PanicErrs, OkHandled
  <1>7. \A c \in Channels : Len(wire[c]) = 0
    BY DEF Init
  <1>8. Held = {}
    BY DEF Init, Held
  <1>9. OnceInv
    BY <1>7, <1>8 DEF OnceInv, FramesTrue, FramesDistinct, HeldIsOut
  <1>10. LossInv
    <2>1. \A m \in Messages : msg[m].place \in {"ready", "unused"}
      BY DEF Init
    <2>2. Len(W) = 0
      BY <1>7 DEF W, Channels
    <2>3. AckBacked /\ SentBacked /\ SentOnWire /\ HeldBacked
      BY <1>8, <2>1, <2>2 DEF AckBacked, SentBacked, SentOnWire, HeldBacked
    <2>4. CopyBacked
      BY DEF Init, CopyBacked
    <2>5. NotLost
      BY <2>1 DEF NotLost, Kept
    <2>6. QED
      BY <2>3, <2>4, <2>5 DEF LossInv, BackedInv
  <1>11. QED
    BY <1>2, <1>3, <1>4, <1>5, <1>6, <1>9, <1>10 DEF SettlementInv, TypeOK

LEMMA StepInv == SettlementInv /\ [Next]_vars => SettlementInv'
  <1> SUFFICES ASSUME SettlementInv, [Next]_vars PROVE SettlementInv'
    OBVIOUS
  <1>1. StepKind
    BY StepKinds DEF SettlementInv
  <1>2. TypeOK'
    BY <1>1, WireTypes, WorkerTypes, RestTypes DEF SettlementInv, TypeOK
  <1>3. AtWork' /\ PanicErrs' /\ OkHandled'
    BY WorkerAtWork, PanicLeavesErrors, OkIsHandled DEF SettlementInv, TypeOK
  <1>4. OnceInv'
    BY <1>1, OnceKept DEF SettlementInv
  <1>5. LossInv'
    BY <1>1, LossKept DEF SettlementInv
  <1>6. QED
    BY <1>2, <1>3, <1>4, <1>5 DEF SettlementInv

\* What the worker, the wires and the queue go through in every behaviour.
THEOREM SettlementInvariant == Spec => []SettlementInv
  <1>1. QED
    BY InitInv, StepInv, PTL DEF Spec

\* However handler and library compete to settle a delivery (Delivery.trySettle), one frame goes
\* out for it, while the broker waits for one.
THEOREM SettlesOnce == Spec => []SettledOnce
  <1>1. SettlementInv => SettledOnce
    BY OnceSettles DEF SettlementInv, TypeOK, OnceInv
  <1>2. QED
    BY <1>1, SettlementInvariant, PTL

\* Without autoAck, and with retries published on the channel of the deliveries, no failure, retry
\* or dying channel makes a message disappear that nobody answered for.
THEOREM LosesNothing == Spec => []NotLost
  <1>1. SettlementInv => NotLost
    BY DEF SettlementInv, LossInv, Manual, BackedInv, NotLost
  <1>2. QED
    BY <1>1, SettlementInvariant, PTL

\* processBatch acknowledges nothing of a batch whose handler panicked.
THEOREM PanicIsNoAck == Spec => PanicAcksNothing
  <1>1. SettlementInv /\ [Next]_vars => PanicQuiet
    BY PanicStep DEF SettlementInv, TypeOK
  <1>2. SettlementInv /\ [Next]_vars =>
          [panicked /\ Len(batch') < Len(batch) /\ wire' # wire
             => LET w == wire'["deliveries"] IN w[Len(w)].op # "ack"]_vars
    BY <1>1 DEF PanicQuiet
  <1>3. QED
    BY <1>2, SettlementInvariant, PTL DEF Spec, PanicAcksNothing

\* The types, the counting invariant and FailuresOnly bound the handler's runs (RetryInv).
LEMMA RunsWithinLimit ==
  ASSUME SettlementInv, RetryInv, FailuresOnly, NEW o \in Originals
  PROVE  attempts[o] <= cfg.maxRetries + (IF cfg.quorum THEN 2 ELSE 1)
  <1>1. /\ attempts[1] <= Limit + 1 /\ (o # 1 => attempts[o] = 0)
        /\ cfg.maxRetries \in Nat /\ attempts[1] \in Nat /\ cfg.quorum \in BOOLEAN
    BY RetryFacts DEF SettlementInv, RetryInv, CountedInv, CountsTrue
  <1>2. QED
    BY <1>1 DEF Limit

LEMMA RetryInvariant == Spec => [](SettlementInv /\ RetryInv)
  <1>1. SettlementInv /\ RetryInv /\ [Next]_vars => RetryInv'
    BY RetriesKept DEF SettlementInv
  <1>2. QED
    BY <1>1, RetriesStart, SettlementInvariant, PTL DEF Spec

\* However often a handler fails, and whatever becomes of the copies in between, failures alone
\* make it run at most maxRetries + 1 times for a message of a classic queue
\* (handleProcessingError, republishWithRetry, getRetryCount).
THEOREM RetriesAreBounded == Spec => []ClassicRetriesBounded
  <1>1. SettlementInv /\ RetryInv => ClassicRetriesBounded
    BY RunsWithinLimit DEF ClassicRetriesBounded, RetriesBounded
  <1>2. QED
    BY <1>1, RetryInvariant, PTL

\* A quorum queue breaks the promised bound (RetriesBounded) by one run and never by more: only
\* the first requeue is not counted.
THEOREM ExcessIsOneRun ==
  Spec => [](FailuresOnly => \A o \in Originals : attempts[o] <= cfg.maxRetries + 2)
  <1>1. SettlementInv /\ RetryInv => (FailuresOnly => \A o \in Originals : attempts[o] <= cfg.maxRetries + 2)
    <2> SUFFICES ASSUME SettlementInv, RetryInv, FailuresOnly, NEW o \in Originals
                 PROVE  attempts[o] <= cfg.maxRetries + 2
      OBVIOUS
    <2>1. attempts[o] \in Nat /\ cfg.maxRetries \in Nat
      BY RetryFacts DEF SettlementInv
    <2>2. QED
      BY <2>1, RunsWithinLimit
  <1>2. QED
    BY <1>1, RetryInvariant, PTL
=============================================================================
