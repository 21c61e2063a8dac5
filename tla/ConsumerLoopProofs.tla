------------------------- MODULE ConsumerLoopProofs -------------------------
(***************************************************************************)
(* The type invariant and the safety properties of ConsumerLoop, for any   *)
(* workers, channels and pools of channels.                                *)
(***************************************************************************)
EXTENDS ConsumerLoop, TLAPS

\* The loop has workers, or may have.
WithWorkers == {"spawned", "wait", "signalled", "drainStop", "drainClosed"}

\* A stop that was heard is still signalled while the loop listens, and the loop goes only on
\* to its end.
StopHeard ==
  /\ heard \in BOOLEAN /\ stopClosed \in BOOLEAN
  /\ heard => loop \in Listening \cup {"drainStop", "batchStopped", "batchBroken",
                                       "ending", "failed", "unlock", "idle"}
  /\ heard /\ loop \in Listening => stopClosed

\* Workers begin with a cycle and end before it does, and before a heard Close goes on.
CyclesInv ==
  /\ loop \notin WithWorkers => WorkersOff
  /\ heard /\ (closer = "closeChannel" \/ ~consuming) => WorkersOff
  /\ closer \in {"stop", "waitWorkers"} => consuming

\* Where a call with ChannelPerWorker may be.
OwnLoop ==
  mode = "own" => loop \in {"idle", "reset", "resetOnce", "spawn", "spawned", "wait",
                            "drainStop", "ending", "unlock"}

\* In the own mode an active subscription has its worker at its deliveries.
ActiveServed ==
  mode = "own" => \A s \in Subs : health.subs[s].active =>
                                    worker[s].pc \in {"run", "busy", "leave", "lost"}

\* Whose channel is whose. Outside the shared mode every subscription is made on a channel
\* just opened, so that a notice on its way is about a channel that is live no more.
ChannelsApart ==
  /\ ch \in ConsumerPool /\ batchCh \in Pool[0] \cup {NoChan}
  /\ loop = "batchSubscribe" => /\ batchCh \in Pool[0] /\ ~chans[batchCh].notice
                                /\ chans[batchCh].state \in {"idle", "dead"}
  /\ \A c \in Chans \ ConsumerPool : chans[c].notice => chans[c].state # "live"

\* A worker with a channel of its own keeps to its pool; the record knows its live channel.
WorkersApart ==
  /\ mode # "own" => \A w \in Workers : worker[w].pc \in {"off", "run", "busy"}
  /\ mode = "own" => \A w \in Workers :
       LET c == worker[w].ch IN
         /\ worker[w].pc \in {"subscribe", "consumed", "run", "busy", "leave",
             "lost"} => c \in Pool[w]
         /\ worker[w].pc = "subscribe" => chans[c].state \in {"idle", "dead"} /\ ~chans[c].notice
         /\ worker[w].pc \in {"run", "busy"} /\ chans[c].state = "live" =>
              health.subs[w].active /\ health.subs[w].ch = c

-----------------------------------------------------------------------------
\* Each method of the record leaves a record.
LEMMA RecordKept ==
  ASSUME NEW h \in HealthRecord, NEW s, NEW c \in Chans \cup {NoChan}, NEW clean \in BOOLEAN
  PROVE  /\ HealthBegin(h) \in HealthRecord
         /\ HealthEnd(h, clean) \in HealthRecord
         /\ HealthSubscribed(h, s, c) \in HealthRecord
         /\ HealthClosed(h, s) \in HealthRecord
         /\ HealthFailed(h, s) \in HealthRecord
         /\ HealthCancelled(h, s, c) \in HealthRecord
  <1> USE DEF HealthRecord
  <1>1. HealthBegin(h) \in HealthRecord
    BY DEF HealthBegin, NoSub
  <1>2. HealthEnd(h, clean) \in HealthRecord
    BY DEF HealthEnd
  <1>3. HealthSubscribed(h, s, c) \in HealthRecord
    BY DEF HealthSubscribed
  <1>4. HealthClosed(h, s) \in HealthRecord
    BY DEF HealthClosed
  <1>5. HealthFailed(h, s) \in HealthRecord
    BY DEF HealthFailed
  <1>6. HealthCancelled(h, s, c) \in HealthRecord
    <2>1. CASE h.subs[s].ch # c
      BY <2>1 DEF HealthCancelled
    <2>2. CASE h.subs[s].ch = c
      <3>1. HealthCancelled(h, s, c) = [h EXCEPT !.subs[s].active = FALSE,
          !.subs[s].cancelled = TRUE]
        BY <2>2 DEF HealthCancelled
      <3>2. [h EXCEPT !.subs[s].active = FALSE, !.subs[s].cancelled = TRUE] \in HealthRecord
        OBVIOUS
      <3>3. QED
        BY <3>1, <3>2
    <2>3. QED
      BY <2>1, <2>2
  <1>7. QED
    BY <1>1, <1>2, <1>3, <1>4, <1>5, <1>6

\* A worker's channel is one the call gave it.
LEMMA WorkerTypes ==
  ASSUME TypeOK, [Next]_vars
  PROVE  WorkersTyped'
  <1>1. \/ UNCHANGED <<worker>>
        \/ SpawnWorkers \/ (\E w \in Workers : StreamEnds(w)) \/ (\E w \in Workers : Receive(w))
        \/ (\E w \in Workers : HandlerReturns(w)) \/ (\E w \in Workers : WorkerStops(w))
        \/ (\E w \in Workers : OwnOpen(w)) \/ (\E w \in Workers : OwnOpenFails(w))
        \/ (\E w \in Workers : OwnSubscribe(w)) \/ (\E w \in Workers : OwnSubscribeFails(w))
        \/ (\E w \in Workers : OwnRecord(w)) \/ (\E w \in Workers : OwnLeave(w))
        \/ (\E w \in Workers : OwnDelay(w)) \/ (\E w \in Workers : OwnStops(w))
    <2>1. ASSUME LoopNext
         PROVE  \/ UNCHANGED <<worker>>
                \/ SpawnWorkers
      BY <2>1 DEF LoopNext, Top, EnsureChannel, EnsureFails, Delay, Subscribe,
         SubscribeFails, RecordSubscribed, ResetStopCh, ResetStopOnce, Listen,
         StopRequested, ChannelSignalled, Drained, End, Return, LoopStep, SignalStop,
         callVars, closeVars, stopVars
    <2>2. ASSUME BatchNext
         PROVE  \/ UNCHANGED <<worker>>
      BY <2>2 DEF BatchNext, BatchOpen, BatchOpenFails, BatchSubscribe,
         BatchSubscribeFails, BatchRecord, BatchDue, BatchStops, BatchBreaks,
         BatchProcessed, BatchStep, callVars, closeVars, stopVars
    <2>3. ASSUME CloseNext
         PROVE  \/ UNCHANGED <<worker>>
      BY <2>3 DEF CloseNext, Close, CloseSignals, CloseWaited, CloseChannel, CloseStep,
         SignalStop, callVars, closeVars, stopVars
    <2>4. ASSUME BrokerNext
         PROVE  \/ UNCHANGED <<worker>>
      BY <2>4 DEF BrokerNext, ChannelDies, BrokerCancels, CancelNoticed, Outside,
         callVars, closeVars, stopVars
    <2>5. ASSUME Consume \/ ConsumeBatch \/ CancelContext
         PROVE  UNCHANGED <<worker>>
      BY <2>5 DEF Consume, ConsumeBatch, CancelContext, Begin, callVars, closeVars,
         stopVars
    <2>6. ASSUME UNCHANGED vars
         PROVE  UNCHANGED <<worker>>
      BY <2>6 DEF vars, callVars, closeVars, stopVars
    <2>7. QED
      BY <2>1, <2>2, <2>3, <2>4, <2>5, <2>6 DEF Next, WorkerNext
  <1>2. CASE UNCHANGED <<worker>>
    BY <1>2 DEF TypeOK, ScalarsTyped, WorkersTyped, WorkerPCs, Workers
  <1> USE DEF TypeOK, ScalarsTyped, WorkersTyped, WorkerPCs, Workers
  <1>3. CASE SpawnWorkers
    BY <1>3 DEF SpawnWorkers, LoopStep, callVars, closeVars, stopVars
  <1>4. ASSUME NEW w \in Workers, StreamEnds(w) PROVE WorkersTyped'
    BY <1>4 DEF StreamEnds, WorkerStep, callVars, closeVars, stopVars
  <1>5. ASSUME NEW w \in Workers, Receive(w) PROVE WorkersTyped'
    BY <1>5 DEF Receive, WorkerStep, callVars, closeVars, stopVars
  <1>6. ASSUME NEW w \in Workers, HandlerReturns(w) PROVE WorkersTyped'
    BY <1>6 DEF HandlerReturns, WorkerStep, callVars, closeVars, stopVars
  <1>7. ASSUME NEW w \in Workers, WorkerStops(w) PROVE WorkersTyped'
    <2>1. CASE mode = "own"
      BY <1>7, <2>1 DEF WorkerStops, WorkerStep
    <2>2. CASE mode # "own"
      BY <1>7, <2>2 DEF WorkerStops, WorkerStep
    <2>3. QED
      BY <2>1, <2>2
  <1>8. ASSUME NEW w \in Workers, OwnOpen(w) PROVE WorkersTyped'
    BY <1>8 DEF OwnOpen, OwnStep, callVars, closeVars, stopVars, Opens
  <1>9. ASSUME NEW w \in Workers, OwnOpenFails(w) PROVE WorkersTyped'
    BY <1>9 DEF OwnOpenFails, OwnStep, callVars, closeVars, stopVars
  <1>10. ASSUME NEW w \in Workers, OwnSubscribe(w) PROVE WorkersTyped'
    BY <1>10 DEF OwnSubscribe, OwnStep, callVars, closeVars, stopVars
  <1>11. ASSUME NEW w \in Workers, OwnSubscribeFails(w) PROVE WorkersTyped'
    BY <1>11 DEF OwnSubscribeFails, OwnStep, callVars, closeVars, stopVars
  <1>12. ASSUME NEW w \in Workers, OwnRecord(w) PROVE WorkersTyped'
    BY <1>12 DEF OwnRecord, OwnStep, callVars, closeVars, stopVars
  <1>13. ASSUME NEW w \in Workers, OwnLeave(w) PROVE WorkersTyped'
    BY <1>13 DEF OwnLeave, OwnStep, callVars, closeVars, stopVars
  <1>14. ASSUME NEW w \in Workers, OwnDelay(w) PROVE WorkersTyped'
    BY <1>14 DEF OwnDelay, OwnStep, callVars, closeVars, stopVars
  <1>15. ASSUME NEW w \in Workers, OwnStops(w) PROVE WorkersTyped'
    BY <1>15 DEF OwnStops, OwnStep, callVars, closeVars, stopVars
  <1>16. QED
    BY <1>1, <1>2, <1>3, <1>4, <1>5, <1>6, <1>7, <1>8, <1>9, <1>10, <1>11, <1>12, <1>13,
       <1>14, <1>15

\* Channels stay channels.
LEMMA ChannelTypes ==
  ASSUME TypeOK, [Next]_vars
  PROVE  ChansTyped'
  <1>1. \/ UNCHANGED <<chans>>
        \/ EnsureChannel \/ Subscribe \/ SubscribeFails \/ Return \/ BatchOpen \/ BatchSubscribe
        \/ BatchSubscribeFails \/ CloseChannel \/ (\E c \in Chans : ChannelDies(c))
        \/ (\E c \in Chans : BrokerCancels(c)) \/ (\E c \in Chans : CancelNoticed(c))
        \/ (\E w \in Workers : OwnOpen(w)) \/ (\E w \in Workers : OwnSubscribe(w))
        \/ (\E w \in Workers : OwnSubscribeFails(w)) \/ (\E w \in Workers : OwnLeave(w))
    <2>1. ASSUME LoopNext
         PROVE  \/ UNCHANGED <<chans>>
                \/ EnsureChannel \/ Subscribe \/ SubscribeFails \/ Return
      BY <2>1 DEF LoopNext, Top, EnsureFails, Delay, RecordSubscribed, ResetStopCh,
         ResetStopOnce, SpawnWorkers, Listen, StopRequested, ChannelSignalled, Drained,
         End, LoopStep, SignalStop, callVars, closeVars, stopVars
    <2>2. ASSUME BatchNext
         PROVE  \/ UNCHANGED <<chans>>
                \/ BatchOpen \/ BatchSubscribe \/ BatchSubscribeFails
      BY <2>2 DEF BatchNext, BatchOpenFails, BatchRecord, BatchDue, BatchStops,
         BatchBreaks, BatchProcessed, BatchStep, callVars, closeVars, stopVars
    <2>3. ASSUME CloseNext
         PROVE  \/ UNCHANGED <<chans>>
                \/ CloseChannel
      BY <2>3 DEF CloseNext, Close, CloseSignals, CloseWaited, CloseStep, SignalStop,
         callVars, closeVars, stopVars
    <2>4. ASSUME NEW v \in Workers, WorkerNext(v)
         PROVE  \/ UNCHANGED <<chans>>
                \/ (\E w \in Workers : OwnOpen(w))
                \/ (\E w \in Workers : OwnSubscribe(w))
                \/ (\E w \in Workers : OwnSubscribeFails(w))
                \/ (\E w \in Workers : OwnLeave(w))
      BY <2>4 DEF WorkerNext, Receive, HandlerReturns, WorkerStops, StreamEnds,
         OwnOpenFails, OwnRecord, OwnDelay, OwnStops, WorkerStep, OwnStep, callVars,
         closeVars, stopVars
    <2>5. ASSUME Consume \/ ConsumeBatch \/ CancelContext
         PROVE  UNCHANGED <<chans>>
      BY <2>5 DEF Consume, ConsumeBatch, CancelContext, Begin, callVars, closeVars,
         stopVars
    <2>6. ASSUME UNCHANGED vars
         PROVE  UNCHANGED <<chans>>
      BY <2>6 DEF vars, callVars, closeVars, stopVars
    <2>7. QED
      BY <2>1, <2>2, <2>3, <2>4, <2>5, <2>6 DEF Next, BrokerNext
  <1>2. CASE UNCHANGED <<chans>>
    BY <1>2 DEF TypeOK, ChansTyped, ChanStates, FreshChannel, NoChannel
  <1> USE DEF TypeOK, ChansTyped, ChanStates, FreshChannel, NoChannel
  <1>3. CASE EnsureChannel
    <2>1. CASE UNCHANGED chans
      BY <2>1
    <2>2. CASE \E c \in Chans : chans' = [chans EXCEPT ![c] = FreshChannel]
      BY <2>2
    <2>3. QED
      BY <1>3, <2>1, <2>2 DEF EnsureChannel, Opens
  <1>4. CASE Subscribe
    BY <1>4 DEF Subscribe, LoopStep, callVars, closeVars, stopVars, Subscribes
  <1>5. CASE SubscribeFails
    BY <1>5 DEF SubscribeFails, LoopStep, callVars, closeVars, stopVars, Refused, Shut
  <1>6. CASE Return
    BY <1>6 DEF Return, closeVars, stopVars
  <1>7. CASE BatchOpen
    BY <1>7 DEF BatchOpen, BatchStep, callVars, closeVars, stopVars, Opens
  <1>8. CASE BatchSubscribe
    BY <1>8 DEF BatchSubscribe, BatchStep, callVars, closeVars, stopVars, Subscribes
  <1>9. CASE BatchSubscribeFails
    BY <1>9 DEF BatchSubscribeFails, BatchStep, callVars, closeVars, stopVars, Refused, Shut
  <1>10. CASE CloseChannel
    BY <1>10 DEF CloseChannel, CloseStep, stopVars, Shut
  <1>11. ASSUME NEW c \in Chans, ChannelDies(c) PROVE ChansTyped'
    BY <1>11 DEF ChannelDies, Outside, callVars, closeVars, stopVars, Shut
  <1>12. ASSUME NEW c \in Chans, BrokerCancels(c) PROVE ChansTyped'
    BY <1>12 DEF BrokerCancels, Outside, callVars, closeVars, stopVars
  <1>13. ASSUME NEW c \in Chans, CancelNoticed(c) PROVE ChansTyped'
    BY <1>13 DEF CancelNoticed, Outside, callVars, closeVars, stopVars
  <1>14. ASSUME NEW w \in Workers, OwnOpen(w) PROVE ChansTyped'
    BY <1>14 DEF OwnOpen, OwnStep, callVars, closeVars, stopVars, Opens
  <1>15. ASSUME NEW w \in Workers, OwnSubscribe(w) PROVE ChansTyped'
    BY <1>15 DEF OwnSubscribe, OwnStep, callVars, closeVars, stopVars, Subscribes
  <1>16. ASSUME NEW w \in Workers, OwnSubscribeFails(w) PROVE ChansTyped'
    BY <1>16 DEF OwnSubscribeFails, OwnStep, callVars, closeVars, stopVars, Refused, Shut
  <1>17. ASSUME NEW w \in Workers, OwnLeave(w) PROVE ChansTyped'
    BY <1>17 DEF OwnLeave, OwnStep, callVars, closeVars, stopVars, Shut
  <1>18. QED
    BY <1>1, <1>2, <1>3, <1>4, <1>5, <1>6, <1>7, <1>8, <1>9, <1>10, <1>11, <1>12, <1>13,
       <1>14, <1>15, <1>16, <1>17

\* The record keeps its shape.
LEMMA HealthTypes ==
  ASSUME TypeOK, [Next]_vars
  PROVE  HealthTyped'
  <1>1. \/ UNCHANGED <<health>>
        \/ Consume \/ ConsumeBatch \/ EnsureFails \/ SubscribeFails \/ RecordSubscribed
        \/ ChannelSignalled \/ End \/ BatchOpenFails \/ BatchSubscribeFails \/ BatchRecord
        \/ BatchBreaks \/ (\E c \in Chans : CancelNoticed(c))
        \/ (\E w \in Workers : OwnOpenFails(w)) \/ (\E w \in Workers : OwnSubscribeFails(w))
        \/ (\E w \in Workers : OwnRecord(w)) \/ (\E w \in Workers : OwnLeave(w))
    <2>1. ASSUME LoopNext
         PROVE  \/ UNCHANGED <<health>>
                \/ EnsureFails \/ SubscribeFails \/ RecordSubscribed \/ ChannelSignalled
                \/ End
      BY <2>1 DEF LoopNext, Top, EnsureChannel, Delay, Subscribe, ResetStopCh,
         ResetStopOnce, SpawnWorkers, Listen, StopRequested, Drained, Return, LoopStep,
         SignalStop, callVars, closeVars, stopVars
    <2>2. ASSUME BatchNext
         PROVE  \/ UNCHANGED <<health>>
                \/ BatchOpenFails \/ BatchSubscribeFails \/ BatchRecord \/ BatchBreaks
      BY <2>2 DEF BatchNext, BatchOpen, BatchSubscribe, BatchDue, BatchStops,
         BatchProcessed, BatchStep, callVars, closeVars, stopVars
    <2>3. ASSUME CloseNext
         PROVE  \/ UNCHANGED <<health>>
      BY <2>3 DEF CloseNext, Close, CloseSignals, CloseWaited, CloseChannel, CloseStep,
         SignalStop, callVars, closeVars, stopVars
    <2>4. ASSUME BrokerNext
         PROVE  \/ UNCHANGED <<health>>
                \/ (\E c \in Chans : CancelNoticed(c))
      BY <2>4 DEF BrokerNext, ChannelDies, BrokerCancels, Outside, callVars, closeVars,
         stopVars
    <2>5. ASSUME NEW v \in Workers, WorkerNext(v)
         PROVE  \/ UNCHANGED <<health>>
                \/ (\E w \in Workers : OwnOpenFails(w))
                \/ (\E w \in Workers : OwnSubscribeFails(w))
                \/ (\E w \in Workers : OwnRecord(w)) \/ (\E w \in Workers : OwnLeave(w))
      BY <2>5 DEF WorkerNext, Receive, HandlerReturns, WorkerStops, StreamEnds, OwnOpen,
         OwnSubscribe, OwnDelay, OwnStops, WorkerStep, OwnStep, callVars, closeVars,
         stopVars
    <2>6. ASSUME CancelContext
         PROVE  UNCHANGED <<health>>
      BY <2>6 DEF CancelContext, Begin, callVars, closeVars, stopVars
    <2>7. ASSUME UNCHANGED vars
         PROVE  UNCHANGED <<health>>
      BY <2>7 DEF vars, callVars, closeVars, stopVars
    <2>8. QED
      BY <2>1, <2>2, <2>3, <2>4, <2>5, <2>6, <2>7 DEF Next
  <1>2. CASE UNCHANGED <<health>>
    BY <1>2 DEF TypeOK, ScalarsTyped, WorkersTyped, HealthTyped, Workers
  <1> USE RecordKept DEF TypeOK, ScalarsTyped, WorkersTyped, HealthTyped, Workers
  <1>3. CASE Consume
    BY <1>3 DEF Consume, Begin, stopVars
  <1>4. CASE ConsumeBatch
    BY <1>4 DEF ConsumeBatch, Begin, stopVars
  <1>5. CASE EnsureFails
    BY <1>5 DEF EnsureFails, LoopStep, callVars, closeVars, stopVars
  <1>6. CASE SubscribeFails
    BY <1>6 DEF SubscribeFails, LoopStep, callVars, closeVars, stopVars
  <1>7. CASE RecordSubscribed
    BY <1>7 DEF RecordSubscribed, LoopStep, callVars, closeVars, stopVars
  <1>8. CASE ChannelSignalled
    BY <1>8 DEF ChannelSignalled, LoopStep, callVars, closeVars, stopVars, SignalStop
  <1>9. CASE End
    BY <1>9 DEF End, callVars, closeVars, stopVars
  <1>10. CASE BatchOpenFails
    BY <1>10 DEF BatchOpenFails, BatchStep, callVars, closeVars, stopVars
  <1>11. CASE BatchSubscribeFails
    BY <1>11 DEF BatchSubscribeFails, BatchStep, callVars, closeVars, stopVars
  <1>12. CASE BatchRecord
    BY <1>12 DEF BatchRecord, BatchStep, callVars, closeVars, stopVars
  <1>13. CASE BatchBreaks
    BY <1>13 DEF BatchBreaks, BatchStep, callVars, closeVars, stopVars
  <1>14. ASSUME NEW c \in Chans, CancelNoticed(c) PROVE HealthTyped'
    BY <1>14 DEF CancelNoticed, Outside, callVars, closeVars, stopVars
  <1>15. ASSUME NEW w \in Workers, OwnOpenFails(w) PROVE HealthTyped'
    BY <1>15 DEF OwnOpenFails, OwnStep, callVars, closeVars, stopVars
  <1>16. ASSUME NEW w \in Workers, OwnSubscribeFails(w) PROVE HealthTyped'
    BY <1>16 DEF OwnSubscribeFails, OwnStep, callVars, closeVars, stopVars
  <1>17. ASSUME NEW w \in Workers, OwnRecord(w) PROVE HealthTyped'
    BY <1>17 DEF OwnRecord, OwnStep, callVars, closeVars, stopVars
  <1>18. ASSUME NEW w \in Workers, OwnLeave(w) PROVE HealthTyped'
    BY <1>18 DEF OwnLeave, OwnStep, callVars, closeVars, stopVars
  <1>19. QED
    BY <1>1, <1>2, <1>3, <1>4, <1>5, <1>6, <1>7, <1>8, <1>9, <1>10, <1>11, <1>12, <1>13,
       <1>14, <1>15, <1>16, <1>17, <1>18

\* The fields that are no tables keep their types.
LEMMA ScalarTypes ==
  ASSUME TypeOK, [Next]_vars
  PROVE  ScalarsTyped'
  <1>1. \/ UNCHANGED <<perWorker, mode, loop, consuming, ch, batchCh, stopClosed, onceDone,
                       crashed, ctxDone, closer, heard>>
        \/ Consume \/ ConsumeBatch \/ Top \/ EnsureChannel \/ EnsureFails \/ Delay \/ Subscribe
        \/ SubscribeFails \/ RecordSubscribed \/ ResetStopCh \/ ResetStopOnce \/ SpawnWorkers
        \/ Listen \/ StopRequested \/ ChannelSignalled \/ Drained \/ End \/ Return \/ BatchOpen
        \/ BatchOpenFails \/ BatchSubscribe \/ BatchSubscribeFails \/ BatchRecord \/ BatchDue
        \/ BatchStops \/ BatchBreaks \/ BatchProcessed \/ (\E w \in Workers : StreamEnds(w))
        \/ CancelContext \/ Close \/ CloseSignals \/ CloseWaited \/ CloseChannel
    <2>1. ASSUME BrokerNext
         PROVE  \/ UNCHANGED <<perWorker, mode, loop, consuming, ch, batchCh, stopClosed,
                               onceDone, crashed, ctxDone, closer, heard>>
      BY <2>1 DEF BrokerNext, ChannelDies, BrokerCancels, CancelNoticed, Outside,
         callVars, closeVars, stopVars
    <2>2. ASSUME NEW v \in Workers, WorkerNext(v)
         PROVE  \/ UNCHANGED <<perWorker, mode, loop, consuming, ch, batchCh, stopClosed,
                               onceDone, crashed, ctxDone, closer, heard>>
                \/ (\E w \in Workers : StreamEnds(w))
      <3>1. Receive(v) => UNCHANGED <<perWorker, mode, loop, consuming, ch, batchCh, stopClosed,
                                      onceDone, crashed, ctxDone, closer, heard>>
        BY DEF Receive, WorkerStep, callVars, closeVars, stopVars
      <3>2. HandlerReturns(v) => UNCHANGED <<perWorker, mode, loop, consuming, ch, batchCh,
                                             stopClosed, onceDone, crashed, ctxDone, closer, heard>>
        BY DEF HandlerReturns, WorkerStep, callVars, closeVars, stopVars
      <3>3. WorkerStops(v) => UNCHANGED <<perWorker, mode, loop, consuming, ch, batchCh,
                                          stopClosed, onceDone, crashed, ctxDone, closer, heard>>
        BY DEF WorkerStops, WorkerStep, callVars, closeVars, stopVars
      <3>4. OwnOpen(v) => UNCHANGED <<perWorker, mode, loop, consuming, ch, batchCh, stopClosed,
                                      onceDone, crashed, ctxDone, closer, heard>>
        BY DEF OwnOpen, OwnStep, callVars, closeVars, stopVars
      <3>5. OwnOpenFails(v) => UNCHANGED <<perWorker, mode, loop, consuming, ch, batchCh,
                                           stopClosed, onceDone, crashed, ctxDone, closer, heard>>
        BY DEF OwnOpenFails, OwnStep, callVars, closeVars, stopVars
      <3>6. OwnSubscribe(v) => UNCHANGED <<perWorker, mode, loop, consuming, ch, batchCh,
                                           stopClosed, onceDone, crashed, ctxDone, closer, heard>>
        BY DEF OwnSubscribe, OwnStep, callVars, closeVars, stopVars
      <3>7. OwnSubscribeFails(v) => UNCHANGED <<perWorker, mode, loop, consuming, ch, batchCh,
                                                stopClosed, onceDone, crashed, ctxDone, closer,
                                                    heard>>
        BY DEF OwnSubscribeFails, OwnStep, callVars, closeVars, stopVars
      <3>8. OwnRecord(v) => UNCHANGED <<perWorker, mode, loop, consuming, ch, batchCh,
                                        stopClosed, onceDone, crashed, ctxDone, closer, heard>>
        BY DEF OwnRecord, OwnStep, callVars, closeVars, stopVars
      <3>9. OwnLeave(v) => UNCHANGED <<perWorker, mode, loop, consuming, ch, batchCh,
                                       stopClosed, onceDone, crashed, ctxDone, closer, heard>>
        BY DEF OwnLeave, OwnStep, callVars, closeVars, stopVars
      <3>10. OwnDelay(v) => UNCHANGED <<perWorker, mode, loop, consuming, ch, batchCh,
                                        stopClosed, onceDone, crashed, ctxDone, closer, heard>>
        BY DEF OwnDelay, OwnStep, callVars, closeVars, stopVars
      <3>11. OwnStops(v) => UNCHANGED <<perWorker, mode, loop, consuming, ch, batchCh,
                                        stopClosed, onceDone, crashed, ctxDone, closer, heard>>
        BY DEF OwnStops, OwnStep, callVars, closeVars, stopVars
      <3>12. QED
        BY <2>2, <3>1, <3>2, <3>3, <3>4, <3>5, <3>6, <3>7, <3>8, <3>9, <3>10,
           <3>11 DEF WorkerNext
    <2>3. ASSUME UNCHANGED vars
         PROVE  UNCHANGED <<perWorker, mode, loop, consuming, ch, batchCh, stopClosed, onceDone,
                            crashed, ctxDone, closer, heard>>
      BY <2>3 DEF vars, callVars, closeVars, stopVars
    <2>4. QED
      BY <2>1, <2>2, <2>3 DEF Next, LoopNext, BatchNext, CloseNext
  <1>2. CASE UNCHANGED <<perWorker, mode, loop, consuming, ch, batchCh, stopClosed, onceDone,
                         crashed, ctxDone, closer, heard>>
    BY <1>2 DEF TypeOK, ScalarsTyped, Modes, LoopPCs
  <1> USE DEF TypeOK, ScalarsTyped, Modes, LoopPCs
  <1>3. CASE Consume
    BY <1>3 DEF Consume, Begin, stopVars
  <1>4. CASE ConsumeBatch
    BY <1>4 DEF ConsumeBatch, Begin, stopVars
  <1>5. CASE Top
    BY <1>5 DEF Top, LoopStep, callVars, closeVars, stopVars
  <1>6. CASE EnsureChannel
    BY <1>6 DEF EnsureChannel, LoopStep, callVars, closeVars, stopVars, Opens
  <1>7. CASE EnsureFails
    BY <1>7 DEF EnsureFails, LoopStep, callVars, closeVars, stopVars
  <1>8. CASE Delay
    BY <1>8 DEF Delay, LoopStep, callVars, closeVars, stopVars
  <1>9. CASE Subscribe
    BY <1>9 DEF Subscribe, LoopStep, callVars, closeVars, stopVars
  <1>10. CASE SubscribeFails
    BY <1>10 DEF SubscribeFails, LoopStep, callVars, closeVars, stopVars
  <1>11. CASE RecordSubscribed
    BY <1>11 DEF RecordSubscribed, LoopStep, callVars, closeVars, stopVars
  <1>12. CASE ResetStopCh
    BY <1>12 DEF ResetStopCh, LoopStep, callVars, closeVars, stopVars
  <1>13. CASE ResetStopOnce
    BY <1>13 DEF ResetStopOnce, LoopStep, callVars, closeVars, stopVars
  <1>14. CASE SpawnWorkers
    BY <1>14 DEF SpawnWorkers, LoopStep, callVars, closeVars, stopVars
  <1>15. CASE Listen
    BY <1>15 DEF Listen, LoopStep, callVars, closeVars, stopVars
  <1>16. CASE StopRequested
    BY <1>16 DEF StopRequested, LoopStep, callVars, closeVars, stopVars, SignalStop
  <1>17. CASE ChannelSignalled
    BY <1>17 DEF ChannelSignalled, LoopStep, callVars, closeVars, stopVars, SignalStop
  <1>18. CASE Drained
    BY <1>18 DEF Drained, LoopStep, callVars, closeVars, stopVars
  <1>19. CASE End
    BY <1>19 DEF End, callVars, closeVars, stopVars
  <1>20. CASE Return
    BY <1>20 DEF Return, closeVars, stopVars
  <1>21. CASE BatchOpen
    BY <1>21 DEF BatchOpen, BatchStep, callVars, closeVars, stopVars, Opens
  <1>22. CASE BatchOpenFails
    BY <1>22 DEF BatchOpenFails, BatchStep, callVars, closeVars, stopVars
  <1>23. CASE BatchSubscribe
    BY <1>23 DEF BatchSubscribe, BatchStep, callVars, closeVars, stopVars
  <1>24. CASE BatchSubscribeFails
    BY <1>24 DEF BatchSubscribeFails, BatchStep, callVars, closeVars, stopVars
  <1>25. CASE BatchRecord
    BY <1>25 DEF BatchRecord, BatchStep, callVars, closeVars, stopVars
  <1>26. CASE BatchDue
    BY <1>26 DEF BatchDue, BatchStep, callVars, closeVars, stopVars
  <1>27. CASE BatchStops
    BY <1>27 DEF BatchStops, BatchStep, callVars, closeVars, stopVars
  <1>28. CASE BatchBreaks
    BY <1>28 DEF BatchBreaks, BatchStep, callVars, closeVars, stopVars
  <1>29. CASE BatchProcessed
    BY <1>29 DEF BatchProcessed, BatchStep, callVars, closeVars, stopVars
  <1>30. ASSUME NEW w \in Workers, StreamEnds(w) PROVE ScalarsTyped'
    BY <1>30 DEF StreamEnds, WorkerStep, callVars, closeVars, stopVars
  <1>31. CASE CancelContext
    BY <1>31 DEF CancelContext, callVars, closeVars, stopVars
  <1>32. CASE Close
    BY <1>32 DEF Close, CloseStep, stopVars
  <1>33. CASE CloseSignals
    BY <1>33 DEF CloseSignals, CloseStep, stopVars, SignalStop
  <1>34. CASE CloseWaited
    <2>1. consuming' \in BOOLEAN /\ closer' = "closeChannel"
      BY <1>34 DEF CloseWaited, CloseStep
    <2>2. UNCHANGED <<perWorker, mode, loop, ch, batchCh, stopClosed, onceDone, crashed,
                      ctxDone, heard>>
      BY <1>34 DEF CloseWaited, CloseStep, stopVars
    <2>3. QED
      BY <2>1, <2>2
  <1>35. CASE CloseChannel
    BY <1>35 DEF CloseChannel, CloseStep, stopVars
  <1>36. QED
    BY <1>1, <1>2, <1>3, <1>4, <1>5, <1>6, <1>7, <1>8, <1>9, <1>10, <1>11, <1>12, <1>13,
       <1>14, <1>15, <1>16, <1>17, <1>18, <1>19, <1>20, <1>21, <1>22, <1>23, <1>24, <1>25,
       <1>26, <1>27, <1>28, <1>29, <1>30, <1>31, <1>32, <1>33, <1>34, <1>35

\* Only the reset of a new cycle withdraws a stop, and a loop that heard one starts none.
LEMMA StopIsHeard ==
  ASSUME StopHeard, [Next]_vars
  PROVE  StopHeard'
  <1>1. \/ UNCHANGED <<heard, stopClosed, loop>>
        \/ Consume \/ ConsumeBatch \/ Top \/ EnsureChannel \/ EnsureFails \/ Delay \/ Subscribe
        \/ SubscribeFails \/ RecordSubscribed \/ ResetStopCh \/ ResetStopOnce \/ SpawnWorkers
        \/ Listen \/ StopRequested \/ ChannelSignalled \/ Drained \/ End \/ Return \/ BatchOpen
        \/ BatchOpenFails \/ BatchSubscribe \/ BatchSubscribeFails \/ BatchRecord \/ BatchDue
        \/ BatchStops \/ BatchBreaks \/ BatchProcessed \/ (\E w \in Workers : StreamEnds(w))
        \/ CloseSignals
    <2>1. ASSUME CloseNext
         PROVE  \/ UNCHANGED <<heard, stopClosed, loop>>
                \/ CloseSignals
      BY <2>1 DEF CloseNext, Close, CloseWaited, CloseChannel, CloseStep, SignalStop,
         callVars, closeVars, stopVars
    <2>2. ASSUME BrokerNext
         PROVE  \/ UNCHANGED <<heard, stopClosed, loop>>
      BY <2>2 DEF BrokerNext, ChannelDies, BrokerCancels, CancelNoticed, Outside,
         callVars, closeVars, stopVars
    <2>3. ASSUME NEW v \in Workers, WorkerNext(v)
         PROVE  \/ UNCHANGED <<heard, stopClosed, loop>>
                \/ (\E w \in Workers : StreamEnds(w))
      BY <2>3 DEF WorkerNext, Receive, HandlerReturns, WorkerStops, OwnOpen,
         OwnOpenFails, OwnSubscribe, OwnSubscribeFails, OwnRecord, OwnLeave, OwnDelay,
         OwnStops, WorkerStep, OwnStep, callVars, closeVars, stopVars
    <2>4. ASSUME CancelContext
         PROVE  UNCHANGED <<heard, stopClosed, loop>>
      BY <2>4 DEF CancelContext, Begin, callVars, closeVars, stopVars
    <2>5. ASSUME UNCHANGED vars
         PROVE  UNCHANGED <<heard, stopClosed, loop>>
      BY <2>5 DEF vars, callVars, closeVars, stopVars
    <2>6. QED
      BY <2>1, <2>2, <2>3, <2>4, <2>5 DEF Next, LoopNext, BatchNext
  <1>2. CASE UNCHANGED <<heard, stopClosed, loop>>
    BY <1>2 DEF StopHeard, Listening
  <1> USE DEF StopHeard, Listening
  <1>3. CASE Consume
    BY <1>3 DEF Consume, Begin, stopVars
  <1>4. CASE ConsumeBatch
    BY <1>4 DEF ConsumeBatch, Begin, stopVars
  <1>5. CASE Top
    BY <1>5 DEF Top, LoopStep, callVars, closeVars, stopVars
  <1>6. CASE EnsureChannel
    BY <1>6 DEF EnsureChannel, LoopStep, callVars, closeVars, stopVars
  <1>7. CASE EnsureFails
    BY <1>7 DEF EnsureFails, LoopStep, callVars, closeVars, stopVars
  <1>8. CASE Delay
    BY <1>8 DEF Delay, LoopStep, callVars, closeVars, stopVars
  <1>9. CASE Subscribe
    BY <1>9 DEF Subscribe, LoopStep, callVars, closeVars, stopVars
  <1>10. CASE SubscribeFails
    BY <1>10 DEF SubscribeFails, LoopStep, callVars, closeVars, stopVars
  <1>11. CASE RecordSubscribed
    BY <1>11 DEF RecordSubscribed, LoopStep, callVars, closeVars, stopVars
  <1>12. CASE ResetStopCh
    BY <1>12 DEF ResetStopCh, LoopStep, callVars, closeVars, stopVars
  <1>13. CASE ResetStopOnce
    BY <1>13 DEF ResetStopOnce, LoopStep, callVars, closeVars, stopVars
  <1>14. CASE SpawnWorkers
    BY <1>14 DEF SpawnWorkers, LoopStep, callVars, closeVars, stopVars
  <1>15. CASE Listen
    BY <1>15 DEF Listen, LoopStep, callVars, closeVars, stopVars
  <1>16. CASE StopRequested
    BY <1>16 DEF StopRequested, LoopStep, callVars, closeVars, stopVars, SignalStop, Stopping
  <1>17. CASE ChannelSignalled
    BY <1>17 DEF ChannelSignalled, LoopStep, callVars, closeVars, stopVars, SignalStop
  <1>18. CASE Drained
    BY <1>18 DEF Drained, LoopStep, callVars, closeVars, stopVars
  <1>19. CASE End
    BY <1>19 DEF End, callVars, closeVars, stopVars
  <1>20. CASE Return
    BY <1>20 DEF Return, closeVars, stopVars
  <1>21. CASE BatchOpen
    BY <1>21 DEF BatchOpen, BatchStep, callVars, closeVars, stopVars
  <1>22. CASE BatchOpenFails
    BY <1>22 DEF BatchOpenFails, BatchStep, callVars, closeVars, stopVars
  <1>23. CASE BatchSubscribe
    BY <1>23 DEF BatchSubscribe, BatchStep, callVars, closeVars, stopVars
  <1>24. CASE BatchSubscribeFails
    BY <1>24 DEF BatchSubscribeFails, BatchStep, callVars, closeVars, stopVars
  <1>25. CASE BatchRecord
    BY <1>25 DEF BatchRecord, BatchStep, callVars, closeVars, stopVars
  <1>26. CASE BatchDue
    BY <1>26 DEF BatchDue, BatchStep, callVars, closeVars, stopVars
  <1>27. CASE BatchStops
    BY <1>27 DEF BatchStops, BatchStep, callVars, closeVars, stopVars
  <1>28. CASE BatchBreaks
    BY <1>28 DEF BatchBreaks, BatchStep, callVars, closeVars, stopVars
  <1>29. CASE BatchProcessed
    BY <1>29 DEF BatchProcessed, BatchStep, callVars, closeVars, stopVars
  <1>30. ASSUME NEW w \in Workers, StreamEnds(w) PROVE StopHeard'
    BY <1>30 DEF StreamEnds, WorkerStep, callVars, closeVars, stopVars, Stopping
  <1>31. CASE CloseSignals
    BY <1>31 DEF CloseSignals, CloseStep, stopVars, SignalStop
  <1>32. QED
    BY <1>1, <1>2, <1>3, <1>4, <1>5, <1>6, <1>7, <1>8, <1>9, <1>10, <1>11, <1>12, <1>13,
       <1>14, <1>15, <1>16, <1>17, <1>18, <1>19, <1>20, <1>21, <1>22, <1>23, <1>24, <1>25,
       <1>26, <1>27, <1>28, <1>29, <1>30, <1>31

\* Only SpawnWorkers starts workers; what waits for them waits for all.
LEMMA WorkersInCycles ==
  ASSUME WorkersTyped, StopHeard, CyclesInv, [Next]_vars
  PROVE  CyclesInv'
  <1>1. \/ UNCHANGED <<loop, worker, heard, closer, consuming>>
        \/ Consume \/ ConsumeBatch \/ Top \/ EnsureChannel \/ EnsureFails \/ Delay \/ Subscribe
        \/ SubscribeFails \/ RecordSubscribed \/ ResetStopCh \/ ResetStopOnce \/ SpawnWorkers
        \/ Listen \/ StopRequested \/ ChannelSignalled \/ Drained \/ End \/ Return \/ BatchOpen
        \/ BatchOpenFails \/ BatchSubscribe \/ BatchSubscribeFails \/ BatchRecord \/ BatchDue
        \/ BatchStops \/ BatchBreaks \/ BatchProcessed \/ (\E w \in Workers : StreamEnds(w))
        \/ (\E w \in Workers : Receive(w)) \/ (\E w \in Workers : HandlerReturns(w))
        \/ (\E w \in Workers : WorkerStops(w)) \/ (\E w \in Workers : OwnOpen(w))
        \/ (\E w \in Workers : OwnOpenFails(w)) \/ (\E w \in Workers : OwnSubscribe(w))
        \/ (\E w \in Workers : OwnSubscribeFails(w)) \/ (\E w \in Workers : OwnRecord(w))
        \/ (\E w \in Workers : OwnLeave(w)) \/ (\E w \in Workers : OwnDelay(w))
        \/ (\E w \in Workers : OwnStops(w)) \/ Close \/ CloseSignals \/ CloseWaited
        \/ CloseChannel
    <2>1. ASSUME BrokerNext
         PROVE  \/ UNCHANGED <<loop, worker, heard, closer, consuming>>
      BY <2>1 DEF BrokerNext, ChannelDies, BrokerCancels, CancelNoticed, Outside,
         callVars, closeVars, stopVars
    <2>2. ASSUME CancelContext
         PROVE  UNCHANGED <<loop, worker, heard, closer, consuming>>
      BY <2>2 DEF CancelContext, Begin, callVars, closeVars, stopVars
    <2>3. ASSUME UNCHANGED vars
         PROVE  UNCHANGED <<loop, worker, heard, closer, consuming>>
      BY <2>3 DEF vars, callVars, closeVars, stopVars
    <2>4. QED
      BY <2>1, <2>2, <2>3 DEF Next, LoopNext, BatchNext, CloseNext, WorkerNext
  <1>2. CASE UNCHANGED <<loop, worker, heard, closer, consuming>>
    BY <1>2 DEF CyclesInv, StopHeard, WithWorkers, WorkersOff, Workers, Listening, WorkersTyped
  <1> USE DEF CyclesInv, StopHeard, WithWorkers, WorkersOff, Workers, Listening, WorkersTyped
  <1>3. CASE Consume
    BY <1>3 DEF Consume, Begin, stopVars
  <1>4. CASE ConsumeBatch
    BY <1>4 DEF ConsumeBatch, Begin, stopVars
  <1>5. CASE Top
    BY <1>5 DEF Top, LoopStep, callVars, closeVars, stopVars
  <1>6. CASE EnsureChannel
    BY <1>6 DEF EnsureChannel, LoopStep, callVars, closeVars, stopVars
  <1>7. CASE EnsureFails
    BY <1>7 DEF EnsureFails, LoopStep, callVars, closeVars, stopVars
  <1>8. CASE Delay
    BY <1>8 DEF Delay, LoopStep, callVars, closeVars, stopVars
  <1>9. CASE Subscribe
    BY <1>9 DEF Subscribe, LoopStep, callVars, closeVars, stopVars
  <1>10. CASE SubscribeFails
    BY <1>10 DEF SubscribeFails, LoopStep, callVars, closeVars, stopVars
  <1>11. CASE RecordSubscribed
    BY <1>11 DEF RecordSubscribed, LoopStep, callVars, closeVars, stopVars
  <1>12. CASE ResetStopCh
    BY <1>12 DEF ResetStopCh, LoopStep, callVars, closeVars, stopVars
  <1>13. CASE ResetStopOnce
    BY <1>13 DEF ResetStopOnce, LoopStep, callVars, closeVars, stopVars
  <1>14. CASE SpawnWorkers
    BY <1>14 DEF SpawnWorkers, LoopStep, callVars, closeVars, stopVars
  <1>15. CASE Listen
    BY <1>15 DEF Listen, LoopStep, callVars, closeVars, stopVars
  <1>16. CASE StopRequested
    BY <1>16 DEF StopRequested, LoopStep, callVars, closeVars, stopVars, SignalStop
  <1>17. CASE ChannelSignalled
    BY <1>17 DEF ChannelSignalled, LoopStep, callVars, closeVars, stopVars, SignalStop
  <1>18. CASE Drained
    BY <1>18 DEF Drained, LoopStep, callVars, closeVars, stopVars
  <1>19. CASE End
    BY <1>19 DEF End, callVars, closeVars, stopVars
  <1>20. CASE Return
    BY <1>20 DEF Return, closeVars, stopVars
  <1>21. CASE BatchOpen
    BY <1>21 DEF BatchOpen, BatchStep, callVars, closeVars, stopVars
  <1>22. CASE BatchOpenFails
    BY <1>22 DEF BatchOpenFails, BatchStep, callVars, closeVars, stopVars
  <1>23. CASE BatchSubscribe
    BY <1>23 DEF BatchSubscribe, BatchStep, callVars, closeVars, stopVars
  <1>24. CASE BatchSubscribeFails
    BY <1>24 DEF BatchSubscribeFails, BatchStep, callVars, closeVars, stopVars
  <1>25. CASE BatchRecord
    BY <1>25 DEF BatchRecord, BatchStep, callVars, closeVars, stopVars
  <1>26. CASE BatchDue
    BY <1>26 DEF BatchDue, BatchStep, callVars, closeVars, stopVars
  <1>27. CASE BatchStops
    BY <1>27 DEF BatchStops, BatchStep, callVars, closeVars, stopVars
  <1>28. CASE BatchBreaks
    BY <1>28 DEF BatchBreaks, BatchStep, callVars, closeVars, stopVars
  <1>29. CASE BatchProcessed
    BY <1>29 DEF BatchProcessed, BatchStep, callVars, closeVars, stopVars
  <1>30. ASSUME NEW w \in Workers, StreamEnds(w) PROVE CyclesInv'
    BY <1>30 DEF StreamEnds, WorkerStep, callVars, closeVars, stopVars
  <1>31. ASSUME NEW w \in Workers, Receive(w) PROVE CyclesInv'
    BY <1>31 DEF Receive, WorkerStep, callVars, closeVars, stopVars
  <1>32. ASSUME NEW w \in Workers, HandlerReturns(w) PROVE CyclesInv'
    BY <1>32 DEF HandlerReturns, WorkerStep, callVars, closeVars, stopVars
  <1>33. ASSUME NEW w \in Workers, WorkerStops(w) PROVE CyclesInv'
    BY <1>33 DEF WorkerStops, WorkerStep, callVars, closeVars, stopVars
  <1>34. ASSUME NEW w \in Workers, OwnOpen(w) PROVE CyclesInv'
    BY <1>34 DEF OwnOpen, OwnStep, callVars, closeVars, stopVars
  <1>35. ASSUME NEW w \in Workers, OwnOpenFails(w) PROVE CyclesInv'
    BY <1>35 DEF OwnOpenFails, OwnStep, callVars, closeVars, stopVars
  <1>36. ASSUME NEW w \in Workers, OwnSubscribe(w) PROVE CyclesInv'
    BY <1>36 DEF OwnSubscribe, OwnStep, callVars, closeVars, stopVars
  <1>37. ASSUME NEW w \in Workers, OwnSubscribeFails(w) PROVE CyclesInv'
    BY <1>37 DEF OwnSubscribeFails, OwnStep, callVars, closeVars, stopVars
  <1>38. ASSUME NEW w \in Workers, OwnRecord(w) PROVE CyclesInv'
    BY <1>38 DEF OwnRecord, OwnStep, callVars, closeVars, stopVars
  <1>39. ASSUME NEW w \in Workers, OwnLeave(w) PROVE CyclesInv'
    BY <1>39 DEF OwnLeave, OwnStep, callVars, closeVars, stopVars
  <1>40. ASSUME NEW w \in Workers, OwnDelay(w) PROVE CyclesInv'
    BY <1>40 DEF OwnDelay, OwnStep, callVars, closeVars, stopVars
  <1>41. ASSUME NEW w \in Workers, OwnStops(w) PROVE CyclesInv'
    BY <1>41 DEF OwnStops, OwnStep, callVars, closeVars, stopVars
  <1>42. CASE Close
    BY <1>42 DEF Close, CloseStep, stopVars
  <1>43. CASE CloseSignals
    BY <1>43 DEF CloseSignals, CloseStep, stopVars, SignalStop
  <1>44. CASE CloseWaited
    BY <1>44 DEF CloseWaited, CloseStep, stopVars
  <1>45. CASE CloseChannel
    BY <1>45 DEF CloseChannel, CloseStep, stopVars
  <1>46. QED
    BY <1>1, <1>2, <1>3, <1>4, <1>5, <1>6, <1>7, <1>8, <1>9, <1>10, <1>11, <1>12, <1>13,
       <1>14, <1>15, <1>16, <1>17, <1>18, <1>19, <1>20, <1>21, <1>22, <1>23, <1>24, <1>25,
       <1>26, <1>27, <1>28, <1>29, <1>30, <1>31, <1>32, <1>33, <1>34, <1>35, <1>36, <1>37,
       <1>38, <1>39, <1>40, <1>41, <1>42, <1>43, <1>44, <1>45

\* The own mode has no cycles of its own to subscribe in.
LEMMA LoopOfOwn ==
  ASSUME OwnLoop, [Next]_vars
  PROVE  OwnLoop'
  <1>1. \/ UNCHANGED <<mode, loop>>
        \/ Consume \/ ConsumeBatch \/ Top \/ EnsureChannel \/ EnsureFails \/ Delay \/ Subscribe
        \/ SubscribeFails \/ RecordSubscribed \/ ResetStopCh \/ ResetStopOnce \/ SpawnWorkers
        \/ Listen \/ StopRequested \/ ChannelSignalled \/ Drained \/ End \/ Return \/ BatchOpen
        \/ BatchOpenFails \/ BatchSubscribe \/ BatchSubscribeFails \/ BatchRecord \/ BatchDue
        \/ BatchStops \/ BatchBreaks \/ BatchProcessed \/ (\E w \in Workers : StreamEnds(w))
    <2>1. ASSUME CloseNext
         PROVE  \/ UNCHANGED <<mode, loop>>
      BY <2>1 DEF CloseNext, Close, CloseSignals, CloseWaited, CloseChannel, CloseStep,
         SignalStop, callVars, closeVars, stopVars
    <2>2. ASSUME BrokerNext
         PROVE  \/ UNCHANGED <<mode, loop>>
      BY <2>2 DEF BrokerNext, ChannelDies, BrokerCancels, CancelNoticed, Outside,
         callVars, closeVars, stopVars
    <2>3. ASSUME NEW v \in Workers, WorkerNext(v)
         PROVE  \/ UNCHANGED <<mode, loop>>
                \/ (\E w \in Workers : StreamEnds(w))
      BY <2>3 DEF WorkerNext, Receive, HandlerReturns, WorkerStops, OwnOpen,
         OwnOpenFails, OwnSubscribe, OwnSubscribeFails, OwnRecord, OwnLeave, OwnDelay,
         OwnStops, WorkerStep, OwnStep, callVars, closeVars, stopVars
    <2>4. ASSUME CancelContext
         PROVE  UNCHANGED <<mode, loop>>
      BY <2>4 DEF CancelContext, Begin, callVars, closeVars, stopVars
    <2>5. ASSUME UNCHANGED vars
         PROVE  UNCHANGED <<mode, loop>>
      BY <2>5 DEF vars, callVars, closeVars, stopVars
    <2>6. QED
      BY <2>1, <2>2, <2>3, <2>4, <2>5 DEF Next, LoopNext, BatchNext
  <1>2. CASE UNCHANGED <<mode, loop>>
    BY <1>2 DEF OwnLoop
  <1> USE DEF OwnLoop
  <1>3. CASE Consume
    BY <1>3 DEF Consume, Begin, stopVars
  <1>4. CASE ConsumeBatch
    BY <1>4 DEF ConsumeBatch, Begin, stopVars
  <1>5. CASE Top
    BY <1>5 DEF Top, LoopStep, callVars, closeVars, stopVars
  <1>6. CASE EnsureChannel
    BY <1>6 DEF EnsureChannel, LoopStep, callVars, closeVars, stopVars
  <1>7. CASE EnsureFails
    BY <1>7 DEF EnsureFails, LoopStep, callVars, closeVars, stopVars
  <1>8. CASE Delay
    BY <1>8 DEF Delay, LoopStep, callVars, closeVars, stopVars
  <1>9. CASE Subscribe
    BY <1>9 DEF Subscribe, LoopStep, callVars, closeVars, stopVars
  <1>10. CASE SubscribeFails
    BY <1>10 DEF SubscribeFails, LoopStep, callVars, closeVars, stopVars
  <1>11. CASE RecordSubscribed
    BY <1>11 DEF RecordSubscribed, LoopStep, callVars, closeVars, stopVars
  <1>12. CASE ResetStopCh
    BY <1>12 DEF ResetStopCh, LoopStep, callVars, closeVars, stopVars
  <1>13. CASE ResetStopOnce
    BY <1>13 DEF ResetStopOnce, LoopStep, callVars, closeVars, stopVars
  <1>14. CASE SpawnWorkers
    BY <1>14 DEF SpawnWorkers, LoopStep, callVars, closeVars, stopVars
  <1>15. CASE Listen
    BY <1>15 DEF Listen, LoopStep, callVars, closeVars, stopVars
  <1>16. CASE StopRequested
    BY <1>16 DEF StopRequested, LoopStep, callVars, closeVars, stopVars, SignalStop
  <1>17. CASE ChannelSignalled
    BY <1>17 DEF ChannelSignalled, LoopStep, callVars, closeVars, stopVars, SignalStop
  <1>18. CASE Drained
    BY <1>18 DEF Drained, LoopStep, callVars, closeVars, stopVars
  <1>19. CASE End
    BY <1>19 DEF End, callVars, closeVars, stopVars
  <1>20. CASE Return
    BY <1>20 DEF Return, closeVars, stopVars
  <1>21. CASE BatchOpen
    BY <1>21 DEF BatchOpen, BatchStep, callVars, closeVars, stopVars
  <1>22. CASE BatchOpenFails
    BY <1>22 DEF BatchOpenFails, BatchStep, callVars, closeVars, stopVars
  <1>23. CASE BatchSubscribe
    BY <1>23 DEF BatchSubscribe, BatchStep, callVars, closeVars, stopVars
  <1>24. CASE BatchSubscribeFails
    BY <1>24 DEF BatchSubscribeFails, BatchStep, callVars, closeVars, stopVars
  <1>25. CASE BatchRecord
    BY <1>25 DEF BatchRecord, BatchStep, callVars, closeVars, stopVars
  <1>26. CASE BatchDue
    BY <1>26 DEF BatchDue, BatchStep, callVars, closeVars, stopVars
  <1>27. CASE BatchStops
    BY <1>27 DEF BatchStops, BatchStep, callVars, closeVars, stopVars
  <1>28. CASE BatchBreaks
    BY <1>28 DEF BatchBreaks, BatchStep, callVars, closeVars, stopVars
  <1>29. CASE BatchProcessed
    BY <1>29 DEF BatchProcessed, BatchStep, callVars, closeVars, stopVars
  <1>30. ASSUME NEW w \in Workers, StreamEnds(w) PROVE OwnLoop'
    BY <1>30 DEF StreamEnds, WorkerStep, callVars, closeVars, stopVars
  <1>31. QED
    BY <1>1, <1>2, <1>3, <1>4, <1>5, <1>6, <1>7, <1>8, <1>9, <1>10, <1>11, <1>12, <1>13,
       <1>14, <1>15, <1>16, <1>17, <1>18, <1>19, <1>20, <1>21, <1>22, <1>23, <1>24, <1>25,
       <1>26, <1>27, <1>28, <1>29, <1>30

\* A subscription becomes active when its worker reaches its deliveries, and inactive before the
\* worker goes on.
LEMMA ActiveIsServed ==
  ASSUME WorkersTyped, HealthTyped, CyclesInv, OwnLoop, ActiveServed, [Next]_vars
  PROVE  ActiveServed'
  <1>1. \/ UNCHANGED <<mode, worker, health>>
        \/ Consume \/ ConsumeBatch \/ EnsureFails \/ SubscribeFails \/ RecordSubscribed
        \/ ChannelSignalled \/ End \/ BatchOpenFails \/ BatchSubscribeFails \/ BatchRecord
        \/ BatchBreaks \/ (\E c \in Chans : CancelNoticed(c))
        \/ (\E w \in Workers : OwnOpenFails(w)) \/ (\E w \in Workers : OwnSubscribeFails(w))
        \/ (\E w \in Workers : OwnRecord(w)) \/ (\E w \in Workers : OwnLeave(w)) \/ SpawnWorkers
        \/ (\E w \in Workers : StreamEnds(w)) \/ (\E w \in Workers : Receive(w))
        \/ (\E w \in Workers : HandlerReturns(w)) \/ (\E w \in Workers : WorkerStops(w))
        \/ (\E w \in Workers : OwnOpen(w)) \/ (\E w \in Workers : OwnSubscribe(w))
        \/ (\E w \in Workers : OwnDelay(w)) \/ (\E w \in Workers : OwnStops(w))
    <2>1. ASSUME LoopNext
         PROVE  \/ UNCHANGED <<mode, worker, health>>
                \/ EnsureFails \/ SubscribeFails \/ RecordSubscribed \/ SpawnWorkers
                \/ ChannelSignalled \/ End
      BY <2>1 DEF LoopNext, Top, EnsureChannel, Delay, Subscribe, ResetStopCh,
         ResetStopOnce, Listen, StopRequested, Drained, Return, LoopStep, SignalStop,
         callVars, closeVars, stopVars
    <2>2. ASSUME BatchNext
         PROVE  \/ UNCHANGED <<mode, worker, health>>
                \/ BatchOpenFails \/ BatchSubscribeFails \/ BatchRecord \/ BatchBreaks
      BY <2>2 DEF BatchNext, BatchOpen, BatchSubscribe, BatchDue, BatchStops,
         BatchProcessed, BatchStep, callVars, closeVars, stopVars
    <2>3. ASSUME CloseNext
         PROVE  \/ UNCHANGED <<mode, worker, health>>
      BY <2>3 DEF CloseNext, Close, CloseSignals, CloseWaited, CloseChannel, CloseStep,
         SignalStop, callVars, closeVars, stopVars
    <2>4. ASSUME BrokerNext
         PROVE  \/ UNCHANGED <<mode, worker, health>>
                \/ (\E c \in Chans : CancelNoticed(c))
      BY <2>4 DEF BrokerNext, ChannelDies, BrokerCancels, Outside, callVars, closeVars,
         stopVars
    <2>5. ASSUME CancelContext
         PROVE  UNCHANGED <<mode, worker, health>>
      BY <2>5 DEF CancelContext, Begin, callVars, closeVars, stopVars
    <2>6. ASSUME UNCHANGED vars
         PROVE  UNCHANGED <<mode, worker, health>>
      BY <2>6 DEF vars, callVars, closeVars, stopVars
    <2>7. QED
      BY <2>1, <2>2, <2>3, <2>4, <2>5, <2>6 DEF Next, WorkerNext
  <1>2. CASE UNCHANGED <<mode, worker, health>>
    BY <1>2 DEF WorkersTyped, HealthTyped, HealthRecord, ActiveServed, CyclesInv, OwnLoop,
        WithWorkers, WorkersOff, Workers
  <1> USE DEF WorkersTyped, HealthTyped, HealthRecord, ActiveServed, CyclesInv, OwnLoop,
      WithWorkers, WorkersOff, Workers
  <1>3. CASE Consume
    BY <1>3 DEF Consume, Begin, HealthBegin, stopVars, NoSub
  <1>4. CASE ConsumeBatch
    BY <1>4 DEF ConsumeBatch, Begin, HealthBegin, stopVars, NoSub
  <1>5. CASE EnsureFails
    BY <1>5 DEF EnsureFails, LoopStep, callVars, closeVars, stopVars, HealthFailed
  <1>6. CASE SubscribeFails
    BY <1>6 DEF SubscribeFails, LoopStep, callVars, closeVars, stopVars, HealthFailed
  <1>7. CASE RecordSubscribed
    BY <1>7 DEF RecordSubscribed, LoopStep, callVars, closeVars, stopVars, HealthSubscribed
  <1>8. CASE ChannelSignalled
    BY <1>8 DEF ChannelSignalled, LoopStep, callVars, closeVars, stopVars, SignalStop, HealthClosed
  <1>9. CASE End
    BY <1>9 DEF End, HealthEnd, callVars, closeVars, stopVars
  <1>10. CASE BatchOpenFails
    BY <1>10 DEF BatchOpenFails, BatchStep, callVars, closeVars, stopVars, HealthFailed
  <1>11. CASE BatchSubscribeFails
    BY <1>11 DEF BatchSubscribeFails, BatchStep, callVars, closeVars, stopVars, HealthFailed
  <1>12. CASE BatchRecord
    BY <1>12 DEF BatchRecord, BatchStep, callVars, closeVars, stopVars, HealthSubscribed
  <1>13. CASE BatchBreaks
    BY <1>13 DEF BatchBreaks, BatchStep, callVars, closeVars, stopVars, HealthClosed
  <1>14. ASSUME NEW c \in Chans, CancelNoticed(c) PROVE ActiveServed'
    BY <1>14 DEF CancelNoticed, Outside, callVars, closeVars, stopVars, HealthCancelled
  <1>15. ASSUME NEW w \in Workers, OwnOpenFails(w) PROVE ActiveServed'
    BY <1>15 DEF OwnOpenFails, OwnStep, callVars, closeVars, stopVars, HealthFailed
  <1>16. ASSUME NEW w \in Workers, OwnSubscribeFails(w) PROVE ActiveServed'
    BY <1>16 DEF OwnSubscribeFails, OwnStep, callVars, closeVars, stopVars, HealthFailed
  <1>17. ASSUME NEW w \in Workers, OwnRecord(w) PROVE ActiveServed'
    BY <1>17 DEF OwnRecord, OwnStep, callVars, closeVars, stopVars, HealthSubscribed
  <1>18. ASSUME NEW w \in Workers, OwnLeave(w) PROVE ActiveServed'
    BY <1>18 DEF OwnLeave, OwnStep, callVars, closeVars, stopVars, HealthClosed
  <1>19. CASE SpawnWorkers
    BY <1>19 DEF SpawnWorkers, LoopStep, callVars, closeVars, stopVars
  <1>20. ASSUME NEW w \in Workers, StreamEnds(w) PROVE ActiveServed'
    BY <1>20 DEF StreamEnds, WorkerStep, callVars, closeVars, stopVars
  <1>21. ASSUME NEW w \in Workers, Receive(w) PROVE ActiveServed'
    BY <1>21 DEF Receive, WorkerStep, callVars, closeVars, stopVars
  <1>22. ASSUME NEW w \in Workers, HandlerReturns(w) PROVE ActiveServed'
    BY <1>22 DEF HandlerReturns, WorkerStep, callVars, closeVars, stopVars
  <1>23. ASSUME NEW w \in Workers, WorkerStops(w) PROVE ActiveServed'
    BY <1>23 DEF WorkerStops, WorkerStep, callVars, closeVars, stopVars
  <1>24. ASSUME NEW w \in Workers, OwnOpen(w) PROVE ActiveServed'
    BY <1>24 DEF OwnOpen, OwnStep, callVars, closeVars, stopVars
  <1>25. ASSUME NEW w \in Workers, OwnSubscribe(w) PROVE ActiveServed'
    BY <1>25 DEF OwnSubscribe, OwnStep, callVars, closeVars, stopVars
  <1>26. ASSUME NEW w \in Workers, OwnDelay(w) PROVE ActiveServed'
    BY <1>26 DEF OwnDelay, OwnStep, callVars, closeVars, stopVars
  <1>27. ASSUME NEW w \in Workers, OwnStops(w) PROVE ActiveServed'
    BY <1>27 DEF OwnStops, OwnStep, callVars, closeVars, stopVars
  <1>28. QED
    BY <1>1, <1>2, <1>3, <1>4, <1>5, <1>6, <1>7, <1>8, <1>9, <1>10, <1>11, <1>12, <1>13,
       <1>14, <1>15, <1>16, <1>17, <1>18, <1>19, <1>20, <1>21, <1>22, <1>23, <1>24, <1>25,
       <1>26, <1>27

\* A pool's channels are channels, and belong to nobody else.
LEMMA PoolsApart ==
  ASSUME NEW w \in Workers
  PROVE  /\ Pool[w] \subseteq Chans /\ Pool[w] \cap ConsumerPool = {} /\ NoChan \notin Pool[w]
         /\ 0 \in Workers /\ ConsumerPool \subseteq Chans /\ NoChan \notin Chans
         /\ \A v \in Workers : v # w => Pool[v] \cap Pool[w] = {}
  BY ConsumerAssumption DEF Chans, Workers

\* A subscription outside the shared mode is made on a channel nothing is queued for.
LEMMA ChannelsKeptApart ==
  ASSUME WorkersTyped, ChansTyped, CyclesInv, OwnLoop, WorkersApart, ChannelsApart, [Next]_vars
  PROVE  ChannelsApart'
  <1>1. \/ UNCHANGED <<ch, batchCh, loop, chans>>
        \/ Consume \/ ConsumeBatch \/ Top \/ EnsureChannel \/ EnsureFails \/ Delay \/ Subscribe
        \/ SubscribeFails \/ RecordSubscribed \/ ResetStopCh \/ ResetStopOnce \/ SpawnWorkers
        \/ Listen \/ StopRequested \/ ChannelSignalled \/ Drained \/ End \/ Return \/ BatchOpen
        \/ BatchOpenFails \/ BatchSubscribe \/ BatchSubscribeFails \/ BatchRecord \/ BatchDue
        \/ BatchStops \/ BatchBreaks \/ BatchProcessed \/ (\E w \in Workers : StreamEnds(w))
        \/ CloseChannel \/ (\E c \in Chans : ChannelDies(c))
        \/ (\E c \in Chans : BrokerCancels(c)) \/ (\E c \in Chans : CancelNoticed(c))
        \/ (\E w \in Workers : OwnOpen(w)) \/ (\E w \in Workers : OwnSubscribe(w))
        \/ (\E w \in Workers : OwnSubscribeFails(w)) \/ (\E w \in Workers : OwnLeave(w))
    <2>1. ASSUME CloseNext
         PROVE  \/ UNCHANGED <<ch, batchCh, loop, chans>>
                \/ CloseChannel
      BY <2>1 DEF CloseNext, Close, CloseSignals, CloseWaited, CloseStep, SignalStop,
         callVars, closeVars, stopVars
    <2>2. ASSUME NEW v \in Workers, WorkerNext(v)
         PROVE  \/ UNCHANGED <<ch, batchCh, loop, chans>>
                \/ (\E w \in Workers : StreamEnds(w)) \/ (\E w \in Workers : OwnOpen(w))
                \/ (\E w \in Workers : OwnSubscribe(w))
                \/ (\E w \in Workers : OwnSubscribeFails(w))
                \/ (\E w \in Workers : OwnLeave(w))
      BY <2>2 DEF WorkerNext, Receive, HandlerReturns, WorkerStops, OwnOpenFails,
         OwnRecord, OwnDelay, OwnStops, WorkerStep, OwnStep, callVars, closeVars,
         stopVars
    <2>3. ASSUME CancelContext
         PROVE  UNCHANGED <<ch, batchCh, loop, chans>>
      BY <2>3 DEF CancelContext, Begin, callVars, closeVars, stopVars
    <2>4. ASSUME UNCHANGED vars
         PROVE  UNCHANGED <<ch, batchCh, loop, chans>>
      BY <2>4 DEF vars, callVars, closeVars, stopVars
    <2>5. QED
      BY <2>1, <2>2, <2>3, <2>4 DEF Next, LoopNext, BatchNext, BrokerNext
  <1>2. CASE UNCHANGED <<ch, batchCh, loop, chans>>
    BY <1>2 DEF ChansTyped, WorkersTyped, ChannelsApart, WorkersApart, CyclesInv, WithWorkers,
        WorkersOff, FreshChannel, NoChannel
  <1> USE ConsumerAssumption, PoolsApart DEF ChansTyped, WorkersTyped, ChannelsApart,
      WorkersApart, CyclesInv, WithWorkers, WorkersOff, FreshChannel, NoChannel
  <1>3. CASE Consume
    BY <1>3 DEF Consume, Begin, stopVars
  <1>4. CASE ConsumeBatch
    BY <1>4 DEF ConsumeBatch, Begin, stopVars
  <1>5. CASE Top
    BY <1>5 DEF Top, LoopStep, callVars, closeVars, stopVars
  <1>6. CASE EnsureChannel
    <2>1. loop' # "batchSubscribe" /\ UNCHANGED batchCh
      BY <1>6 DEF EnsureChannel, LoopStep
    <2>2. CASE UNCHANGED <<ch, chans>>
      BY <2>1, <2>2
    <2>3. ASSUME NEW c \in ConsumerPool, ch' = c,
        chans' = [chans EXCEPT ![c] = FreshChannel] PROVE ChannelsApart'
      BY <2>1, <2>3
    <2>4. QED
      BY <1>6, <2>2, <2>3 DEF EnsureChannel, Opens
  <1>7. CASE EnsureFails
    BY <1>7 DEF EnsureFails, LoopStep, callVars, closeVars, stopVars
  <1>8. CASE Delay
    BY <1>8 DEF Delay, LoopStep, callVars, closeVars, stopVars
  <1>9. CASE Subscribe
    BY <1>9 DEF Subscribe, LoopStep, callVars, closeVars, stopVars, Subscribes
  <1>10. CASE SubscribeFails
    BY <1>10 DEF SubscribeFails, LoopStep, callVars, closeVars, stopVars, Refused, Shut
  <1>11. CASE RecordSubscribed
    BY <1>11 DEF RecordSubscribed, LoopStep, callVars, closeVars, stopVars
  <1>12. CASE ResetStopCh
    BY <1>12 DEF ResetStopCh, LoopStep, callVars, closeVars, stopVars
  <1>13. CASE ResetStopOnce
    BY <1>13 DEF ResetStopOnce, LoopStep, callVars, closeVars, stopVars
  <1>14. CASE SpawnWorkers
    BY <1>14 DEF SpawnWorkers, LoopStep, callVars, closeVars, stopVars
  <1>15. CASE Listen
    BY <1>15 DEF Listen, LoopStep, callVars, closeVars, stopVars
  <1>16. CASE StopRequested
    BY <1>16 DEF StopRequested, LoopStep, callVars, closeVars, stopVars, SignalStop
  <1>17. CASE ChannelSignalled
    BY <1>17 DEF ChannelSignalled, LoopStep, callVars, closeVars, stopVars, SignalStop
  <1>18. CASE Drained
    BY <1>18 DEF Drained, LoopStep, callVars, closeVars, stopVars
  <1>19. CASE End
    BY <1>19 DEF End, callVars, closeVars, stopVars
  <1>20. CASE Return
    BY <1>20 DEF Return, closeVars, stopVars
  <1>21. CASE BatchOpen
    BY <1>21 DEF BatchOpen, BatchStep, callVars, closeVars, stopVars, Opens, Free
  <1>22. CASE BatchOpenFails
    BY <1>22 DEF BatchOpenFails, BatchStep, callVars, closeVars, stopVars
  <1>23. CASE BatchSubscribe
    BY <1>23 DEF BatchSubscribe, BatchStep, callVars, closeVars, stopVars, Subscribes
  <1>24. CASE BatchSubscribeFails
    BY <1>24 DEF BatchSubscribeFails, BatchStep, callVars, closeVars, stopVars, Refused, Shut
  <1>25. CASE BatchRecord
    BY <1>25 DEF BatchRecord, BatchStep, callVars, closeVars, stopVars
  <1>26. CASE BatchDue
    BY <1>26 DEF BatchDue, BatchStep, callVars, closeVars, stopVars
  <1>27. CASE BatchStops
    BY <1>27 DEF BatchStops, BatchStep, callVars, closeVars, stopVars
  <1>28. CASE BatchBreaks
    BY <1>28 DEF BatchBreaks, BatchStep, callVars, closeVars, stopVars
  <1>29. CASE BatchProcessed
    BY <1>29 DEF BatchProcessed, BatchStep, callVars, closeVars, stopVars
  <1>30. ASSUME NEW w \in Workers, StreamEnds(w) PROVE ChannelsApart'
    BY <1>30 DEF StreamEnds, WorkerStep, callVars, closeVars, stopVars
  <1>31. CASE CloseChannel
    BY <1>31 DEF CloseChannel, CloseStep, stopVars, Shut
  <1>32. ASSUME NEW c \in Chans, ChannelDies(c) PROVE ChannelsApart'
    BY <1>32 DEF ChannelDies, Outside, callVars, closeVars, stopVars, Shut
  <1>33. ASSUME NEW c \in Chans, BrokerCancels(c) PROVE ChannelsApart'
    BY <1>33 DEF BrokerCancels, Outside, callVars, closeVars, stopVars
  <1>34. ASSUME NEW c \in Chans, CancelNoticed(c) PROVE ChannelsApart'
    BY <1>34 DEF CancelNoticed, Outside, callVars, closeVars, stopVars
  <1>35. ASSUME NEW w \in Workers, OwnOpen(w) PROVE ChannelsApart'
    BY <1>35 DEF OwnOpen, OwnStep, callVars, closeVars, stopVars, Opens, Free
  <1>36. ASSUME NEW w \in Workers, OwnSubscribe(w) PROVE ChannelsApart'
    <2>1. worker[w].pc = "subscribe"
      BY <1>36 DEF OwnSubscribe
    <2>2. mode = "own"
      BY <2>1
    <2>3. loop # "batchSubscribe"
      BY <2>2 DEF OwnLoop
    <2>4. worker[w].ch \in Chans /\ ~chans[worker[w].ch].notice
      BY <2>1, <2>2
    <2>5. chans' = [chans EXCEPT ![worker[w].ch].state = "live"] /\ UNCHANGED <<ch, batchCh, loop>>
      BY <1>36 DEF OwnSubscribe, OwnStep, callVars, closeVars, stopVars, Subscribes
    <2>6. QED
      BY <2>3, <2>4, <2>5
  <1>37. ASSUME NEW w \in Workers, OwnSubscribeFails(w) PROVE ChannelsApart'
    BY <1>37 DEF OwnSubscribeFails, OwnStep, callVars, closeVars, stopVars, Refused, Shut
  <1>38. ASSUME NEW w \in Workers, OwnLeave(w) PROVE ChannelsApart'
    BY <1>38 DEF OwnLeave, OwnStep, callVars, closeVars, stopVars, Shut
  <1>39. QED
    BY <1>1, <1>2, <1>3, <1>4, <1>5, <1>6, <1>7, <1>8, <1>9, <1>10, <1>11, <1>12, <1>13,
       <1>14, <1>15, <1>16, <1>17, <1>18, <1>19, <1>20, <1>21, <1>22, <1>23, <1>24, <1>25,
       <1>26, <1>27, <1>28, <1>29, <1>30, <1>31, <1>32, <1>33, <1>34, <1>35, <1>36, <1>37,
       <1>38

\* A notice that is on its way to the record is about no live channel of a worker.
LEMMA WorkersKeptApart ==
  ASSUME WorkersTyped, ChansTyped, HealthTyped, CyclesInv, OwnLoop, ChannelsApart, WorkersApart,
      [Next]_vars
  PROVE  WorkersApart'
  <1>1. \/ UNCHANGED <<mode, worker, chans, health>>
        \/ Consume \/ ConsumeBatch \/ EnsureChannel \/ EnsureFails \/ Subscribe
        \/ SubscribeFails \/ RecordSubscribed \/ SpawnWorkers \/ ChannelSignalled \/ End
        \/ Return \/ BatchOpen \/ BatchOpenFails \/ BatchSubscribe \/ BatchSubscribeFails
        \/ BatchRecord \/ BatchBreaks \/ CloseChannel \/ (\E c \in Chans : ChannelDies(c))
        \/ (\E c \in Chans : BrokerCancels(c)) \/ (\E c \in Chans : CancelNoticed(c))
        \/ (\E w \in Workers : Receive(w)) \/ (\E w \in Workers : HandlerReturns(w))
        \/ (\E w \in Workers : WorkerStops(w)) \/ (\E w \in Workers : StreamEnds(w))
        \/ (\E w \in Workers : OwnOpen(w)) \/ (\E w \in Workers : OwnOpenFails(w))
        \/ (\E w \in Workers : OwnSubscribe(w)) \/ (\E w \in Workers : OwnSubscribeFails(w))
        \/ (\E w \in Workers : OwnRecord(w)) \/ (\E w \in Workers : OwnLeave(w))
        \/ (\E w \in Workers : OwnDelay(w)) \/ (\E w \in Workers : OwnStops(w))
    <2>1. ASSUME LoopNext
         PROVE  \/ UNCHANGED <<mode, worker, chans, health>>
                \/ EnsureChannel \/ EnsureFails \/ Subscribe \/ SubscribeFails
                \/ RecordSubscribed \/ SpawnWorkers \/ ChannelSignalled \/ End \/ Return
      BY <2>1 DEF LoopNext, Top, Delay, ResetStopCh, ResetStopOnce, Listen,
         StopRequested, Drained, LoopStep, SignalStop, callVars, closeVars, stopVars
    <2>2. ASSUME BatchNext
         PROVE  \/ UNCHANGED <<mode, worker, chans, health>>
                \/ BatchOpen \/ BatchOpenFails \/ BatchSubscribe \/ BatchSubscribeFails
                \/ BatchRecord \/ BatchBreaks
      BY <2>2 DEF BatchNext, BatchDue, BatchStops, BatchProcessed, BatchStep, callVars,
         closeVars, stopVars
    <2>3. ASSUME CloseNext
         PROVE  \/ UNCHANGED <<mode, worker, chans, health>>
                \/ CloseChannel
      BY <2>3 DEF CloseNext, Close, CloseSignals, CloseWaited, CloseStep, SignalStop,
         callVars, closeVars, stopVars
    <2>4. ASSUME CancelContext
         PROVE  UNCHANGED <<mode, worker, chans, health>>
      BY <2>4 DEF CancelContext, Begin, callVars, closeVars, stopVars
    <2>5. ASSUME UNCHANGED vars
         PROVE  UNCHANGED <<mode, worker, chans, health>>
      BY <2>5 DEF vars, callVars, closeVars, stopVars
    <2>6. QED
      BY <2>1, <2>2, <2>3, <2>4, <2>5 DEF Next, BrokerNext, WorkerNext
  <1>2. CASE UNCHANGED <<mode, worker, chans, health>>
    BY <1>2 DEF ChansTyped, WorkersTyped, HealthTyped, HealthRecord, ChannelsApart,
        WorkersApart, OwnLoop, CyclesInv, WithWorkers, WorkersOff, FreshChannel, NoChannel, Workers
  <1> USE ConsumerAssumption, PoolsApart DEF ChansTyped, WorkersTyped, HealthTyped,
      HealthRecord, ChannelsApart, WorkersApart, OwnLoop, CyclesInv, WithWorkers, WorkersOff,
          FreshChannel, NoChannel, Workers
  <1>3. CASE Consume
    BY <1>3 DEF Consume, Begin, HealthBegin, stopVars
  <1>4. CASE ConsumeBatch
    BY <1>4 DEF ConsumeBatch, Begin, HealthBegin, stopVars
  <1>5. CASE EnsureChannel
    BY <1>5 DEF EnsureChannel, LoopStep, callVars, closeVars, stopVars, Opens, Free
  <1>6. CASE EnsureFails
    BY <1>6 DEF EnsureFails, LoopStep, callVars, closeVars, stopVars, HealthFailed
  <1>7. CASE Subscribe
    BY <1>7 DEF Subscribe, LoopStep, callVars, closeVars, stopVars, Subscribes
  <1>8. CASE SubscribeFails
    BY <1>8 DEF SubscribeFails, LoopStep, callVars, closeVars, stopVars, Refused, Shut, HealthFailed
  <1>9. CASE RecordSubscribed
    BY <1>9 DEF RecordSubscribed, LoopStep, callVars, closeVars, stopVars, HealthSubscribed
  <1>10. CASE SpawnWorkers
    BY <1>10 DEF SpawnWorkers, LoopStep, callVars, closeVars, stopVars
  <1>11. CASE ChannelSignalled
    BY <1>11 DEF ChannelSignalled, LoopStep, callVars, closeVars, stopVars, SignalStop, HealthClosed
  <1>12. CASE End
    BY <1>12 DEF End, HealthEnd, callVars, closeVars, stopVars
  <1>13. CASE Return
    BY <1>13 DEF Return, closeVars, stopVars
  <1>14. CASE BatchOpen
    BY <1>14 DEF BatchOpen, BatchStep, callVars, closeVars, stopVars, Opens, Free
  <1>15. CASE BatchOpenFails
    BY <1>15 DEF BatchOpenFails, BatchStep, callVars, closeVars, stopVars, HealthFailed
  <1>16. CASE BatchSubscribe
    BY <1>16 DEF BatchSubscribe, BatchStep, callVars, closeVars, stopVars, Subscribes
  <1>17. CASE BatchSubscribeFails
    BY <1>17 DEF BatchSubscribeFails, BatchStep, callVars, closeVars, stopVars, Refused, Shut,
        HealthFailed
  <1>18. CASE BatchRecord
    BY <1>18 DEF BatchRecord, BatchStep, callVars, closeVars, stopVars, HealthSubscribed
  <1>19. CASE BatchBreaks
    BY <1>19 DEF BatchBreaks, BatchStep, callVars, closeVars, stopVars, HealthClosed
  <1>20. CASE CloseChannel
    BY <1>20 DEF CloseChannel, CloseStep, stopVars, Shut
  <1>21. ASSUME NEW c \in Chans, ChannelDies(c) PROVE WorkersApart'
    BY <1>21 DEF ChannelDies, Outside, callVars, closeVars, stopVars, Shut
  <1>22. ASSUME NEW c \in Chans, BrokerCancels(c) PROVE WorkersApart'
    BY <1>22 DEF BrokerCancels, Outside, callVars, closeVars, stopVars
  <1>23. ASSUME NEW c \in Chans, CancelNoticed(c) PROVE WorkersApart'
    BY <1>23 DEF CancelNoticed, Outside, callVars, closeVars, stopVars, HealthCancelled
  <1>24. ASSUME NEW w \in Workers, Receive(w) PROVE WorkersApart'
    BY <1>24 DEF Receive, WorkerStep, callVars, closeVars, stopVars
  <1>25. ASSUME NEW w \in Workers, HandlerReturns(w) PROVE WorkersApart'
    BY <1>25 DEF HandlerReturns, WorkerStep, callVars, closeVars, stopVars
  <1>26. ASSUME NEW w \in Workers, WorkerStops(w) PROVE WorkersApart'
    BY <1>26 DEF WorkerStops, WorkerStep, callVars, closeVars, stopVars
  <1>27. ASSUME NEW w \in Workers, StreamEnds(w) PROVE WorkersApart'
    <2>1. CASE mode = "own"
      BY <1>27, <2>1 DEF StreamEnds, WorkerStep, callVars, closeVars, stopVars
    <2>2. CASE mode # "own"
      BY <1>27, <2>2 DEF StreamEnds, WorkerStep, callVars, closeVars, stopVars
    <2>3. QED
      BY <2>1, <2>2
  <1>28. ASSUME NEW w \in Workers, OwnOpen(w) PROVE WorkersApart'
    BY <1>28 DEF OwnOpen, OwnStep, callVars, closeVars, stopVars, Opens, Free
  <1>29. ASSUME NEW w \in Workers, OwnOpenFails(w) PROVE WorkersApart'
    BY <1>29 DEF OwnOpenFails, OwnStep, callVars, closeVars, stopVars, HealthFailed
  <1>30. ASSUME NEW w \in Workers, OwnSubscribe(w) PROVE WorkersApart'
    BY <1>30 DEF OwnSubscribe, OwnStep, callVars, closeVars, stopVars, Subscribes
  <1>31. ASSUME NEW w \in Workers, OwnSubscribeFails(w) PROVE WorkersApart'
    BY <1>31 DEF OwnSubscribeFails, OwnStep, callVars, closeVars, stopVars, Refused, Shut,
        HealthFailed
  <1>32. ASSUME NEW w \in Workers, OwnRecord(w) PROVE WorkersApart'
    BY <1>32 DEF OwnRecord, OwnStep, callVars, closeVars, stopVars, HealthSubscribed
  <1>33. ASSUME NEW w \in Workers, OwnLeave(w) PROVE WorkersApart'
    <2>1. worker[w].pc \in {"leave", "lost"}
      BY <1>33 DEF OwnLeave
    <2>2. mode = "own" /\ worker[w].ch \in Pool[w]
      BY <2>1
    <2>3. PICK pc \in {"delay", "get"} : worker' = [worker EXCEPT ![w] = [pc |-> pc, ch |-> NoChan]]
      BY <2>1, <1>33 DEF OwnLeave, OwnStep
    <2>4. UNCHANGED mode /\ chans' = Shut(chans, worker[w].ch) /\ health' = HealthClosed(health, w)
      BY <1>33 DEF OwnLeave, OwnStep, callVars
    <2>6. worker'[w] = [pc |-> pc, ch |-> NoChan]
      BY <2>3
    <2>7. \A c \in Chans :
                          /\ chans'[c].state = "live" => chans[c].state = "live"
                          /\ chans[c].state \in {"idle", "dead"} => chans'[c].state \in {"idle",
                              "dead"}
                          /\ chans'[c].notice = chans[c].notice
      BY <2>4 DEF Shut
    <2>8. \A v \in Workers : v # w => worker'[v] = worker[v] /\ health'.subs[v] = health.subs[v]
      BY <2>3, <2>4 DEF HealthClosed
    <2>9. mode' = "own"
      BY <2>2, <2>4
    <2>10. \A v \in Workers : worker[v].pc \in {"subscribe", "run",
        "busy"} => worker[v].ch \in Chans
      BY <2>2
    <2> HIDE DEF WorkersTyped, ChansTyped, HealthTyped, ChannelsApart, CyclesInv, OwnLoop
    <2>11. SUFFICES ASSUME NEW v \in Workers, v # w
                     PROVE  LET c == worker[v].ch IN
                       /\ worker[v].pc \in {"subscribe", "consumed", "run", "busy", "leave",
                           "lost"} => c \in Pool[v]
                       /\ worker[v].pc = "subscribe" => chans'[c].state \in {"idle",
                           "dead"} /\ ~chans'[c].notice
                       /\ worker[v].pc \in {"run", "busy"} /\ chans'[c].state = "live" =>
                            health.subs[v].active /\ health.subs[v].ch = c
      BY <2>6, <2>8, <2>9
    <2>12. worker[v].pc \in {"subscribe", "consumed", "run", "busy", "leave",
        "lost"} => worker[v].ch \in Pool[v]
      BY <2>2
    <2>13. ASSUME worker[v].pc = "subscribe"
           PROVE  chans'[worker[v].ch].state \in {"idle", "dead"} /\ ~chans'[worker[v].ch].notice
      <3>1. worker[v].ch \in Chans
        BY <2>10, <2>13
      <3>2. chans[worker[v].ch].state \in {"idle", "dead"}
        BY <2>2, <2>13
      <3>3. ~chans[worker[v].ch].notice
        BY <2>2, <2>13
      <3> HIDE DEF WorkersApart
      <3>4. QED
        BY Zenon, <2>7, <3>1, <3>2, <3>3
    <2>14. ASSUME worker[v].pc \in {"run", "busy"}, chans'[worker[v].ch].state = "live"
           PROVE  health.subs[v].active /\ health.subs[v].ch = worker[v].ch
      <3>1. worker[v].ch \in Chans
        BY <2>10, <2>14
      <3>2. chans[worker[v].ch].state = "live"
        BY Zenon, <2>7, <2>14, <3>1
      <3>3. QED
        BY <2>2, <2>14, <3>2
    <2>15. QED
      BY <2>12, <2>13, <2>14
  <1>34. ASSUME NEW w \in Workers, OwnDelay(w) PROVE WorkersApart'
    BY <1>34 DEF OwnDelay, OwnStep, callVars, closeVars, stopVars
  <1>35. ASSUME NEW w \in Workers, OwnStops(w) PROVE WorkersApart'
    BY <1>35 DEF OwnStops, OwnStep, callVars, closeVars, stopVars
  <1>36. QED
    BY <1>1, <1>2, <1>3, <1>4, <1>5, <1>6, <1>7, <1>8, <1>9, <1>10, <1>11, <1>12, <1>13,
       <1>14, <1>15, <1>16, <1>17, <1>18, <1>19, <1>20, <1>21, <1>22, <1>23, <1>24, <1>25,
       <1>26, <1>27, <1>28, <1>29, <1>30, <1>31, <1>32, <1>33, <1>34, <1>35

-----------------------------------------------------------------------------
\* The inductive invariant: each part is kept by the lemma above that is about it, which
\* cites the parts it rests on.
LoopInv == /\ TypeOK /\ StopHeard /\ CyclesInv /\ OwnLoop /\ ActiveServed
           /\ ChannelsApart /\ WorkersApart

LEMMA InitInv == Init => LoopInv
  <1> SUFFICES ASSUME Init PROVE LoopInv
    OBVIOUS
  <1>1. 1 \in Chans /\ NoChan \notin Chans /\ 0 \in Subs /\ 1 \in ConsumerPool
    BY ConsumerAssumption DEF Chans
  <1>2. TypeOK
    <2>1. ScalarsTyped
      BY <1>1 DEF Init, ScalarsTyped, Modes, LoopPCs
    <2>2. WorkersTyped
      BY <1>1 DEF Init, WorkersTyped, WorkerPCs
    <2>3. ChansTyped
      BY <1>1 DEF Init, ChansTyped, ChanStates, FreshChannel, NoChannel
    <2>4. HealthTyped
      BY <1>1 DEF Init, HealthTyped, HealthRecord, InitHealth, NoSub
    <2>5. QED
      BY <2>1, <2>2, <2>3, <2>4 DEF TypeOK
  <1>3. StopHeard /\ CyclesInv /\ OwnLoop /\ ActiveServed
    BY DEF Init, StopHeard, CyclesInv, WorkersOff, OwnLoop, ActiveServed
  <1>4. ChannelsApart
    BY <1>1 DEF Init, ChannelsApart, FreshChannel, NoChannel
  <1>5. WorkersApart
    BY DEF Init, WorkersApart
  <1>6. QED
    BY <1>2, <1>3, <1>4, <1>5 DEF LoopInv

LEMMA StepInv == LoopInv /\ [Next]_vars => LoopInv'
  <1> SUFFICES ASSUME LoopInv, [Next]_vars PROVE LoopInv'
    OBVIOUS
  <1>1. TypeOK'
    BY WorkerTypes, ChannelTypes, HealthTypes, ScalarTypes DEF LoopInv, TypeOK
  <1>2. StopHeard'
    BY StopIsHeard DEF LoopInv
  <1>3. CyclesInv'
    BY WorkersInCycles DEF LoopInv, TypeOK
  <1>4. OwnLoop'
    BY LoopOfOwn DEF LoopInv
  <1>5. ActiveServed'
    BY ActiveIsServed DEF LoopInv, TypeOK
  <1>6. ChannelsApart'
    BY ChannelsKeptApart DEF LoopInv, TypeOK
  <1>7. WorkersApart'
    BY WorkersKeptApart DEF LoopInv, TypeOK
  <1>8. QED
    BY <1>1, <1>2, <1>3, <1>4, <1>5, <1>6, <1>7 DEF LoopInv

\* What the consumer, its workers and its record go through in every behaviour.
THEOREM LoopInvariant == Spec => []LoopInv
  <1>1. QED
    BY InitInv, StepInv, PTL DEF Spec

\* Consumer, workers, channels and record keep their types (all of consumer.go's loops).
THEOREM WellTyped == Spec => []TypeOK
  <1>1. LoopInv => TypeOK
    BY DEF LoopInv
  <1>2. QED
    BY <1>1, LoopInvariant, PTL

\* Consume waits for the workers of a cycle before it prepares the next one.
THEOREM CyclesApart == Spec => []CyclesDoNotOverlap
  <1>1. LoopInv => CyclesDoNotOverlap
    BY DEF LoopInv, CyclesInv, WithWorkers, CyclesDoNotOverlap
  <1>2. QED
    BY <1>1, LoopInvariant, PTL

\* A Close that found the call waiting is never followed by another subscription of that call.
THEOREM StopsForGood == Spec => []StoppedForGood
  <1>1. LoopInv => StoppedForGood
    BY DEF LoopInv, StopHeard, StoppedForGood
  <1>2. QED
    BY <1>1, LoopInvariant, PTL

\* A Close that found Consume waiting goes on to close the channel only when the last of its
\* workers has ended, and with it every handler that Consume runs.
THEOREM CloseWaits == Spec => []CloseWaitsForWorkers
  <1>1. LoopInv => CloseWaitsForWorkers
    BY DEF LoopInv, CyclesInv, CloseWaitsForWorkers
  <1>2. QED
    BY <1>1, LoopInvariant, PTL

\* The verdict "ok" of a ChannelPerWorker consumer has a worker behind it.
THEOREM OkIsServed == Spec => []HealthyMeansServed
  <1>1. ASSUME LoopInv, mode = "own", NEW c \in Circumstances, HealthAssess(health, c) = "ok"
        PROVE  \E w \in Workers : worker[w].pc \in {"run", "busy", "leave", "lost"}
    <2>1. PICK s \in Subs : health.subs[s].active
      BY <1>1 DEF HealthAssess, Consuming
    <2>2. worker[s].pc \in {"run", "busy", "leave", "lost"}
      BY <1>1, <2>1 DEF LoopInv, ActiveServed
    <2>3. QED
      BY <2>2 DEF Workers
  <1>2. LoopInv => HealthyMeansServed
    BY <1>1 DEF HealthyMeansServed
  <1>3. QED
    BY <1>2, LoopInvariant, PTL

\* The verdict "stalled", which asks for a restart, is never given on a consumer one of whose
\* workers has a live subscription on its own channel.
THEOREM NoWorkerBlamed == Spec => []NeverBlamedWhileConsuming
  <1>1. ASSUME LoopInv, mode = "own", NEW w \in Workers, Served(w), NEW c \in Circumstances
        PROVE  HealthAssess(health, c) # "stalled"
    <2>1. worker[w].pc \in {"run", "busy"} /\ chans[worker[w].ch].state = "live"
      BY <1>1 DEF Served
    <2>2. health.subs[w].active
      BY <1>1, <2>1 DEF LoopInv, WorkersApart
    <2>3. Consuming(health)
      BY <2>2 DEF Consuming, Workers
    <2>4. QED
      BY <2>3 DEF HealthAssess
  <1>2. LoopInv => NeverBlamedWhileConsuming
    BY <1>1 DEF NeverBlamedWhileConsuming
  <1>3. QED
    BY <1>2, LoopInvariant, PTL

=============================================================================
