---------------------------- MODULE ConsumerLoop ----------------------------
(***************************************************************************)
(* One Consumer (consumer.go): the goroutine that called Consume or        *)
(* ConsumeBatch, its workers, a concurrent Close, the goroutines that      *)
(* listen for a broker-side cancel, and the broker, which may close a      *)
(* channel or cancel a subscription between any two steps.                 *)
(*                                                                         *)
(* A call runs in one of three modes: "shared" (workers share the          *)
(* consumer's channel and the loop re-subscribes), "own" (ChannelPerWorker:*)
(* each worker subscribes on a channel of its own), "batch".  mu is the    *)
(* consumer's mutex; the stop channel and its sync.Once are two fields     *)
(* that a new cycle replaces one after the other with no lock.             *)
(***************************************************************************)
EXTENDS ConsumerHealth, FiniteSets

CONSTANTS ConsumerPool, \* the AMQP channels c.ch may be given
          Pool,         \* Pool[s]: those that worker s (for s = 0, ConsumeBatch) may be given
          SharedCrew,   \* the workers when they share a channel, and
          OwnCrew       \*   with ChannelPerWorker: 0 .. Concurrency - 1

Workers == Subs
Chans == ConsumerPool \cup UNION {Pool[s] : s \in Subs}

\* The subscription id watchCancel was given with c.
Owner(c) == IF c \in ConsumerPool THEN 0 ELSE CHOOSE s \in Subs : c \in Pool[s]

ASSUME ConsumerAssumption ==
  /\ 0 \in Subs /\ Subs \subseteq Nat /\ NoChan = 0
  /\ SharedCrew \subseteq Subs /\ OwnCrew \subseteq Subs
  /\ ConsumerPool \subseteq Nat \ {0} /\ 1 \in ConsumerPool
  /\ Pool \in [Subs -> SUBSET (Nat \ ({0} \cup ConsumerPool))]
  /\ \A s, t \in Subs : s # t => Pool[s] \cap Pool[t] = {}

VARIABLES
  perWorker,    \* consumerConfig.ChannelPerWorker
  mode,         \* mode of the present (or last) call
  loop,         \* where the calling goroutine is; "idle": no call is running
  consuming,    \* c.consuming
  ch,           \* c.ch
  batchCh,      \* the channel ConsumeBatch opened for itself
  stopClosed,   \* c.stopCh is closed
  onceDone,     \* c.stopOnce has run
  crashed,      \* a closed channel was closed again: the program is gone
  ctxDone,      \* the call's context is cancelled
  worker,       \* [pc, ch] of each worker
  chans,        \* [state, notice] of each AMQP channel
  health,       \* c.health
  closer,       \* where the goroutine in Close is; other than "idle" it holds mu
  heard         \* history: Close signalled a call that was waiting for it

callVars == <<perWorker, mode, consuming>>
stopVars == <<stopClosed, onceDone, crashed>>
closeVars == <<closer, heard>>
vars == <<callVars, loop, ch, batchCh, stopVars, ctxDone, worker, chans, health, closeVars>>

Modes == {"shared", "own", "batch"}
LoopPCs == {"idle", "begin", "ensure", "delay", "subscribe", "consumed", "reset", "resetOnce",
            "spawn", "spawned", "wait", "signalled", "drainStop", "drainClosed",
            "dial", "batchSubscribe", "batchConsumed", "batchRun", "batchFlush", "batchStopped",
            "batchBroken", "ending", "failed", "unlock"}
Listening == {"spawned", "wait", "batchRun", "batchFlush"}
WorkerPCs == {"off", "get", "delay", "subscribe", "consumed", "run", "busy", "leave", "lost"}
\* An open channel is idle, has a live subscription, or had it cancelled.
ChanStates == {"idle", "live", "cancelled", "dead"}

ScalarsTyped ==
  /\ perWorker \in BOOLEAN /\ mode \in Modes /\ loop \in LoopPCs /\ consuming \in BOOLEAN
  /\ ch \in Chans /\ batchCh \in Chans \cup {NoChan}
  /\ stopClosed \in BOOLEAN /\ onceDone \in BOOLEAN /\ crashed \in BOOLEAN /\ ctxDone \in BOOLEAN
  /\ closer \in {"idle", "stop", "waitWorkers", "closeChannel"}
  /\ heard \in BOOLEAN

WorkersTyped == worker \in [Workers -> [pc : WorkerPCs, ch : Chans \cup {NoChan}]]
ChansTyped == chans \in [Chans -> [state : ChanStates, notice : BOOLEAN]]
HealthRecord ==
  [begun : BOOLEAN, stopped : BOOLEAN,
   subs : [Subs -> [ch : Chans \cup {NoChan}, active : BOOLEAN, cancelled : BOOLEAN]]]
HealthTyped == health \in HealthRecord

TypeOK == ScalarsTyped /\ WorkersTyped /\ ChansTyped /\ HealthTyped
-----------------------------------------------------------------------------
FreshChannel == [state |-> "idle", notice |-> FALSE]
NoChannel == [FreshChannel EXCEPT !.state = "dead"]
IsOpen(c) == chans[c].state # "dead"
StreamClosed(c) == chans[c].state \in {"cancelled", "dead"}

\* A channel nothing refers to any more: its number may name the next one.
Free(c) ==
  /\ (c = ch => ~IsOpen(c)) /\ c # batchCh /\ ~chans[c].notice
  /\ \A w \in Workers : worker[w].ch # c
  /\ \A s \in Subs : health.subs[s].ch # c

\* client.getChannel and Qos succeeded with channel c, one of pool.
Opens(c, pool) ==
  /\ c \in pool /\ Free(c) /\ \A d \in pool : Free(d) => c <= d
  /\ chans' = [chans EXCEPT ![c] = FreshChannel]

\* ch.Close, or the death of the channel: its subscription ends with it.
Shut(chs, c) == [chs EXCEPT ![c].state = "dead"]

\* watchCancel followed by a successful ch.Consume; a refused one closes the channel.
Subscribes(c) == IsOpen(c) /\ chans' = [chans EXCEPT ![c].state = "live"]
Refused(c) == chans' = Shut(chans, c)

Crew == IF perWorker THEN OwnCrew ELSE SharedCrew
WorkersOff == \A w \in Workers : worker[w].pc = "off"

\* stopOnce.Do(func() { close(c.stopCh) }); closing a closed channel panics.
SignalStop ==
  /\ onceDone' = TRUE
  /\ stopClosed' = TRUE
  /\ crashed' = (crashed \/ (~onceDone /\ stopClosed))

Init ==
  /\ perWorker \in BOOLEAN /\ mode = "shared" /\ loop = "idle" /\ consuming = FALSE
  /\ ch = 1 /\ batchCh = NoChan
  /\ stopClosed = FALSE /\ onceDone = FALSE /\ crashed = FALSE /\ ctxDone = FALSE
  /\ worker = [w \in Workers |-> [pc |-> "off", ch |-> NoChan]]
  /\ chans = [c \in Chans |-> IF c = 1 THEN FreshChannel ELSE NoChannel]
  /\ health = InitHealth
  /\ closer = "idle" /\ heard = FALSE
-----------------------------------------------------------------------------
(* The call: Consume and ConsumeBatch claim "consuming" under mu and record  *)
(* the beginning; both end by recording the end, then taking mu to give it up.*)

Begin(m) ==
  /\ loop = "idle" /\ closer = "idle" /\ ~consuming
  /\ consuming' = TRUE /\ mode' = m /\ ctxDone' = FALSE /\ heard' = FALSE
  /\ health' = HealthBegin(health)
  /\ loop' = CASE m = "shared" -> "begin" [] m = "own" -> "reset" [] m = "batch" -> "dial"
  /\ UNCHANGED <<perWorker, ch, batchCh, stopVars, worker, chans, closer>>

Consume == Begin(IF perWorker THEN "own" ELSE "shared")
ConsumeBatch == Begin("batch")

\* "failed" is an unclean return, which only ConsumeBatch makes.
End ==
  /\ loop \in {"ending", "failed"}
  /\ health' = HealthEnd(health, loop = "ending")
  /\ loop' = "unlock"
  /\ UNCHANGED <<callVars, ch, batchCh, stopVars, ctxDone, worker, chans, closeVars>>

Return ==
  /\ loop = "unlock" /\ closer = "idle"
  /\ loop' = "idle" /\ consuming' = FALSE
  \* A batch leaves its channel open, with nobody to close it: the model gives
  \* the number back.
  /\ batchCh' = NoChan
  /\ chans' = IF batchCh = NoChan THEN chans ELSE [chans EXCEPT ![batchCh] = NoChannel]
  /\ UNCHANGED <<perWorker, mode, ch, stopVars, ctxDone, worker, health, closeVars>>

CancelContext ==
  /\ loop # "idle" /\ ~ctxDone
  /\ ctxDone' = TRUE
  /\ UNCHANGED <<callVars, loop, ch, batchCh, stopVars, worker, chans, health, closeVars>>
-----------------------------------------------------------------------------
(* The loop of the shared mode, and what the own mode shares with it.        *)

LoopStep(pc) == loop' = pc /\ UNCHANGED <<callVars, batchCh, ctxDone, closeVars>>

Top ==
  /\ loop = "begin"
  /\ LoopStep(IF ctxDone THEN "ending" ELSE "ensure")
  /\ UNCHANGED <<ch, stopVars, worker, chans, health>>

EnsureChannel ==
  /\ loop = "ensure" /\ LoopStep("subscribe")
  /\ \/ IsOpen(ch) /\ UNCHANGED <<ch, chans>>
     \/ ~IsOpen(ch) /\ \E c \in Chans : Opens(c, ConsumerPool) /\ ch' = c
  /\ UNCHANGED <<stopVars, worker, health>>

EnsureFails ==
  /\ loop = "ensure" /\ ~IsOpen(ch)
  /\ health' = HealthFailed(health, 0) /\ LoopStep("delay")
  /\ UNCHANGED <<ch, stopVars, worker, chans>>

Delay ==
  /\ loop = "delay"
  /\ \/ LoopStep("begin")
     \/ ctxDone /\ LoopStep("ending")
  /\ UNCHANGED <<ch, stopVars, worker, chans, health>>

Subscribe ==
  /\ loop = "subscribe"
  /\ Subscribes(ch) /\ LoopStep("consumed")
  /\ UNCHANGED <<ch, stopVars, worker, health>>

SubscribeFails ==
  /\ loop = "subscribe"
  /\ Refused(ch) /\ health' = HealthFailed(health, 0) /\ LoopStep("delay")
  /\ UNCHANGED <<ch, stopVars, worker>>

RecordSubscribed ==
  /\ loop = "consumed"
  /\ health' = HealthSubscribed(health, 0, ch) /\ LoopStep("reset")
  /\ UNCHANGED <<ch, stopVars, worker, chans>>

\* c.stopCh = make(...), then c.stopOnce = sync.Once{}: two unlocked writes.
ResetStopCh ==
  /\ loop = "reset"
  /\ stopClosed' = FALSE /\ LoopStep("resetOnce")
  /\ UNCHANGED <<ch, onceDone, crashed, worker, chans, health>>

ResetStopOnce ==
  /\ loop = "resetOnce"
  /\ onceDone' = FALSE /\ LoopStep("spawn")
  /\ UNCHANGED <<ch, stopClosed, crashed, worker, chans, health>>

\* One after the other; one that has not been started is one that has not run, which only a
\* Close could tell apart that began before the loop listens, and such a Close may miss all.
SpawnWorkers ==
  /\ loop = "spawn" /\ LoopStep("spawned")
  /\ worker' = [w \in Workers |->
                  IF w \notin Crew THEN worker[w]
                  ELSE IF mode = "own" THEN [pc |-> "get", ch |-> NoChan]
                  ELSE [pc |-> "run", ch |-> ch]]
  /\ UNCHANGED <<ch, stopVars, chans, health>>

\* The goroutine reaches its select: from here a worker's signal finds it.
Listen ==
  /\ loop = "spawned" /\ LoopStep("wait")
  /\ UNCHANGED <<ch, stopVars, worker, chans, health>>

StopRequested ==
  /\ loop = "wait" /\ LoopStep("drainStop")
  /\ \/ stopClosed /\ UNCHANGED stopVars
     \/ ctxDone /\ SignalStop
  /\ UNCHANGED <<ch, worker, chans, health>>

ChannelSignalled ==
  /\ loop = "signalled" /\ LoopStep("drainClosed")
  /\ health' = HealthClosed(health, 0) /\ SignalStop
  /\ UNCHANGED <<ch, worker, chans>>

\* Mutant: the loop reconnects without waiting for the workers.
DrainedNoWait ==
  /\ loop \in {"drainStop", "drainClosed"} /\ (loop = "drainStop" => WorkersOff)
  /\ LoopStep(IF loop = "drainStop" THEN "ending" ELSE "begin")
  /\ UNCHANGED <<ch, stopVars, worker, chans, health>>

\* c.wg.Wait() returned.
Drained ==
  /\ loop \in {"drainStop", "drainClosed"} /\ WorkersOff
  /\ LoopStep(IF loop = "drainStop" THEN "ending" ELSE "begin")
  /\ UNCHANGED <<ch, stopVars, worker, chans, health>>
-----------------------------------------------------------------------------
(* Workers.                                                                  *)

Stopping == ctxDone \/ stopClosed

WorkerStep(w, pc) ==
  /\ worker' = [worker EXCEPT ![w].pc = pc,
                              ![w].ch = IF pc = "off" THEN NoChan ELSE @]
  /\ UNCHANGED <<callVars, ch, batchCh, stopVars, ctxDone, closeVars>>

Receive(w) ==
  /\ worker[w].pc = "run" /\ chans[worker[w].ch].state = "live"
  /\ WorkerStep(w, "busy") /\ UNCHANGED <<loop, chans, health>>

HandlerReturns(w) ==
  /\ worker[w].pc = "busy"
  /\ WorkerStep(w, "run") /\ UNCHANGED <<loop, chans, health>>

WorkerStops(w) ==
  /\ worker[w].pc = "run" /\ Stopping
  /\ WorkerStep(w, IF mode = "own" THEN "leave" ELSE "off")
  /\ UNCHANGED <<loop, chans, health>>

\* Mutant: channelClosed has a buffer, so the signal competes with a stop.
StreamEndsBuffered(w) ==
  /\ worker[w].pc = "run" /\ StreamClosed(worker[w].ch)
  /\ \/ /\ mode = "own" /\ WorkerStep(w, "lost") /\ UNCHANGED loop
     \/ /\ mode = "shared" /\ WorkerStep(w, "off")
        /\ loop' = IF loop = "wait" THEN "signalled" ELSE loop
  /\ UNCHANGED <<chans, health>>

\* Mutant: a shared worker returns without signalling.
StreamEndsSilently(w) ==
  /\ worker[w].pc = "run" /\ StreamClosed(worker[w].ch)
  /\ WorkerStep(w, IF mode = "own" THEN "lost" ELSE "off")
  /\ UNCHANGED <<loop, chans, health>>

\* The delivery channel is closed.  A shared worker signals with a send that
\* succeeds only if the loop is parked in its select with nothing else to take.
StreamEnds(w) ==
  /\ worker[w].pc = "run" /\ StreamClosed(worker[w].ch)
  /\ \/ /\ mode = "own" /\ WorkerStep(w, "lost") /\ UNCHANGED loop
     \/ /\ mode = "shared" /\ WorkerStep(w, "off")
        /\ loop' = IF loop = "wait" /\ ~Stopping THEN "signalled" ELSE loop
  /\ UNCHANGED <<chans, health>>

(* A worker with a channel of its own opens, subscribes, and on the way out  *)
(* records the end and closes the channel, then waits or stops.              *)

OwnStep(w, pc, c) ==
  /\ worker' = [worker EXCEPT ![w] = [pc |-> pc, ch |-> c]]
  /\ UNCHANGED <<callVars, loop, ch, batchCh, stopVars, ctxDone, closeVars>>

OwnOpen(w) ==
  /\ worker[w].pc = "get" /\ ~Stopping
  /\ \E c \in Chans : Opens(c, Pool[w]) /\ OwnStep(w, "subscribe", c)
  /\ UNCHANGED health

\* No channel, or QoS refused and the channel closed again.
OwnOpenFails(w) ==
  /\ worker[w].pc = "get" /\ ~Stopping
  /\ health' = HealthFailed(health, w) /\ OwnStep(w, "delay", NoChan)
  /\ UNCHANGED chans

OwnSubscribe(w) ==
  /\ worker[w].pc = "subscribe"
  /\ Subscribes(worker[w].ch) /\ OwnStep(w, "consumed", worker[w].ch)
  /\ UNCHANGED health

OwnSubscribeFails(w) ==
  /\ worker[w].pc = "subscribe"
  /\ Refused(worker[w].ch) /\ health' = HealthFailed(health, w) /\ OwnStep(w, "delay", NoChan)

OwnRecord(w) ==
  /\ worker[w].pc = "consumed"
  /\ health' = HealthSubscribed(health, w, worker[w].ch) /\ OwnStep(w, "run", worker[w].ch)
  /\ UNCHANGED chans

\* Mutant: the end of the deliveries is not recorded.
OwnLeaveUnrecorded(w) ==
  /\ worker[w].pc \in {"leave", "lost"}
  /\ chans' = Shut(chans, worker[w].ch)
  /\ OwnStep(w, IF worker[w].pc = "lost" THEN "delay" ELSE "get", NoChan)
  /\ UNCHANGED health

\* Between the two calls nobody looks at the channel but its listener, whose notice the
\* record already ignores: they are one step.
OwnLeave(w) ==
  /\ worker[w].pc \in {"leave", "lost"}
  /\ health' = HealthClosed(health, w) /\ chans' = Shut(chans, worker[w].ch)
  /\ OwnStep(w, IF worker[w].pc = "lost" THEN "delay" ELSE "get", NoChan)

OwnDelay(w) ==
  /\ worker[w].pc = "delay"
  /\ OwnStep(w, "get", NoChan) /\ UNCHANGED <<chans, health>>

\* The checks of ctx and stopCh at the top of the loop and in every delay.
OwnStops(w) ==
  /\ worker[w].pc \in {"get", "delay"} /\ Stopping
  /\ OwnStep(w, "off", NoChan) /\ UNCHANGED <<chans, health>>
-----------------------------------------------------------------------------
(* ConsumeBatch.                                                             *)

BatchStep(pc) ==
  /\ loop' = pc
  /\ UNCHANGED <<callVars, ch, stopVars, ctxDone, worker, closeVars>>

BatchOpen ==
  /\ loop = "dial" /\ BatchStep("batchSubscribe")
  /\ \E c \in Chans : Opens(c, Pool[0]) /\ batchCh' = c
  /\ UNCHANGED health

BatchOpenFails ==
  /\ loop = "dial" /\ BatchStep("failed")
  /\ health' = HealthFailed(health, 0) /\ UNCHANGED <<batchCh, chans>>

BatchSubscribe ==
  /\ loop = "batchSubscribe" /\ BatchStep("batchConsumed")
  /\ Subscribes(batchCh) /\ UNCHANGED <<batchCh, health>>

BatchSubscribeFails ==
  /\ loop = "batchSubscribe" /\ BatchStep("failed")
  /\ Refused(batchCh) /\ health' = HealthFailed(health, 0) /\ UNCHANGED batchCh

BatchRecord ==
  /\ loop = "batchConsumed" /\ BatchStep("batchRun")
  /\ health' = HealthSubscribed(health, 0, batchCh) /\ UNCHANGED <<batchCh, chans>>

\* The batch is full, or its timer fired (collecting a message changes nothing here).
BatchDue ==
  /\ loop = "batchRun" /\ BatchStep("batchFlush")
  /\ UNCHANGED <<batchCh, chans, health>>

BatchStops ==
  /\ loop = "batchRun" /\ Stopping /\ BatchStep("batchStopped")
  /\ UNCHANGED <<batchCh, chans, health>>

BatchBreaks ==
  /\ loop = "batchRun" /\ StreamClosed(batchCh) /\ BatchStep("batchBroken")
  /\ health' = HealthClosed(health, 0) /\ UNCHANGED <<batchCh, chans>>

\* processBatch returned (or there was nothing to process on the way out).
BatchProcessed ==
  /\ \/ loop = "batchFlush" /\ BatchStep("batchRun")
     \/ loop = "batchStopped" /\ BatchStep("ending")
     \/ loop = "batchBroken" /\ BatchStep("failed")
  /\ UNCHANGED <<batchCh, chans, health>>
-----------------------------------------------------------------------------
(* Close holds mu from its first step to its last.                           *)

CloseStep(pc) ==
  /\ closer' = pc
  /\ UNCHANGED <<perWorker, mode, loop, ch, batchCh, ctxDone, worker, health>>

Close ==
  /\ closer = "idle" /\ CloseStep(IF consuming THEN "stop" ELSE "closeChannel")
  /\ UNCHANGED <<consuming, stopVars, chans, heard>>

CloseSignals ==
  /\ closer = "stop" /\ CloseStep("waitWorkers")
  /\ SignalStop /\ heard' = (heard \/ loop \in Listening)
  /\ UNCHANGED <<consuming, chans>>

\* Mutant: Close does not wait for the workers.
CloseWaitedNot ==
  /\ closer = "waitWorkers" /\ CloseStep("closeChannel")
  /\ consuming' = FALSE
  /\ UNCHANGED <<stopVars, chans, heard>>

\* Mutant: Close waits, still holding mu, for the call itself to be over.
CloseWaitedForCall ==
  /\ closer = "waitWorkers" /\ WorkersOff /\ loop = "idle" /\ CloseStep("closeChannel")
  /\ consuming' = FALSE
  /\ UNCHANGED <<stopVars, chans, heard>>

CloseWaited ==
  /\ closer = "waitWorkers" /\ WorkersOff /\ CloseStep("closeChannel")
  /\ consuming' = FALSE
  /\ UNCHANGED <<stopVars, chans, heard>>

CloseChannel ==
  /\ closer = "closeChannel" /\ CloseStep("idle")
  /\ chans' = Shut(chans, ch)
  /\ UNCHANGED <<consuming, stopVars, heard>>
-----------------------------------------------------------------------------
(* The broker, the network, and the goroutines watchCancel started.          *)

Outside == UNCHANGED <<callVars, loop, ch, batchCh, stopVars, ctxDone, worker, closeVars>>

ChannelDies(c) ==
  /\ IsOpen(c) /\ ~Free(c)
  /\ chans' = Shut(chans, c) /\ Outside /\ UNCHANGED health

\* basic.cancel: the listener is told, then the stream is closed; the channel stays.
BrokerCancels(c) ==
  /\ chans[c].state = "live" /\ ~chans[c].notice /\ ~Free(c)
  /\ chans' = [chans EXCEPT ![c].state = "cancelled", ![c].notice = TRUE]
  /\ Outside /\ UNCHANGED health

CancelNoticed(c) ==
  /\ chans[c].notice
  /\ health' = HealthCancelled(health, Owner(c), c)
  /\ chans' = [chans EXCEPT ![c].notice = FALSE] /\ Outside

LoopNext ==
  \/ Top \/ EnsureChannel \/ EnsureFails \/ Delay \/ Subscribe \/ SubscribeFails
  \/ RecordSubscribed \/ ResetStopCh \/ ResetStopOnce \/ SpawnWorkers \/ Listen
  \/ StopRequested \/ ChannelSignalled \/ Drained \/ End \/ Return
BatchNext ==
  \/ BatchOpen \/ BatchOpenFails \/ BatchSubscribe \/ BatchSubscribeFails \/ BatchRecord
  \/ BatchDue \/ BatchStops \/ BatchBreaks \/ BatchProcessed
WorkerNext(w) ==
  \/ Receive(w) \/ HandlerReturns(w) \/ WorkerStops(w) \/ StreamEnds(w)
  \/ OwnOpen(w) \/ OwnOpenFails(w) \/ OwnSubscribe(w) \/ OwnSubscribeFails(w) \/ OwnRecord(w)
  \/ OwnLeave(w) \/ OwnDelay(w) \/ OwnStops(w)
CloseNext == Close \/ CloseSignals \/ CloseWaited \/ CloseChannel
BrokerNext == \E c \in Chans : ChannelDies(c) \/ BrokerCancels(c) \/ CancelNoticed(c)

\* A panic ends the program.
Next ==
  /\ ~crashed
  /\ \/ Consume \/ ConsumeBatch \/ CancelContext
     \/ LoopNext \/ BatchNext \/ CloseNext \/ BrokerNext
     \/ \E w \in Workers : WorkerNext(w)

Spec == Init /\ [][Next]_vars
-----------------------------------------------------------------------------
(* Fairness: every goroutine that can step does, handlers return, a select   *)
(* that is offered a ready case again and again takes it (Go picks at random *)
(* among the ready ones), mu is handed over, and the broker does not refuse  *)
(* channels and subscriptions for ever.  Nothing is assumed of the callers,  *)
(* of deliveries, or of the broker's cancels.                                *)

Live(A) == ~crashed /\ A

\* A worker never leaves "off" while the call is stopping, and only one mode runs
\* at a time, so the workers and modes share their conditions.
FairSpec ==
  /\ Spec
  /\ WF_vars(Live(LoopNext)) /\ WF_vars(Live(BatchNext))
  /\ WF_vars(Live(CloseSignals \/ CloseWaited \/ CloseChannel))
  /\ WF_vars(Live(\E c \in Chans : CancelNoticed(c)))
  /\ \A w \in Workers :
       WF_vars(Live(\/ HandlerReturns(w) \/ StreamEnds(w) \/ OwnOpenFails(w) \/ OwnSubscribeFails(w)
                    \/ OwnRecord(w) \/ OwnLeave(w) \/ OwnDelay(w)))
  /\ SF_vars(Live(Return))
  /\ SF_vars(Live(BatchStops \/ \E w \in Workers : WorkerStops(w) \/ OwnStops(w)))
  /\ SF_vars(Live(EnsureChannel \/ \E w \in Workers : OwnOpen(w)))
  /\ SF_vars(Live(Subscribe \/ \E w \in Workers : OwnSubscribe(w)))
-----------------------------------------------------------------------------
(* Properties.                                                               *)

\* No worker of an earlier cycle is alive while the loop prepares the next one
\* (it would share the stop channel and the channel of the new cycle).
CyclesDoNotOverlap ==
  mode = "shared" /\ loop \in {"begin", "ensure", "delay", "subscribe", "consumed",
                              "reset", "resetOnce", "spawn"} => WorkersOff

\* A Close that finds the call waiting ends it: the loop never goes back to
\* subscribe, whatever happens to the channel at the same moment.
StoppedForGood ==
  heard => loop \in Listening \cup {"drainStop", "batchStopped", "batchBroken",
                                   "ending", "failed", "unlock", "idle"}

\* Once a Close that found Consume waiting has finished waiting itself, none of its
\* workers is left, nor a handler one of them ran. (Of ConsumeBatch, whose handler
\* runs in the goroutine of the call, Close does not wait for the handler.)
CloseWaitsForWorkers == mode # "batch" /\ heard /\ closer = "closeChannel" => WorkersOff

Served(w) == worker[w].pc \in {"run", "busy"} /\ chans[worker[w].ch].state = "live"

\* Assess never asks for a restart of a consumer one of whose workers has a live
\* subscription of its own: not even when notices of cancels that concern its
\* former channels arrive late.
NeverBlamedWhileConsuming ==
  mode = "own" /\ (\E w \in Workers : Served(w))
    => \A c \in Circumstances : HealthAssess(health, c) # "stalled"

\* Assess says ok of a ChannelPerWorker consumer only if some worker is at its
\* deliveries, or about to report that they ended.
HealthyMeansServed ==
  mode = "own" /\ (\E c \in Circumstances : HealthAssess(health, c) = "ok")
    => \E w \in Workers : worker[w].pc \in {"run", "busy", "leave", "lost"}

\* A worker that lost its channel, or a shared loop that is waiting when its
\* channel dies under a worker, subscribes again unless it is told to stop (or a
\* Close comes along, which closes the shared channel even when it stops nothing).
ToldToStop == ctxDone \/ heard \/ crashed
ComesBack ==
  /\ \A w \in Workers : worker[w].pc = "delay" ~> (worker[w].pc = "run" \/ ToldToStop)
  /\ (mode = "shared" /\ loop = "wait" /\ ~WorkersOff /\ StreamClosed(ch))
       ~> (loop \in {"reset", "drainStop"} \/ closer # "idle" \/ ToldToStop)

\* A call whose context is cancelled, or that a Close found waiting, returns,
\* though Close holds the lock the call needs for its own end.
StopEndsTheCall == (ctxDone \/ heard) ~> (loop = "idle" \/ crashed)
=============================================================================
