-------------------------------- MODULE Saga --------------------------------
(***************************************************************************)
(* Saga orchestration (saga/saga.go): managers that share a store and the  *)
(* broker's two queues, and one saga.  Step and compensation messages name *)
(* a step; the store's InMemoryStore hands out the saga itself, so what a  *)
(* manager reads of it is its present state.  A manager has one consumer,  *)
(* with concurrency 1, and Run sets two goroutines to Consume with it.     *)
(***************************************************************************)
EXTENDS Naturals, Sequences, FiniteSets, SequencesExt

CONSTANTS NumSteps,
          Managers,   \* managers; the caller of Start and Compensate is none of them
          Caller,
          Missing,    \* steps that may be the one without a compensation handler; 0 is none
          MaxFaults   \* bound on failed or lost publishes, panics, redeliveries and needless compensations

ASSUME SagaAssumption ==
  NumSteps \in Nat \ {0} /\ Missing \subseteq Nat /\ Caller \notin Managers /\ MaxFaults \in Nat

Steps == 1 .. NumSteps
Actors == Managers \cup {Caller}
Queues == {"steps", "compensations"}

VARIABLES
  cfg,          \* which compensation handler or binding is missing
  state,        \* Saga.State; "none" before it is saved
  status,       \* Step.Status of each step
  queue,        \* the messages each queue holds, as step numbers
  starting,     \* Manager.Run: the queues each manager has yet to Consume
  consuming,    \* the queue each manager's consumer has won, or "none"
  pc, at, owns, \* what each actor does, for which step, and whether its message is still its own
  undo,         \* Compensate's loop index, per actor
  faults,       \* history: how many publishes, handlers and deliveries failed
  repeated,     \* history: some message was delivered, or some compensation begun, once more
  done,         \* history: steps that succeeded
  tried         \* history: steps whose compensation handler ran, in order, whatever it returned

engine == <<starting, consuming>>
saga == <<state, status>>
work == <<pc, at, owns, undo>>
history == <<faults, repeated, done, tried>>
vars == <<cfg, saga, queue, engine, work, history>>

\* compensation: the step whose compensation has no handler; bound: the
\* publisher's routing key "saga.compensations" leads to the configured CompensateQueue.
Configurations ==
  {c \in [compensation : Missing, bound : BOOLEAN] : ~c.bound => c.compensation = 0}

Init ==
  /\ cfg \in Configurations
  /\ state = "none" /\ status = [s \in Steps |-> "started"]
  /\ queue = [q \in Queues |-> <<>>]
  /\ starting = [m \in Managers |-> {}]
  /\ consuming = [m \in Managers |-> "none"]
  /\ pc = [a \in Actors |-> "idle"] /\ at = [a \in Actors |-> 0]
  /\ owns = [a \in Actors |-> FALSE] /\ undo = [a \in Actors |-> 0]
  /\ faults = 0 /\ repeated = FALSE /\ done = {} /\ tried = <<>>

-----------------------------------------------------------------------------
\* The store, and the saga's helpers

\* A compensated step leaves the failed one in place: the saga is failed again.
UpdateSagaStep(s, new) ==
  /\ status' = [status EXCEPT ![s] = new]
  /\ state' = IF \E i \in Steps : status'[i] = "failed" THEN "failed"
              ELSE IF \A i \in Steps : status'[i] = "completed" THEN "completed" ELSE state

UpdateSagaState(new) == state' = new /\ UNCHANGED status

NotStarted == {s \in Steps : status[s] = "started"}
GetNextStep == CHOOSE s \in NotStarted : \A t \in NotStarted : s <= t

GoTo(a, label) == pc' = [pc EXCEPT ![a] = label]
Return(a) == IF a = Caller THEN "returned" ELSE "ack"

\* publishStep and publishCompensation; a message no binding leads to is dropped. The
\* publisher asks for no confirmation: a message may be lost though its publish
\* returned nil. For a step that leaves the same state as a publish that fails.
Publish(q, s) ==
  queue' = IF q = "compensations" /\ ~cfg.bound THEN queue
           ELSE [queue EXCEPT ![q] = Append(@, s)]

Fault == faults < MaxFaults /\ faults' = faults + 1

-----------------------------------------------------------------------------
\* The caller

SaveSaga ==
  /\ pc[Caller] = "idle" /\ state = "none"
  /\ state' = "started" /\ GoTo(Caller, "saved")
  /\ UNCHANGED <<cfg, status, queue, engine, at, owns, undo, history>>

StartPublishes ==
  /\ pc[Caller] = "saved"
  /\ \/ Publish("steps", 1) /\ UNCHANGED faults
     \/ Fault /\ UNCHANGED queue
  /\ GoTo(Caller, "returned")
  /\ UNCHANGED <<cfg, saga, engine, at, owns, undo, repeated, done, tried>>

\* Compensate, which asks nothing of the saga's state: called for a saga seen to have
\* failed, or for any other, which the bound on faults limits.
CallCompensate ==
  /\ pc[Caller] = "returned" /\ ~repeated
  /\ (state = "failed" /\ UNCHANGED faults) \/ Fault
  /\ GoTo(Caller, "load") /\ repeated' = TRUE
  /\ UNCHANGED <<cfg, saga, queue, engine, at, owns, undo, done, tried>>

-----------------------------------------------------------------------------
\* Run.  It returns when a Consume is refused or after Stop; its consumer goes on
\* all the same, so that its return, and running and stopCh, are left out.

Run(m) ==
  /\ starting[m] = {} /\ consuming[m] = "none"
  /\ starting' = [starting EXCEPT ![m] = Queues]
  /\ UNCHANGED <<cfg, saga, queue, consuming, work, history>>

\* One of Run's goroutines calls Consume: a consumer that has a queue refuses another.
RunConsumes(m, q) ==
  /\ q \in starting[m] /\ starting' = [starting EXCEPT ![m] = @ \ {q}]
  /\ consuming' = [consuming EXCEPT ![m] = IF @ = "none" THEN q ELSE @]
  /\ UNCHANGED <<cfg, saga, queue, work, history>>

-----------------------------------------------------------------------------
\* A delivery

Deliver(m) ==
  /\ pc[m] = "idle" /\ consuming[m] # "none"
  /\ LET q == consuming[m] IN
       /\ queue[q] # <<>>
       /\ queue' = [queue EXCEPT ![q] = Tail(@)]
       /\ at' = [at EXCEPT ![m] = Head(queue[q])]
       /\ GoTo(m, IF q = "steps" THEN "execute" ELSE "compensate")
  /\ owns' = [owns EXCEPT ![m] = TRUE]
  /\ UNCHANGED <<cfg, saga, engine, undo, history>>

\* The handler has returned, and the message is acked (or rejected).
Ack(m) ==
  /\ pc[m] = "ack" /\ GoTo(m, "idle")
  /\ UNCHANGED <<cfg, saga, queue, engine, at, owns, undo, history>>

\* The channel dies under the handler: the message is queued again, and the ack is lost.
Redeliver(m) ==
  /\ pc[m] # "idle" /\ owns[m] /\ Fault
  /\ queue' = [queue EXCEPT ![consuming[m]] = <<at[m]>> \o @]
  /\ owns' = [owns EXCEPT ![m] = FALSE] /\ repeated' = TRUE
  /\ UNCHANGED <<cfg, saga, engine, pc, at, undo, done, tried>>

\* The handler panics; handleStepMessage recovers, returns nil, and the message is acked.
Panics(m) ==
  /\ pc[m] \in {"execute", "compensate"} /\ Fault
  /\ GoTo(m, "ack")
  /\ UNCHANGED <<cfg, saga, queue, engine, at, owns, undo, repeated, done, tried>>

-----------------------------------------------------------------------------
\* handleStepMessage

\* The handler returns an error, or there is none for the step's action.
StepFails(m) ==
  /\ pc[m] = "execute" /\ GoTo(m, "failed")
  /\ UNCHANGED <<cfg, saga, queue, engine, at, owns, undo, history>>

StepSucceeds(m) ==
  /\ pc[m] = "execute"
  /\ done' = done \cup {at[m]} /\ GoTo(m, "completed")
  /\ UNCHANGED <<cfg, saga, queue, engine, at, owns, undo, faults, repeated, tried>>

MarkStepFailed(m) ==
  /\ pc[m] = "failed" /\ UpdateSagaStep(at[m], "failed") /\ GoTo(m, "markFailed")
  /\ UNCHANGED <<cfg, queue, engine, at, owns, undo, history>>

MarkSagaFailed(m) ==
  /\ pc[m] = "markFailed" /\ UpdateSagaState("failed") /\ GoTo(m, "load")
  /\ UNCHANGED <<cfg, queue, engine, at, owns, undo, history>>

MarkStepCompleted(m) ==
  /\ pc[m] = "completed" /\ UpdateSagaStep(at[m], "completed") /\ GoTo(m, "advance")
  /\ UNCHANGED <<cfg, queue, engine, at, owns, undo, history>>

\* The next step is published, or the saga completed ...
AdvanceInParallel(m) ==
  /\ pc[m] = "advance" /\ GoTo(m, "ack")
  /\ IF NotStarted # {}
     THEN /\ queue' = [queue EXCEPT !["steps"] = @ \o SetToSortSeq(NotStarted, <)]
          /\ UNCHANGED saga
     ELSE UpdateSagaState("completed") /\ UNCHANGED queue
  /\ UNCHANGED <<cfg, engine, at, owns, undo, history>>

AdvanceRepublishes(m) ==
  /\ pc[m] = "advance" /\ GoTo(m, "ack")
  /\ IF NotStarted # {} THEN Publish("steps", at[m]) /\ UNCHANGED saga
     ELSE UpdateSagaState("completed") /\ UNCHANGED queue
  /\ UNCHANGED <<cfg, engine, at, owns, undo, history>>

Advance(m) ==
  /\ pc[m] = "advance" /\ GoTo(m, "ack")
  /\ IF NotStarted # {} THEN Publish("steps", GetNextStep) /\ UNCHANGED saga
     ELSE UpdateSagaState("completed") /\ UNCHANGED queue
  /\ UNCHANGED <<cfg, engine, at, owns, undo, history>>

\* ... or the publish fails: the handler returns the error, and the consumer
\* rejects the message, which with its defaults is not queued again.
AdvanceFails(m) ==
  /\ pc[m] = "advance" /\ NotStarted # {} /\ Fault
  /\ GoTo(m, "ack")
  /\ UNCHANGED <<cfg, saga, queue, engine, at, owns, undo, repeated, done, tried>>

-----------------------------------------------------------------------------
\* Compensate

BeginCompensation(a) ==
  /\ pc[a] = "load" /\ UpdateSagaState("compensating")
  /\ undo' = [undo EXCEPT ![a] = NumSteps] /\ GoTo(a, "undo")
  /\ UNCHANGED <<cfg, queue, engine, at, owns, history>>

\* From the last step backwards; undo counts down to 0.
PublishCompensationOfAll(a) ==
  /\ pc[a] = "undo" /\ undo[a] > 0
  /\ IF status[undo[a]] # "started" THEN Publish("compensations", undo[a]) ELSE UNCHANGED queue
  /\ undo' = [undo EXCEPT ![a] = @ - 1]
  /\ UNCHANGED <<cfg, saga, engine, pc, at, owns, history>>

PublishCompensationForwards(a) ==
  /\ pc[a] = "undo" /\ undo[a] > 0
  /\ LET s == NumSteps + 1 - undo[a] IN
       IF status[s] = "completed" THEN Publish("compensations", s) ELSE UNCHANGED queue
  /\ undo' = [undo EXCEPT ![a] = @ - 1]
  /\ UNCHANGED <<cfg, saga, engine, pc, at, owns, history>>

PublishCompensation(a) ==
  /\ pc[a] = "undo" /\ undo[a] > 0
  /\ IF status[undo[a]] = "completed" THEN Publish("compensations", undo[a]) ELSE UNCHANGED queue
  /\ undo' = [undo EXCEPT ![a] = @ - 1]
  /\ UNCHANGED <<cfg, saga, engine, pc, at, owns, history>>

\* A compensation is lost on the way: the publish returned nil.
CompensationLost(a) ==
  /\ pc[a] = "undo" /\ undo[a] > 0 /\ status[undo[a]] = "completed" /\ Fault
  /\ undo' = [undo EXCEPT ![a] = @ - 1]
  /\ UNCHANGED <<cfg, saga, queue, engine, pc, at, owns, repeated, done, tried>>

\* A publish fails: Compensate returns, and its caller only logs the error.
CompensateFails(a) ==
  /\ pc[a] = "undo" /\ undo[a] > 0 /\ status[undo[a]] = "completed" /\ Fault
  /\ undo' = [undo EXCEPT ![a] = 0]
  /\ UNCHANGED <<cfg, saga, queue, engine, pc, at, owns, repeated, done, tried>>

CompensateReturns(a) ==
  /\ pc[a] = "undo" /\ undo[a] = 0 /\ GoTo(a, Return(a))
  /\ UNCHANGED <<cfg, saga, queue, engine, at, owns, undo, history>>

-----------------------------------------------------------------------------
\* handleCompensationMessage

\* No handler: the step counts as compensated, and nobody asks whether all are.
NoCompensationHandler(m) ==
  /\ pc[m] = "compensate" /\ at[m] = cfg.compensation
  /\ UpdateSagaStep(at[m], "compensated") /\ GoTo(m, "ack")
  /\ UNCHANGED <<cfg, queue, engine, at, owns, undo, history>>

\* The handler runs. An error is logged, and the step counts as compensated all the same.
RunCompensation(m) ==
  /\ pc[m] = "compensate" /\ at[m] # cfg.compensation
  /\ tried' = IF Len(tried) < NumSteps THEN Append(tried, at[m]) ELSE tried
  /\ GoTo(m, "compensated")
  /\ UNCHANGED <<cfg, saga, queue, engine, at, owns, undo, faults, repeated, done>>

MarkCompensated(m) ==
  /\ pc[m] = "compensated" /\ UpdateSagaStep(at[m], "compensated") /\ GoTo(m, "check")
  /\ UNCHANGED <<cfg, queue, engine, at, owns, undo, history>>

CheckCompensated(m) ==
  /\ pc[m] = "check"
  /\ GoTo(m, IF \E s \in Steps : status[s] = "completed" THEN "ack" ELSE "finish")
  /\ UNCHANGED <<cfg, saga, queue, engine, at, owns, undo, history>>

MarkSagaCompensated(m) ==
  /\ pc[m] = "finish" /\ UpdateSagaState("compensated") /\ GoTo(m, "ack")
  /\ UNCHANGED <<cfg, queue, engine, at, owns, undo, history>>

Compensate(a) ==
  \/ BeginCompensation(a) \/ PublishCompensation(a) \/ CompensationLost(a)
  \/ CompensateFails(a) \/ CompensateReturns(a)

HandleMessage(m) ==
  \/ Deliver(m) \/ Ack(m)
  \/ StepFails(m) \/ StepSucceeds(m) \/ MarkStepFailed(m) \/ MarkSagaFailed(m)
  \/ MarkStepCompleted(m) \/ Advance(m) \/ AdvanceFails(m)
  \/ NoCompensationHandler(m) \/ RunCompensation(m) \/ MarkCompensated(m)
  \/ CheckCompensated(m) \/ MarkSagaCompensated(m)
  \/ Compensate(m)

RunSteps(m) == Run(m) \/ \E q \in Queues : RunConsumes(m, q)

Next ==
  \/ SaveSaga \/ StartPublishes \/ CallCompensate \/ Compensate(Caller)
  \/ \E m \in Managers : HandleMessage(m) \/ Redeliver(m) \/ Panics(m) \/ RunSteps(m)

Spec == Init /\ [][Next]_vars

\* Goroutines run, handlers return and the broker delivers.
Fairness ==
  /\ WF_vars(StartPublishes) /\ WF_vars(Compensate(Caller))
  /\ \A m \in Managers : WF_vars(HandleMessage(m))
FairSpec == Spec /\ Fairness

-----------------------------------------------------------------------------
\* Properties

\* Whatever is redelivered, fails or is compensated again: a step's compensation
\* runs only if the step's own handler has succeeded before.
UndoesOnlyWhatWasDone ==
  \A i \in 1 .. Len(tried) : tried[i] \in done

\* As long as no message was repeated, a step begins only when all the steps
\* before it have completed and none has failed, whichever managers run them.
StepsInOrder ==
  ~repeated => \A m \in Managers : pc[m] = "execute" =>
                 /\ \A s \in Steps : status[s] = IF s < at[m] THEN "completed" ELSE "started"
                 /\ state = "started"

\* As long as no message was repeated, whatever else fails: when a saga says it is
\* compensated, the compensation handler of every step that had succeeded (and has
\* one) has run, once each, and in reverse order unless several managers consume
\* the compensations; nothing is said of what the handlers returned. A saga that
\* says it is completed has completed every step, and no compensation has run.
OneUndoes ==
  \A m, n \in Managers : consuming[m] = "compensations" /\ consuming[n] = "compensations" => m = n
Before(s, t) == IF OneUndoes THEN s > t ELSE s # t
EndsAfterAllHaveRun ==
  ~repeated =>
    /\ state = "compensated" =>
         /\ {tried[i] : i \in 1 .. Len(tried)} = done \ {cfg.compensation}
         /\ \A i, j \in 1 .. Len(tried) : i < j => Before(tried[i], tried[j])
    /\ state = "completed" => done = Steps /\ tried = <<>>

Served ==
  /\ \E m \in Managers : consuming[m] = "steps"
  /\ \E m \in Managers : consuming[m] = "compensations"

\* What keeps a saga from ever ending: see the findings.
Stuck ==
  \/ repeated \/ faults > 0 \/ ~cfg.bound
  \/ status[1] = "failed"            \* nothing to compensate: it stays compensating
  \/ cfg.compensation = 1            \* the last compensation has no handler: it stays failed

\* A saga whose two queues are consumed ends completed or compensated.
SagaEnds ==
  state # "none" /\ Served ~> state \in {"completed", "compensated"} \/ Stuck
=============================================================================
