------------------------------ MODULE SagaProofs ------------------------------
(***************************************************************************)
(* What a saga goes through, for any number of steps, managers and faults. *)
(*                                                                         *)
(* A compensation message says that its step has succeeded: it was         *)
(* published for a step whose status was "completed", and the status was   *)
(* written by a manager whose handler had returned nil.  That survives     *)
(* redeliveries because a manager's consumer has one queue for good, so a  *)
(* message goes back to the queue it came from.                            *)
(*                                                                         *)
(* As long as no message is repeated, one message at most drives the steps *)
(* (in its queue, or with one manager), and a step that fails takes it out *)
(* of the way for good; from then on the compensations that are queued, at *)
(* work and done follow each other.                                        *)
(***************************************************************************)
EXTENDS Saga, FiniteSetTheorems, WellFoundedInduction, TLAPS

Statuses == {"started", "completed", "failed", "compensated"}
OfStep == {"execute", "failed", "markFailed", "completed", "advance"}
OfCompensation == {"compensate", "compensated", "check", "finish"}
Labels == {"idle", "saved", "returned", "load", "undo", "ack"} \cup OfStep \cup OfCompensation

TypeOK ==
    /\ status \in [Steps -> Statuses] /\ queue \in [Queues -> Seq(Steps)]
    /\ starting \in [Managers -> SUBSET Queues]
    /\ consuming \in [Managers -> Queues \cup {"none"}]
    /\ pc \in [Actors -> Labels] /\ at \in [Actors -> Steps \cup {0}]
    /\ owns \in [Actors -> BOOLEAN] /\ undo \in [Actors -> 0 .. NumSteps]
    /\ done \subseteq Steps

\* A manager at work has a queue, and a message that came from it.
AtWork ==
    \A m \in Managers :
      /\ pc[m] # "idle" => consuming[m] # "none" /\ at[m] \in Steps
      /\ pc[m] \in OfStep => consuming[m] = "steps"
      /\ pc[m] \in OfCompensation => consuming[m] = "compensations"

\* Where a step that succeeded shows.
CompletedDone == \A s \in Steps : status[s] = "completed" => s \in done
HandledDone ==
    \A m \in Managers :
      /\ pc[m] = "completed" => at[m] \in done
      /\ pc[m] # "idle" /\ consuming[m] = "compensations" => at[m] \in done
QueuedDone == queue["compensations"] \in Seq(done)
TriedDone == tried \in Seq(done)

SagaInv == TypeOK /\ AtWork /\ CompletedDone /\ HandledDone /\ QueuedDone /\ TriedDone

-----------------------------------------------------------------------------
LEMMA AppendIn == ASSUME NEW S, NEW q \in Seq(S), NEW x \in S PROVE Append(q, x) \in Seq(S)
  OBVIOUS

LEMMA TailIn == ASSUME NEW S, NEW q \in Seq(S), q # <<>>
                PROVE  Tail(q) \in Seq(S) /\ Head(q) \in S
  OBVIOUS

LEMMA PrefixIn == ASSUME NEW S, NEW q \in Seq(S), NEW x \in S PROVE <<x>> \o q \in Seq(S)
  OBVIOUS

LEMMA SeqGrows == ASSUME NEW S, NEW T, S \subseteq T PROVE Seq(S) \subseteq Seq(T)
  OBVIOUS

LEMMA Tried == TriedDone => UndoesOnlyWhatWasDone
  BY DEF TriedDone, UndoesOnlyWhatWasDone

LEMMA InitInv == Init => SagaInv
<1> SUFFICES ASSUME Init PROVE SagaInv OBVIOUS
<1> USE DEF Init
<1>1. TypeOK
  BY SagaAssumption DEF TypeOK, Statuses, Labels, Queues
<1>2. AtWork /\ CompletedDone /\ HandledDone
  BY DEF AtWork, CompletedDone, HandledDone, OfStep, OfCompensation, Actors
<1>3. QueuedDone /\ TriedDone
  BY DEF QueuedDone, TriedDone, Queues
<1> QED BY <1>1, <1>2, <1>3 DEF SagaInv

-----------------------------------------------------------------------------
\* What publishing does to the queues.
LEMMA PublishStep == ASSUME TypeOK, QueuedDone, NEW s \in Steps, Publish("steps", s)
                     PROVE  /\ queue' \in [Queues -> Seq(Steps)]
                            /\ queue'["compensations"] = queue["compensations"]
<1>1. queue["steps"] \in Seq(Steps)  BY DEF TypeOK, Queues
<1>2. Append(queue["steps"], s) \in Seq(Steps)  BY <1>1, AppendIn
<1> QED BY <1>2 DEF TypeOK, Publish, Queues

LEMMA PublishUndo ==
  ASSUME TypeOK, QueuedDone, NEW s \in Steps, s \in done, Publish("compensations", s)
  PROVE  queue' \in [Queues -> Seq(Steps)] /\ queue'["compensations"] \in Seq(done)
<1>1. queue["compensations"] \in Seq(Steps) /\ queue["compensations"] \in Seq(done)
  BY DEF TypeOK, QueuedDone, Queues
<1>2. Append(queue["compensations"], s) \in Seq(Steps) /\ Append(queue["compensations"], s) \in Seq(done)
  BY <1>1, AppendIn
<1> QED BY <1>1, <1>2 DEF TypeOK, Publish, Queues

\* Steps that leave alone which message a manager has and what it is worth.
Local(a) ==
    /\ \E label \in Labels :
         /\ GoTo(a, label)
         /\ a \in Managers => pc[a] # "idle" /\ (label \in OfStep => consuming[a] = "steps")
                              /\ (label \in OfCompensation => consuming[a] = "compensations")
         /\ label = "completed" => at[a] \in done'
    /\ UNCHANGED <<starting, consuming, at, owns, tried>>
    /\ undo' \in [Actors -> 0 .. NumSteps]
    /\ status' \in [Steps -> Statuses]
    /\ \A s \in Steps : status'[s] = "completed" => s \in done'
    /\ done \subseteq done' /\ done' \subseteq Steps
    /\ queue' \in [Queues -> Seq(Steps)] /\ queue'["compensations"] \in Seq(done')

LEMMA LocalInv == ASSUME SagaInv, NEW a \in Actors, Local(a) PROVE SagaInv'
<1> USE DEF SagaInv, Local
<1>1. PICK label \in Labels : GoTo(a, label) /\ (a \in Managers =>
          /\ pc[a] # "idle" /\ (label \in OfStep => consuming[a] = "steps")
          /\ (label \in OfCompensation => consuming[a] = "compensations"))
          /\ (label = "completed" => at[a] \in done')
  OBVIOUS
<1>2. TypeOK'
  BY <1>1 DEF TypeOK, GoTo
<1>3. AtWork'
  BY <1>1 DEF AtWork, GoTo, TypeOK, Actors
<1>4. CompletedDone' /\ QueuedDone'
  BY DEF CompletedDone, QueuedDone
<1>5. HandledDone'
  BY <1>1 DEF HandledDone, GoTo, TypeOK, Actors
<1>6. TriedDone'
  BY SeqGrows DEF TriedDone
<1> QED BY <1>2, <1>3, <1>4, <1>5, <1>6
-----------------------------------------------------------------------------
LEMMA StatusStep ==
  ASSUME SagaInv, NEW s \in Steps, NEW new \in Statuses, UpdateSagaStep(s, new),
         new = "completed" => s \in done
  PROVE  status' \in [Steps -> Statuses] /\ \A i \in Steps : status'[i] = "completed" => i \in done
  BY DEF SagaInv, TypeOK, UpdateSagaStep, CompletedDone

\* The next step is one of the steps.
LEMMA NextStepIn == ASSUME NotStarted # {} PROVE GetNextStep \in Steps
<1> DEFINE Less == OpToRel(<, Nat)
<1>1. NotStarted \subseteq Nat  BY SagaAssumption DEF NotStarted, Steps
<1>2. \A y, x \in Nat : y < x => <<y, x>> \in Less  BY DEF OpToRel
<1>3. IsWellFoundedOn(Less, Nat)  BY NatLessThanWellFounded
<1> HIDE DEF Less
<1>4. PICK x \in NotStarted : \A y \in NotStarted : ~ (<<y, x>> \in Less)
  BY <1>1, <1>3, WFMin
<1>5. ASSUME NEW y \in NotStarted PROVE x <= y
  <2>1. x \in Nat /\ y \in Nat  BY <1>1
  <2>2. ~ (y < x)  BY <1>2, <1>4, <2>1
  <2> QED BY <2>1, <2>2
<1> QED BY <1>5 DEF GetNextStep, NotStarted

-----------------------------------------------------------------------------
\* What each action is: a local step, or one of the five shown below.
LEMMA CallerSteps ==
  ASSUME SagaInv, SaveSaga \/ StartPublishes \/ CallCompensate
  PROVE  Local(Caller)
<1>1. Caller \in Actors /\ Caller \notin Managers /\ 1 \in Steps
  BY SagaAssumption DEF Actors, Steps
<1> USE DEF SagaInv, TypeOK, CompletedDone, QueuedDone, saga, engine, history
<1>2. \E label \in {"saved", "returned", "load"} : GoTo(Caller, label)
  BY DEF SaveSaga, StartPublishes, CallCompensate
<1>3. \E label \in Labels : GoTo(Caller, label) /\ label # "completed"
  BY <1>2 DEF Labels
<1>4. UNCHANGED <<status, starting, consuming, at, owns, undo, done, tried>>
  BY DEF SaveSaga, StartPublishes, CallCompensate
<1>5. queue' = queue \/ Publish("steps", 1)
  BY DEF SaveSaga, StartPublishes, CallCompensate
<1>6. queue' \in [Queues -> Seq(Steps)] /\ queue'["compensations"] \in Seq(done)
  BY <1>1, <1>5, PublishStep
<1> QED BY <1>1, <1>3, <1>4, <1>6 DEF Local

LEMMA StepSteps ==
  ASSUME SagaInv, NEW m \in Managers,
         \/ Ack(m) \/ Panics(m) \/ StepFails(m) \/ StepSucceeds(m) \/ MarkStepFailed(m)
         \/ MarkSagaFailed(m) \/ MarkStepCompleted(m)
  PROVE  Local(m)
<1>1. m \in Actors  BY DEF Actors
<1>2. pc[m] # "idle" => at[m] \in Steps  BY DEF SagaInv, AtWork
<1> USE DEF SagaInv, Local, GoTo, saga, engine, history
<1>3. CASE Ack(m)
  BY <1>1, <1>3 DEF Ack, TypeOK, CompletedDone, QueuedDone, Labels, OfStep, OfCompensation
<1>4. CASE Panics(m)
  BY <1>1, <1>4 DEF Panics, TypeOK, CompletedDone, QueuedDone, Labels, OfStep, OfCompensation
<1>5. CASE StepFails(m)
  BY <1>1, <1>5 DEF StepFails, AtWork, TypeOK, CompletedDone, QueuedDone, Labels, OfStep,
      OfCompensation
<1>6. CASE StepSucceeds(m)
  <2>1. done \subseteq done' /\ done' \subseteq Steps  BY <1>2, <1>6 DEF StepSucceeds, TypeOK
  <2>2. queue'["compensations"] \in Seq(done')
    BY <1>6, <2>1, SeqGrows DEF StepSucceeds, QueuedDone
  <2>3. "completed" \in Labels /\ GoTo(m, "completed") /\ at[m] \in done' /\ consuming[m] = "steps"
    BY <1>6 DEF StepSucceeds, AtWork, Labels, OfStep
  <2> QED BY <1>6, <2>1, <2>2, <2>3 DEF StepSucceeds, TypeOK, CompletedDone, OfStep, OfCompensation
<1>7. CASE MarkStepFailed(m)
  <2>1. status' \in [Steps -> Statuses] /\ \A i \in Steps : status'[i] = "completed" => i \in done
    BY <1>2, <1>7, StatusStep DEF MarkStepFailed, Statuses
  <2> QED BY <1>1, <1>7, <2>1
          DEF MarkStepFailed, AtWork, TypeOK, QueuedDone, Labels, OfStep, OfCompensation
<1>8. CASE MarkSagaFailed(m)
  BY <1>1, <1>8 DEF MarkSagaFailed, UpdateSagaState, TypeOK, CompletedDone, QueuedDone, Labels,
     OfStep, OfCompensation
<1>9. CASE MarkStepCompleted(m)
  <2>1. status' \in [Steps -> Statuses] /\ \A i \in Steps : status'[i] = "completed" => i \in done
    BY <1>2, <1>9, StatusStep DEF MarkStepCompleted, HandledDone, Statuses
  <2> QED BY <1>1, <1>9, <2>1
          DEF MarkStepCompleted, AtWork, TypeOK, QueuedDone, Labels, OfStep, OfCompensation
<1> QED BY <1>3, <1>4, <1>5, <1>6, <1>7, <1>8, <1>9

LEMMA AdvanceSteps == ASSUME SagaInv, NEW m \in Managers, Advance(m) \/ AdvanceFails(m)
                      PROVE  Local(m)
<1> USE DEF SagaInv, Local, GoTo, saga, engine, history
<1>1. CASE Advance(m)
  <2>1. queue' \in [Queues -> Seq(Steps)] /\ queue'["compensations"] \in Seq(done)
    BY <1>1, PublishStep, NextStepIn DEF Advance, TypeOK, QueuedDone
  <2>2. status' = status
    BY <1>1 DEF Advance, UpdateSagaState
  <2> QED BY <1>1, <2>1, <2>2 DEF Advance, TypeOK, CompletedDone, Labels, OfStep, OfCompensation
<1>2. CASE AdvanceFails(m)
  BY <1>2 DEF AdvanceFails, TypeOK, CompletedDone, QueuedDone, Labels, OfStep, OfCompensation
<1> QED BY <1>1, <1>2

LEMMA CompensateSteps == ASSUME SagaInv, NEW a \in Actors, Compensate(a) PROVE Local(a)
<1> USE DEF SagaInv, Local, GoTo, saga, engine, history
<1>1. CASE BeginCompensation(a)
  BY <1>1, SagaAssumption DEF BeginCompensation, UpdateSagaState, TypeOK, CompletedDone, QueuedDone,
     Labels, OfStep, OfCompensation
<1>2. CASE PublishCompensation(a)
  <2>1. undo[a] \in Steps /\ undo' \in [Actors -> 0 .. NumSteps]
    BY <1>2, SagaAssumption DEF PublishCompensation, TypeOK, Steps
  <2>2. queue' \in [Queues -> Seq(Steps)] /\ queue'["compensations"] \in Seq(done)
    BY <1>2, <2>1, PublishUndo DEF PublishCompensation, TypeOK, CompletedDone, QueuedDone
  <2>3. "undo" \in Labels /\ GoTo(a, "undo") /\ (a \in Managers => pc[a] # "idle")
    BY <1>2 DEF PublishCompensation, Labels, TypeOK
  <2> QED BY <1>2, <2>1, <2>2, <2>3
          DEF PublishCompensation, TypeOK, CompletedDone, OfStep, OfCompensation
<1>3. CASE CompensateFails(a)
  <2>1. "undo" \in Labels /\ GoTo(a, "undo") /\ (a \in Managers => pc[a] # "idle")
    BY <1>3 DEF CompensateFails, Labels, TypeOK
  <2>2. undo' \in [Actors -> 0 .. NumSteps]
    BY <1>3, SagaAssumption DEF CompensateFails, TypeOK
  <2> QED BY <1>3, <2>1, <2>2
          DEF CompensateFails, TypeOK, CompletedDone, QueuedDone, OfStep, OfCompensation
<1>4. CASE CompensationLost(a)
  <2>1. "undo" \in Labels /\ GoTo(a, "undo") /\ (a \in Managers => pc[a] # "idle")
    BY <1>4 DEF CompensationLost, Labels, TypeOK
  <2>2. undo[a] \in Steps /\ undo' \in [Actors -> 0 .. NumSteps]
    BY <1>4, SagaAssumption DEF CompensationLost, TypeOK, Steps
  <2> QED BY <1>4, <2>1, <2>2
          DEF CompensationLost, TypeOK, CompletedDone, QueuedDone, OfStep, OfCompensation
<1>5. CASE CompensateReturns(a)
  <2>1. Return(a) \in {"returned", "ack"} /\ GoTo(a, Return(a)) /\ (a \in Managers => pc[a] # "idle")
    BY <1>5 DEF CompensateReturns, Return
  <2>2. Return(a) \in Labels /\ Return(a) \notin OfStep /\ Return(a) \notin OfCompensation
    BY <2>1 DEF Labels, OfStep, OfCompensation
  <2> QED BY <1>5, <2>1, <2>2 DEF CompensateReturns, TypeOK, CompletedDone, QueuedDone
<1> QED BY <1>1, <1>2, <1>3, <1>4, <1>5 DEF Compensate

LEMMA UndoSteps ==
  ASSUME SagaInv, NEW m \in Managers,
         NoCompensationHandler(m) \/ MarkCompensated(m) \/ CheckCompensated(m) \/ MarkSagaCompensated(m)
  PROVE  Local(m)
<1>1. pc[m] # "idle" => at[m] \in Steps  BY DEF SagaInv, AtWork
<1> USE DEF SagaInv, Local, GoTo, saga, engine, history
<1>2. CASE NoCompensationHandler(m)
  <2>1. status' \in [Steps -> Statuses] /\ \A i \in Steps : status'[i] = "completed" => i \in done
    BY <1>1, <1>2, StatusStep DEF NoCompensationHandler, Statuses
  <2> QED BY <1>2, <2>1
          DEF NoCompensationHandler, TypeOK, QueuedDone, Labels, OfStep, OfCompensation
<1>3. CASE MarkCompensated(m)
  <2>1. status' \in [Steps -> Statuses] /\ \A i \in Steps : status'[i] = "completed" => i \in done
    BY <1>1, <1>3, StatusStep DEF MarkCompensated, Statuses
  <2> QED BY <1>3, <2>1
          DEF MarkCompensated, AtWork, TypeOK, QueuedDone, Labels, OfStep, OfCompensation
<1>4. CASE CheckCompensated(m)
  <2>1. \E label \in {"ack", "finish"} : GoTo(m, label)
    BY <1>4 DEF CheckCompensated
  <2>2. consuming[m] = "compensations" /\ pc[m] # "idle"
    BY <1>4 DEF CheckCompensated, AtWork, OfCompensation
  <2>3. \E label \in Labels : GoTo(m, label) /\ label # "completed" /\ label \notin OfStep
    BY <2>1 DEF Labels, OfStep, OfCompensation
  <2> QED BY <1>4, <2>2, <2>3 DEF CheckCompensated, TypeOK, CompletedDone, QueuedDone
<1>5. CASE MarkSagaCompensated(m)
  BY <1>5 DEF MarkSagaCompensated, UpdateSagaState, TypeOK, CompletedDone, QueuedDone, Labels,
     OfStep, OfCompensation
<1> QED BY <1>2, <1>3, <1>4, <1>5

-----------------------------------------------------------------------------
\* A consumer wins a queue while its manager is idle.
LEMMA RunInv == ASSUME SagaInv, NEW m \in Managers, RunSteps(m) PROVE SagaInv'
<1> USE DEF SagaInv, saga, work, history
<1>1. CASE Run(m)
  BY <1>1 DEF Run, TypeOK, AtWork, CompletedDone, HandledDone, QueuedDone, TriedDone
<1>2. ASSUME NEW q \in Queues, RunConsumes(m, q) PROVE SagaInv'
  <2>1. \A n \in Managers : consuming'[n] # consuming[n] => n = m /\ pc[n] = "idle"
    BY <1>2 DEF RunConsumes, TypeOK, AtWork
  <2>2. TypeOK'
    BY <1>2 DEF RunConsumes, TypeOK
  <2>3. AtWork' /\ HandledDone'
    BY <1>2, <2>1 DEF RunConsumes, AtWork, HandledDone, OfStep, OfCompensation
  <2> QED BY <1>2, <2>2, <2>3 DEF RunConsumes, CompletedDone, QueuedDone, TriedDone
<1> QED BY <1>1, <1>2 DEF RunSteps

LEMMA DeliverInv == ASSUME SagaInv, NEW m \in Managers, Deliver(m) PROVE SagaInv'
<1> USE DEF SagaInv, saga, engine, history, GoTo
<1> DEFINE q == consuming[m]
<1>1. q \in Queues /\ queue[q] \in Seq(Steps) /\ queue[q] # <<>> /\ m \in Actors
  BY DEF Deliver, TypeOK, Actors
<1>2. /\ Tail(queue[q]) \in Seq(Steps) /\ Head(queue[q]) \in Steps
      /\ q = "compensations" => Tail(queue[q]) \in Seq(done) /\ Head(queue[q]) \in done
  BY <1>1, TailIn DEF QueuedDone
<1>3. queue' = [queue EXCEPT ![q] = Tail(@)] /\ at' = [at EXCEPT ![m] = Head(queue[q])]
  BY DEF Deliver
<1>4. pc' = [pc EXCEPT ![m] = IF q = "steps" THEN "execute" ELSE "compensate"]
  BY DEF Deliver
<1>5. TypeOK'
  BY <1>1, <1>2, <1>3, <1>4 DEF Deliver, TypeOK, Labels, OfStep, OfCompensation
<1>6. AtWork'
  BY <1>1, <1>2, <1>3, <1>4 DEF Deliver, TypeOK, AtWork, OfStep, OfCompensation, Actors, Queues
<1>7. HandledDone'
  BY <1>1, <1>2, <1>3, <1>4 DEF Deliver, TypeOK, HandledDone, Actors, Queues
<1>8. QueuedDone'
  BY <1>1, <1>2, <1>3 DEF Deliver, TypeOK, QueuedDone, Queues
<1> QED BY <1>5, <1>6, <1>7, <1>8 DEF Deliver, CompletedDone, TriedDone

\* A message goes back to the queue that its manager's consumer has.
LEMMA RedeliverInv == ASSUME SagaInv, NEW m \in Managers, Redeliver(m) PROVE SagaInv'
<1> USE DEF SagaInv, saga, engine, history
<1> DEFINE q == consuming[m]
<1>1. q \in Queues /\ queue[q] \in Seq(Steps) /\ at[m] \in Steps
  BY DEF Redeliver, TypeOK, AtWork
<1>2. /\ <<at[m]>> \o queue[q] \in Seq(Steps)
      /\ q = "compensations" => <<at[m]>> \o queue[q] \in Seq(done)
  BY <1>1, PrefixIn DEF Redeliver, QueuedDone, HandledDone
<1>3. queue' = [queue EXCEPT ![q] = <<at[m]>> \o @]
  BY DEF Redeliver
<1>4. TypeOK'
  BY <1>1, <1>2, <1>3 DEF Redeliver, TypeOK
<1>5. QueuedDone'
  BY <1>1, <1>2, <1>3 DEF Redeliver, TypeOK, QueuedDone, Queues
<1> QED BY <1>4, <1>5 DEF Redeliver, AtWork, CompletedDone, HandledDone, TriedDone

LEMMA RunCompensationInv == ASSUME SagaInv, NEW m \in Managers, RunCompensation(m) PROVE SagaInv'
<1> USE DEF SagaInv, saga, engine, GoTo
<1>1. consuming[m] = "compensations" /\ at[m] \in done
  BY DEF RunCompensation, AtWork, HandledDone, OfCompensation
<1>2. TriedDone'
  BY <1>1, AppendIn DEF RunCompensation, TriedDone
<1>3. TypeOK'
  BY DEF RunCompensation, TypeOK, Labels, OfCompensation
<1>4. AtWork' /\ HandledDone'
  BY <1>1 DEF RunCompensation, TypeOK, AtWork, HandledDone, OfStep, OfCompensation, Actors
<1> QED BY <1>2, <1>3, <1>4 DEF RunCompensation, CompletedDone, QueuedDone

LEMMA NextInv == SagaInv /\ [Next]_vars => SagaInv'
<1> SUFFICES ASSUME SagaInv, [Next]_vars PROVE SagaInv' OBVIOUS
<1>1. Caller \in Actors /\ Managers \subseteq Actors  BY DEF Actors
<1>2. CASE SaveSaga \/ StartPublishes \/ CallCompensate
  BY <1>1, <1>2, CallerSteps, LocalInv
<1>3. ASSUME NEW a \in Actors, Compensate(a) PROVE SagaInv'
  BY <1>3, CompensateSteps, LocalInv
<1>4. ASSUME NEW m \in Managers, HandleMessage(m) \/ Redeliver(m) \/ Panics(m) \/ RunSteps(m)
      PROVE  SagaInv'
  <2>1. CASE Deliver(m)  BY <2>1, DeliverInv
  <2>2. CASE RunCompensation(m)  BY <2>2, RunCompensationInv
  <2>3. CASE Redeliver(m)  BY <2>3, RedeliverInv
  <2>4. CASE RunSteps(m)  BY <2>4, RunInv
  <2>5. CASE Compensate(m)  BY <1>1, <1>3, <2>5
  <2>6. CASE \/ Ack(m) \/ Panics(m) \/ StepFails(m) \/ StepSucceeds(m) \/ MarkStepFailed(m)
             \/ MarkSagaFailed(m) \/ MarkStepCompleted(m)
    BY <1>1, <2>6, StepSteps, LocalInv
  <2>7. CASE Advance(m) \/ AdvanceFails(m)
    BY <1>1, <2>7, AdvanceSteps, LocalInv
  <2>8. CASE \/ NoCompensationHandler(m) \/ MarkCompensated(m) \/ CheckCompensated(m)
             \/ MarkSagaCompensated(m)
    BY <1>1, <2>8, UndoSteps, LocalInv
  <2> QED BY <1>4, <2>1, <2>2, <2>3, <2>4, <2>5, <2>6, <2>7, <2>8 DEF HandleMessage
<1>5. CASE UNCHANGED vars
  BY <1>5 DEF vars, saga, engine, work, history, SagaInv, TypeOK, AtWork, CompletedDone,
     HandledDone, QueuedDone, TriedDone
<1> QED BY <1>1, <1>2, <1>3, <1>4, <1>5 DEF Next


-----------------------------------------------------------------------------
(* A saga none of whose messages was repeated.                             *)

Earlier(k) == {s \in Steps : s < k}
Ordered(k) == \A s \in Steps : status[s] = IF s < k THEN "completed" ELSE "started"
StepAt(k) == Ordered(k) /\ done = Earlier(k) /\ state = "started"
HasFailed == \E s \in Steps : status[s] = "failed"

\* The manager whose step failed marks the saga failed, and compensates it.
Undoer(a) == pc[a] \in {"markFailed", "load", "undo"}

CallerFirst ==
  /\ pc[Caller] \in {"idle", "saved", "returned"}
  /\ pc[Caller] = "idle" => state = "none" /\ Ordered(1) /\ done = {}
  /\ pc[Caller] = "saved" => StepAt(1)
  /\ pc[Caller] # "returned" => queue["steps"] = <<>> /\ \A m \in Managers : pc[m] \notin OfStep

\* The step's message is queued, or one manager has it.
OneMessage ==
  /\ queue["steps"] # <<>> => \A m \in Managers : pc[m] \notin OfStep
  /\ \A m, n \in Managers : pc[m] \in OfStep /\ pc[n] \in OfStep => m = n

\* Wherever the message is, the steps before it have completed and no other has begun.
Positions ==
  /\ queue["steps"] = <<>> \/ \E k \in Steps : queue["steps"] = <<k>> /\ StepAt(k)
  /\ \A m \in Managers :
       /\ pc[m] \in {"execute", "failed"} => StepAt(at[m])
       /\ pc[m] = "completed" => Ordered(at[m]) /\ done = Earlier(at[m] + 1) /\ state = "started"
       /\ pc[m] = "advance" => /\ Ordered(at[m] + 1) /\ done = Earlier(at[m] + 1)
                               /\ state = IF at[m] = NumSteps THEN "completed" ELSE "started"

\* Until a step fails nothing is compensated ...
WhileGood ==
  ~HasFailed =>
    /\ \A s \in Steps : status[s] \in {"started", "completed"}
    /\ queue["compensations"] = <<>> /\ tried = <<>>
    /\ \A a \in Actors : ~Undoer(a) /\ pc[a] \notin OfCompensation
    /\ state \in {"none", "started", "completed"}
    /\ state = "completed" => done = Steps

\* ... and once one has failed, no step is left to begin.
OnceFailed ==
  HasFailed =>
    /\ pc[Caller] = "returned" /\ queue["steps"] = <<>>
    /\ \A m \in Managers : pc[m] \notin OfStep \ {"markFailed"}
    /\ \A f \in Steps : status[f] = "failed" =>
         /\ done = Earlier(f)
         /\ \A s \in Steps : /\ s < f => status[s] \in {"completed", "compensated"}
                             /\ s > f => status[s] = "started"
    /\ state \in {"failed", "compensating", "compensated"}
    /\ \A m, n \in Managers : Undoer(m) /\ Undoer(n) => m = n

\* Compensations follow each other: done, at work, queued, and not yet published.
Q == queue["compensations"]
UndoOrder ==
  /\ \A a \in Managers :
       /\ pc[a] \in {"markFailed", "load"} =>
            Q = <<>> /\ tried = <<>> /\ \A m \in Managers : pc[m] # "compensate"
       /\ pc[a] = "undo" =>
            /\ \A i \in 1 .. Len(Q) : Q[i] > undo[a]
            /\ \A i \in 1 .. Len(tried) : tried[i] > undo[a]
            /\ \A m \in Managers : pc[m] = "compensate" => at[m] > undo[a]
  /\ \A i, j \in 1 .. Len(Q) : i < j => Before(Q[i], Q[j])
  /\ \A i, j \in 1 .. Len(tried) : i < j => Before(tried[i], tried[j])
  /\ \A i \in 1 .. Len(tried), j \in 1 .. Len(Q) : Before(tried[i], Q[j])
  /\ \A m \in Managers : pc[m] = "compensate" =>
       /\ \A i \in 1 .. Len(tried) : Before(tried[i], at[m])
       /\ \A j \in 1 .. Len(Q) : Before(at[m], Q[j])
       /\ \A n \in Managers : n # m /\ pc[n] = "compensate" => at[n] # at[m]

\* A step that counts as compensated has been, unless it has no handler.
WasTried(s) == \E i \in 1 .. Len(tried) : tried[i] = s
Accounts ==
  /\ \A m \in Managers : pc[m] = "compensated" => WasTried(at[m])
  /\ \A s \in Steps : status[s] = "compensated" => s = cfg.compensation \/ WasTried(s)
  /\ ~WasTried(cfg.compensation)
  /\ (\E m \in Managers : pc[m] = "finish") \/ state = "compensated" =>
       \A s \in Steps : status[s] # "completed"

OrderInv ==
  CallerFirst /\ OneMessage /\ Positions /\ WhileGood /\ OnceFailed /\ UndoOrder /\ Accounts

-----------------------------------------------------------------------------
LEMMA OrderFacts ==
  ASSUME SagaInv
  PROVE  /\ Q \in Seq(Steps) /\ Len(Q) \in Nat /\ \A i \in 1 .. Len(Q) : Q[i] \in Steps
         /\ tried \in Seq(done) /\ tried \in Seq(Steps) /\ Len(tried) \in Nat
         /\ \A i \in 1 .. Len(tried) : tried[i] \in done /\ tried[i] \in Steps
         /\ Steps \subseteq Nat /\ done \subseteq Steps /\ NumSteps \in Steps /\ 1 \in Steps
         /\ Caller \in Actors /\ Caller \notin Managers /\ Managers \subseteq Actors
         /\ pc \in [Actors -> Labels] /\ at \in [Actors -> Steps \cup {0}]
         /\ undo \in [Actors -> 0 .. NumSteps] /\ status \in [Steps -> Statuses]
         /\ queue \in [Queues -> Seq(Steps)] /\ consuming \in [Managers -> Queues \cup {"none"}]
<1>1. tried \in Seq(done) /\ done \subseteq Steps
  BY DEF SagaInv, TriedDone, TypeOK
<1>2. tried \in Seq(Steps)
  BY <1>1, SeqGrows
<1>3. Q \in Seq(Steps)
  BY DEF SagaInv, TypeOK, Q, Queues
<1>4. Steps \subseteq Nat /\ NumSteps \in Steps /\ 1 \in Steps
  BY SagaAssumption DEF Steps
<1>5. Caller \in Actors /\ Caller \notin Managers /\ Managers \subseteq Actors
  BY SagaAssumption DEF Actors
<1> QED BY <1>1, <1>2, <1>3, <1>4, <1>5 DEF SagaInv, TypeOK

\* Which queues the consumers have won is settled one consumer at a time.
LEMMA BeforeStays ==
  ASSUME OneUndoes' => OneUndoes
  PROVE  \A s, t \in Nat : (IF OneUndoes THEN s > t ELSE s # t) => (IF OneUndoes' THEN s > t ELSE s # t)
<1>1. \A s, t \in Nat : s > t => s # t
  OBVIOUS
<1> QED BY <1>1

\* Compensations still follow each other when some leave, and none is added.
LEMMA OrderStays ==
  ASSUME SagaInv, UndoOrder, Q' = Q, tried' = tried, at' = at, OneUndoes' => OneUndoes,
         \A m \in Managers : /\ pc'[m] = "compensate" => pc[m] = "compensate"
                             /\ pc'[m] \in {"markFailed", "load"} => pc[m] \in {"markFailed", "load"}
                             /\ pc'[m] = "undo" => pc[m] = "undo",
         \A m \in Managers : undo'[m] \in Nat /\ undo'[m] <= undo[m]
  PROVE  UndoOrder'
<1>1. \A s, t \in Nat : (IF OneUndoes THEN s > t ELSE s # t) => (IF OneUndoes' THEN s > t ELSE s # t)
  BY BeforeStays
<1>2. \A m \in Managers : at[m] \in Nat /\ undo[m] \in Nat /\ undo'[m] \in Nat /\ undo'[m] <= undo[m]
  BY OrderFacts
<1>3. /\ \A i \in 1 .. Len(Q) : Q[i] \in Nat
      /\ \A i \in 1 .. Len(tried) : tried[i] \in Nat
  BY OrderFacts
<1>4. ASSUME NEW a \in Managers
      PROVE  /\ pc'[a] \in {"markFailed", "load"} =>
                  Q' = <<>> /\ tried' = <<>> /\ \A m \in Managers : pc'[m] # "compensate"
             /\ pc'[a] = "undo" =>
                  /\ \A i \in 1 .. Len(Q') : Q'[i] > undo'[a]
                  /\ \A i \in 1 .. Len(tried') : tried'[i] > undo'[a]
                  /\ \A m \in Managers : pc'[m] = "compensate" => at'[m] > undo'[a]
  <2>1. CASE pc'[a] \in {"markFailed", "load"}
    BY <2>1 DEF UndoOrder
  <2>2. CASE pc'[a] = "undo"
    <3>1. /\ \A i \in 1 .. Len(Q) : Q[i] > undo[a]
          /\ \A i \in 1 .. Len(tried) : tried[i] > undo[a]
          /\ \A m \in Managers : pc[m] = "compensate" => at[m] > undo[a]
      BY <2>2 DEF UndoOrder
    <3>2. \A x \in Nat : x > undo[a] => x > undo'[a]
      BY <1>2
    <3> QED BY <1>2, <1>3, <2>2, <3>1, <3>2
  <2> QED BY <2>1, <2>2
<1>5. /\ \A i, j \in 1 .. Len(Q') : i < j => Before(Q[i], Q[j])'
      /\ \A i, j \in 1 .. Len(tried') : i < j => Before(tried[i], tried[j])'
      /\ \A i \in 1 .. Len(tried'), j \in 1 .. Len(Q') : Before(tried[i], Q[j])'
  BY <1>1, <1>3 DEF UndoOrder, Before
<1>6. \A m \in Managers : pc'[m] = "compensate" =>
        /\ \A i \in 1 .. Len(tried') : Before(tried[i], at[m])'
        /\ \A j \in 1 .. Len(Q') : Before(at[m], Q[j])'
        /\ \A n \in Managers : n # m /\ pc'[n] = "compensate" => at'[n] # at'[m]
  BY <1>1, <1>2, <1>3 DEF UndoOrder, Before
<1> QED BY <1>4, <1>5, <1>6 DEF UndoOrder

LEMMA InitOrder == Init => OrderInv
<1> SUFFICES ASSUME Init PROVE OrderInv OBVIOUS
<1>1. /\ \A a \in Actors : pc[a] = "idle"
      /\ queue["steps"] = <<>> /\ Q = <<>> /\ tried = <<>> /\ done = {} /\ state = "none"
      /\ \A s \in Steps : status[s] = "started" /\ ~ (s < 1)
      /\ Caller \in Actors /\ Managers \subseteq Actors
  BY DEF Init, Q, Queues, Actors, Steps
<1>2. CallerFirst /\ OneMessage /\ Positions
  BY <1>1 DEF CallerFirst, OneMessage, Positions, Ordered, OfStep
<1>3. ~HasFailed /\ WhileGood /\ OnceFailed
  <2>1. ~HasFailed
    BY <1>1 DEF HasFailed
  <2>2. \A a \in Actors : ~Undoer(a) /\ pc[a] \notin OfCompensation
    BY <1>1 DEF Undoer, OfCompensation
  <2>3. WhileGood
    BY <1>1, <2>2 DEF WhileGood, Q
  <2> QED BY <2>1, <2>3 DEF OnceFailed
<1>4. UndoOrder /\ Accounts
  <2>1. Len(Q) = 0 /\ Len(tried) = 0
    BY <1>1
  <2> QED BY <1>1, <2>1 DEF UndoOrder, Accounts, WasTried
<1> QED BY <1>2, <1>3, <1>4 DEF OrderInv

\* Where no step has failed there is nothing to say of compensations ...
LEMMA GoodIsEnough ==
  ASSUME SagaInv', ~HasFailed', WhileGood'
  PROVE  OnceFailed' /\ UndoOrder' /\ Accounts'
<1>1. /\ Q' = <<>> /\ tried' = <<>> /\ state' # "compensated"
      /\ \A a \in Managers : pc'[a] \notin {"markFailed", "load", "undo"} \cup OfCompensation
      /\ \A s \in Steps : status'[s] # "compensated"
  BY DEF WhileGood, Undoer, Q, Actors
<1>2. Len(Q') = 0 /\ Len(tried') = 0
  BY <1>1
<1>3. OnceFailed'
  BY DEF OnceFailed
<1>4. UndoOrder'
  BY <1>1, <1>2 DEF UndoOrder, OfCompensation
<1>5. Accounts'
  BY <1>1, <1>2 DEF Accounts, WasTried, OfCompensation
<1> QED BY <1>3, <1>4, <1>5

\* ... and where one has, nothing of the steps that begin.
LEMMA FailedIsEnough ==
  ASSUME HasFailed', OnceFailed'
  PROVE  CallerFirst' /\ OneMessage' /\ Positions' /\ WhileGood'
<1>1. /\ pc'[Caller] = "returned" /\ queue'["steps"] = <<>>
      /\ \A m \in Managers : pc'[m] \notin OfStep \ {"markFailed"}
      /\ \A m, n \in Managers : pc'[m] = "markFailed" /\ pc'[n] = "markFailed" => m = n
  BY DEF OnceFailed, Undoer
<1>2. CallerFirst'
  BY <1>1 DEF CallerFirst
<1>3. OneMessage'
  BY <1>1 DEF OneMessage
<1>4. Positions'
  BY <1>1 DEF Positions, OfStep
<1>5. WhileGood'
  BY DEF WhileGood
<1> QED BY <1>2, <1>3, <1>4, <1>5

-----------------------------------------------------------------------------
\* A manager lets its message go: it is done with it, or a fault takes it away.
Leaves ==
  /\ UNCHANGED <<cfg, state, status, queue, at, undo, done, tried>>
  /\ OneUndoes' => OneUndoes
  /\ \A a \in Actors : pc'[a] = pc[a] \/ (a \in Managers /\ pc'[a] \in {"ack", "idle"})

LEMMA LeavingKeeps == ASSUME SagaInv, OrderInv, Leaves PROVE OrderInv'
<1> USE DEF OrderInv, Leaves
<1>1. /\ pc'[Caller] = pc[Caller] /\ Managers \subseteq Actors
      /\ Q' = Q /\ HasFailed' = HasFailed
      /\ \A k : (Ordered(k)' <=> Ordered(k)) /\ (StepAt(k)' <=> StepAt(k))
      /\ \A a \in Actors : Undoer(a)' => Undoer(a)
  BY OrderFacts DEF Q, HasFailed, Ordered, StepAt, Undoer
<1>2. \A m \in Managers : /\ pc'[m] \in OfStep \cup OfCompensation => pc'[m] = pc[m]
                          /\ pc'[m] \in {"undo", "load"} => pc'[m] = pc[m]
  BY <1>1 DEF OfStep, OfCompensation
<1>3. CallerFirst'
  BY <1>1, <1>2 DEF CallerFirst
<1>4. OneMessage'
  BY <1>1, <1>2 DEF OneMessage
<1>5. Positions'
  BY <1>1, <1>2 DEF Positions, OfStep
<1>6. WhileGood'
  BY <1>1, <1>2 DEF WhileGood, OfCompensation, Actors
<1>7. OnceFailed'
  BY <1>1, <1>2 DEF OnceFailed
<1>8. UndoOrder'
  <2>1. \A m \in Managers : /\ pc'[m] = "compensate" => pc[m] = "compensate"
                            /\ pc'[m] \in {"markFailed", "load"} => pc[m] \in {"markFailed", "load"}
                            /\ pc'[m] = "undo" => pc[m] = "undo"
    BY <1>2 DEF OfStep, OfCompensation
  <2>2. \A m \in Managers : undo'[m] \in Nat /\ undo'[m] <= undo[m]
    BY <1>1, OrderFacts
  <2> QED BY <1>1, <2>1, <2>2, OrderStays
<1>9. Accounts'
  BY <1>1, <1>2 DEF Accounts, WasTried, OfCompensation
<1> QED BY <1>3, <1>4, <1>5, <1>6, <1>7, <1>8, <1>9
-----------------------------------------------------------------------------
\* A step begins, works and succeeds.

\* As long as a message drives the steps, none has failed.
LEMMA GoodWhileDriven ==
  ASSUME OrderInv,
         \/ pc[Caller] # "returned" \/ queue["steps"] # <<>>
         \/ \E m \in Managers : pc[m] \in OfStep \ {"markFailed"}
  PROVE  /\ ~HasFailed
         /\ \A s \in Steps : status[s] \in {"started", "completed"}
         /\ Q = <<>> /\ tried = <<>>
         /\ \A a \in Actors : ~Undoer(a) /\ pc[a] \notin OfCompensation
         /\ state \in {"none", "started", "completed"}
         /\ state = "completed" => done = Steps
<1>1. ~HasFailed
  BY DEF OrderInv, OnceFailed
<1> QED BY <1>1 DEF OrderInv, WhileGood, Q

\* What is left to show of such a step.
LEMMA DrivenKeeps ==
  ASSUME SagaInv', CallerFirst', OneMessage', Positions',
         \A s \in Steps : status'[s] \in {"started", "completed"},
         queue'["compensations"] = <<>>, tried' = <<>>,
         \A a \in Actors : pc'[a] \notin {"markFailed", "load", "undo"} \cup OfCompensation,
         state' \in {"none", "started", "completed"}, state' = "completed" => done' = Steps
  PROVE  OrderInv'
<1>1. ~HasFailed'
  BY DEF HasFailed
<1>2. WhileGood'
  BY DEF WhileGood, Undoer
<1> QED BY <1>1, <1>2, GoodIsEnough DEF OrderInv

LEMMA SaveKeeps == ASSUME SagaInv, SagaInv', OrderInv, SaveSaga PROVE OrderInv'
<1>1. /\ pc[Caller] = "idle" /\ pc' = [pc EXCEPT ![Caller] = "saved"] /\ state' = "started"
      /\ UNCHANGED <<status, queue, at, done, tried>>
  BY DEF SaveSaga, GoTo, history
<1>2. /\ pc'[Caller] = "saved" /\ \A m \in Managers : pc'[m] = pc[m]
      /\ \A a \in Actors : a # Caller => pc'[a] = pc[a]
  BY <1>1, OrderFacts
<1>3. Ordered(1) /\ done = {} /\ queue["steps"] = <<>> /\ \A m \in Managers : pc[m] \notin OfStep
  BY <1>1 DEF OrderInv, CallerFirst
<1>4. done = Earlier(1)
  BY <1>3 DEF Earlier, Steps
<1>5. CallerFirst'
  BY <1>1, <1>2, <1>3, <1>4 DEF CallerFirst, StepAt, Ordered
<1>6. OneMessage' /\ Positions'
  BY <1>1, <1>2, <1>3 DEF OneMessage, Positions, OfStep
<1>7. \A a \in Actors : pc'[a] \notin {"markFailed", "load", "undo"} \cup OfCompensation
  BY <1>1, <1>2, GoodWhileDriven DEF Undoer, OfCompensation
<1> QED BY <1>1, <1>5, <1>6, <1>7, GoodWhileDriven, DrivenKeeps DEF Q

LEMMA PublishKeeps == ASSUME SagaInv, SagaInv', OrderInv, StartPublishes PROVE OrderInv'
<1>1. /\ pc[Caller] = "saved" /\ pc' = [pc EXCEPT ![Caller] = "returned"]
      /\ UNCHANGED <<state, status, at, done, tried>>
  BY DEF StartPublishes, GoTo, saga
<1>2. /\ pc'[Caller] = "returned" /\ \A m \in Managers : pc'[m] = pc[m]
      /\ \A a \in Actors : a # Caller => pc'[a] = pc[a]
  BY <1>1, OrderFacts
<1>3. StepAt(1) /\ queue["steps"] = <<>> /\ \A m \in Managers : pc[m] \notin OfStep
  BY <1>1 DEF OrderInv, CallerFirst
<1>4. queue' = queue \/ queue' = [queue EXCEPT !["steps"] = Append(@, 1)]
  BY DEF StartPublishes, Publish
<1>5. /\ queue'["compensations"] = queue["compensations"]
      /\ queue'["steps"] = <<>> \/ queue'["steps"] = <<1>>
  BY <1>3, <1>4, OrderFacts DEF Queues
<1>6. CallerFirst'
  BY <1>2 DEF CallerFirst
<1>7. OneMessage'
  BY <1>2, <1>3 DEF OneMessage
<1>8. Positions'
  <2>1. StepAt(1)'
    BY <1>1, <1>3 DEF StepAt, Ordered
  <2> QED BY <1>2, <1>3, <1>5, <2>1, OrderFacts DEF Positions, OfStep
<1>9. \A a \in Actors : pc'[a] \notin {"markFailed", "load", "undo"} \cup OfCompensation
  BY <1>1, <1>2, GoodWhileDriven DEF Undoer, OfCompensation
<1> QED BY <1>1, <1>5, <1>6, <1>7, <1>8, <1>9, GoodWhileDriven, DrivenKeeps DEF Q

\* The manager that has the message moves on, and leaves the queues alone.
LEMMA WorkKeeps ==
  ASSUME SagaInv, SagaInv', OrderInv, NEW m \in Managers, pc[m] \in OfStep \ {"markFailed"},
         NEW label \in {"failed", "completed", "advance"}, pc' = [pc EXCEPT ![m] = label],
         UNCHANGED <<queue, at, tried>>,
         \A s \in Steps : status'[s] \in {"started", "completed"},
         state' \in {"started", "completed"}, state' = "completed" => done' = Steps,
         /\ label = "failed" => StepAt(at[m])'
         /\ label = "completed" => Ordered(at[m])' /\ done' = Earlier(at[m] + 1) /\ state' = "started"
         /\ label = "advance" => /\ Ordered(at[m] + 1)' /\ done' = Earlier(at[m] + 1)
                                 /\ state' = IF at[m] = NumSteps THEN "completed" ELSE "started"
  PROVE  OrderInv'
<1>1. /\ pc'[m] = label /\ m \in Actors /\ Managers \subseteq Actors /\ pc'[Caller] = pc[Caller]
      /\ \A a \in Actors : a # m => pc'[a] = pc[a]
  BY OrderFacts
<1>2. \A n \in Managers : n # m => pc[n] \notin OfStep
  BY DEF OrderInv, OneMessage
<1>3. queue["steps"] = <<>> /\ pc[Caller] = "returned"
  BY DEF OrderInv, OneMessage, CallerFirst
<1>4. CallerFirst'
  BY <1>1, <1>3 DEF CallerFirst
<1>5. OneMessage'
  BY <1>1, <1>2, <1>3 DEF OneMessage
<1>6. \A n \in Managers : n # m => pc'[n] \notin {"execute", "failed", "completed", "advance"}
  BY <1>1, <1>2 DEF OfStep
<1>7. Positions'
  <2>1. ASSUME NEW n \in Managers
        PROVE  /\ pc'[n] \in {"execute", "failed"} => StepAt(at[n])'
               /\ pc'[n] = "completed" => Ordered(at[n])' /\ done' = Earlier(at'[n] + 1) /\ state' = "started"
               /\ pc'[n] = "advance" => /\ Ordered(at[n] + 1)' /\ done' = Earlier(at'[n] + 1)
                                        /\ state' = IF at'[n] = NumSteps THEN "completed" ELSE "started"
    <3>1. CASE n = m
      BY <1>1, <3>1 DEF Ordered, StepAt
    <3>2. CASE n # m
      BY <1>6, <2>1, <3>2
    <3> QED BY <3>1, <3>2
  <2> QED BY <1>3, <2>1 DEF Positions
<1>8. \A a \in Actors : pc'[a] \notin {"markFailed", "load", "undo"} \cup OfCompensation
  BY <1>1, GoodWhileDriven DEF Undoer, OfCompensation
<1> QED BY <1>4, <1>5, <1>7, <1>8, GoodWhileDriven, DrivenKeeps DEF Q

LEMMA OutcomeKeeps ==
  ASSUME SagaInv, SagaInv', OrderInv, NEW m \in Managers, StepFails(m) \/ StepSucceeds(m)
  PROVE  OrderInv'
<1>1. pc[m] = "execute" /\ UNCHANGED <<state, status, queue, at, tried>>
  BY DEF StepFails, StepSucceeds, saga, history
<1>2. StepAt(at[m]) /\ at[m] \in Steps /\ at[m] \in Nat
  BY <1>1, OrderFacts DEF OrderInv, Positions, SagaInv, AtWork
<1>3. \A k : Ordered(k)' <=> Ordered(k)
  BY <1>1 DEF Ordered
<1>4. \A s \in Steps : status'[s] \in {"started", "completed"}
  BY <1>1, <1>2 DEF StepAt, Ordered
<1>5. CASE StepFails(m)
  <2>1. pc' = [pc EXCEPT ![m] = "failed"] /\ done' = done
    BY <1>5 DEF StepFails, GoTo, history
  <2>2. StepAt(at[m])'
    BY <1>1, <1>2, <1>3, <2>1 DEF StepAt
  <2> QED BY <1>1, <1>2, <1>4, <2>1, <2>2, WorkKeeps DEF OfStep, StepAt
<1>6. CASE StepSucceeds(m)
  <2>1. pc' = [pc EXCEPT ![m] = "completed"] /\ done' = done \cup {at[m]}
    BY <1>6 DEF StepSucceeds, GoTo
  <2>2. \A s \in Steps : s < at[m] + 1 <=> s < at[m] \/ s = at[m]
    BY <1>2, OrderFacts
  <2>3. done' = Earlier(at[m] + 1)
    BY <1>2, <2>1, <2>2 DEF StepAt, Earlier
  <2>4. Ordered(at[m])' /\ state' = "started"
    BY <1>1, <1>2, <1>3 DEF StepAt
  <2> QED BY <1>1, <1>2, <1>4, <2>1, <2>3, <2>4, WorkKeeps DEF OfStep
<1> QED BY <1>5, <1>6

LEMMA CompletionKeeps ==
  ASSUME SagaInv, SagaInv', OrderInv, NEW m \in Managers, MarkStepCompleted(m)
  PROVE  OrderInv'
<1>1. /\ pc[m] = "completed" /\ pc' = [pc EXCEPT ![m] = "advance"]
      /\ UpdateSagaStep(at[m], "completed") /\ UNCHANGED <<queue, at, done, tried>>
  BY DEF MarkStepCompleted, GoTo, history
<1>2. /\ Ordered(at[m]) /\ done = Earlier(at[m] + 1) /\ state = "started"
      /\ at[m] \in Steps /\ at[m] \in Nat
  BY <1>1, OrderFacts DEF OrderInv, Positions, SagaInv, AtWork
<1>3. \A s \in Steps : status'[s] = IF s < at[m] + 1 THEN "completed" ELSE "started"
  <2>1. \A s \in Steps : status'[s] = IF s = at[m] THEN "completed" ELSE status[s]
    BY <1>1, <1>2, OrderFacts DEF UpdateSagaStep
  <2>2. \A s \in Steps : s < at[m] + 1 <=> s < at[m] \/ s = at[m]
    BY <1>2, OrderFacts
  <2> QED BY <1>2, <2>1, <2>2 DEF Ordered
<1>4. state' = IF \A i \in Steps : status'[i] = "completed" THEN "completed" ELSE state
  BY <1>1, <1>3 DEF UpdateSagaStep
<1>5. (\A i \in Steps : status'[i] = "completed") <=> at[m] = NumSteps
  <2>1. CASE at[m] = NumSteps
    <3>1. \A s \in Steps : s < at[m] + 1
      BY <2>1, SagaAssumption DEF Steps
    <3> QED BY <1>3, <2>1, <3>1
  <2>2. CASE at[m] # NumSteps
    <3>1. ~ (NumSteps < at[m] + 1)
      BY <1>2, <2>2, SagaAssumption DEF Steps
    <3>2. NumSteps \in Steps
      BY OrderFacts
    <3> QED BY <1>3, <2>2, <3>1, <3>2
  <2> QED BY <2>1, <2>2
<1>6. state' = IF at[m] = NumSteps THEN "completed" ELSE "started"
  BY <1>2, <1>4, <1>5
<1>7. state' = "completed" => done' = Steps
  <2>1. SUFFICES ASSUME at[m] = NumSteps PROVE done' = Steps
    BY <1>6
  <2>2. \A s \in Steps : s < NumSteps + 1
    BY SagaAssumption DEF Steps
  <2> QED BY <1>1, <1>2, <2>1, <2>2 DEF Earlier
<1>8. \A s \in Steps : status'[s] \in {"started", "completed"}
  BY <1>3
<1>9. Ordered(at[m] + 1)' /\ done' = Earlier(at[m] + 1) /\ state' \in {"started", "completed"}
  BY <1>1, <1>2, <1>3, <1>6 DEF Ordered
<1> QED BY <1>1, <1>6, <1>7, <1>8, <1>9, WorkKeeps DEF OfStep
\* What comes after the steps that have completed is the next one.
LEMMA NextIsNext ==
  ASSUME NEW k \in Nat, Ordered(k + 1), NotStarted # {}
  PROVE  k + 1 \in Steps /\ GetNextStep = k + 1
<1>1. NotStarted = {s \in Steps : k + 1 <= s}
  <2>1. \A s \in Steps : s \in Nat
    BY DEF Steps
  <2> QED BY <2>1 DEF NotStarted, Ordered
<1>2. k + 1 \in Steps
  <2>1. PICK s \in Steps : k + 1 <= s
    BY <1>1
  <2> QED BY <2>1, SagaAssumption DEF Steps
<1>3. k + 1 \in NotStarted /\ \A t \in NotStarted : k + 1 <= t
  BY <1>1, <1>2
<1>4. \A s \in NotStarted : (\A t \in NotStarted : s <= t) => s = k + 1
  <2>1. \A s \in NotStarted : s \in Nat /\ k + 1 <= s
    BY <1>1 DEF Steps
  <2> QED BY <1>3, <2>1
<1>5. GetNextStep \in NotStarted /\ \A t \in NotStarted : GetNextStep <= t
  BY <1>3 DEF GetNextStep
<1> QED BY <1>2, <1>4, <1>5

LEMMA AdvanceKeeps == ASSUME SagaInv, SagaInv', OrderInv, NEW m \in Managers, Advance(m) PROVE OrderInv'
<1>1. /\ pc[m] = "advance" /\ pc' = [pc EXCEPT ![m] = "ack"]
      /\ UNCHANGED <<status, at, done, tried>>
  BY DEF Advance, GoTo, history, saga, UpdateSagaState
<1>2. /\ Ordered(at[m] + 1) /\ done = Earlier(at[m] + 1)
      /\ state = IF at[m] = NumSteps THEN "completed" ELSE "started"
      /\ at[m] \in Steps /\ at[m] \in Nat /\ m \in Actors
  BY <1>1, OrderFacts DEF OrderInv, Positions, SagaInv, AtWork
<1>3. /\ pc'[m] = "ack" /\ \A a \in Actors : a # m => pc'[a] = pc[a]
      /\ pc'[Caller] = "returned" /\ pc[Caller] = "returned"
  BY <1>1, <1>2, OrderFacts DEF OrderInv, CallerFirst, OfStep
<1>4. queue["steps"] = <<>> /\ \A n \in Managers : pc'[n] \notin OfStep
  BY <1>1, <1>3, OrderFacts DEF OrderInv, OneMessage, OfStep
<1>5. \A k : Ordered(k)' <=> Ordered(k)
  BY <1>1 DEF Ordered
<1>6. CallerFirst' /\ OneMessage'
  BY <1>3, <1>4 DEF CallerFirst, OneMessage
<1>7. /\ queue'["compensations"] = queue["compensations"]
      /\ queue'["steps"] = <<>> \/ \E k \in Steps : queue'["steps"] = <<k>> /\ StepAt(k)'
      /\ state' \in {"started", "completed"} /\ (state' = "completed" => done = Steps)
  <2>1. CASE NotStarted # {}
    <3>1. /\ queue' = [queue EXCEPT !["steps"] = Append(@, GetNextStep)] /\ state' = state
          /\ at[m] + 1 \in Steps /\ GetNextStep = at[m] + 1
      BY <1>2, <2>1, NextIsNext DEF Advance, Publish, saga
    <3>2. PICK k \in Steps : k = at[m] + 1
      BY <3>1
    <3>3. queue'["compensations"] = queue["compensations"] /\ queue'["steps"] = <<k>>
      BY <1>4, <3>1, <3>2, OrderFacts DEF Queues
    <3>4. state' = "started"
      BY <1>2, <3>1, SagaAssumption DEF Steps
    <3>5. StepAt(k)'
      BY <1>1, <1>2, <1>5, <3>2, <3>4 DEF StepAt, Earlier
    <3> QED BY <3>3, <3>4, <3>5
  <2>2. CASE NotStarted = {}
    <3>1. state' = "completed" /\ queue' = queue
      BY <2>2 DEF Advance, UpdateSagaState
    <3>2. \A s \in Steps : s < at[m] + 1
      BY <1>2, <2>2 DEF Ordered, NotStarted
    <3>3. done = Steps
      BY <1>2, <3>2 DEF Earlier
    <3> QED BY <1>4, <3>1, <3>3
  <2> QED BY <2>1, <2>2
<1>8. Positions'
  BY <1>4, <1>7 DEF Positions, OfStep
<1>9. \A a \in Actors : pc'[a] \notin {"markFailed", "load", "undo"} \cup OfCompensation
  BY <1>1, <1>3, GoodWhileDriven DEF Undoer, OfCompensation, OfStep
<1>10. \A s \in Steps : status'[s] \in {"started", "completed"}
  BY <1>1, <1>2 DEF Ordered
<1>11. Q = <<>> /\ tried = <<>>
  BY <1>1, GoodWhileDriven DEF OfStep
<1> QED BY <1>1, <1>6, <1>7, <1>8, <1>9, <1>10, <1>11, DrivenKeeps DEF Q

LEMMA BeginKeeps ==
  ASSUME SagaInv, SagaInv', OrderInv, NEW m \in Managers, Deliver(m), consuming[m] = "steps"
  PROVE  OrderInv'
<1>1. /\ pc[m] = "idle" /\ queue["steps"] # <<>>
      /\ queue' = [queue EXCEPT !["steps"] = Tail(@)]
      /\ at' = [at EXCEPT ![m] = Head(queue["steps"])]
      /\ pc' = [pc EXCEPT ![m] = "execute"]
      /\ UNCHANGED <<state, status, done, tried>> /\ m \in Actors
  BY OrderFacts DEF Deliver, GoTo, saga, history
<1>2. PICK k \in Steps : queue["steps"] = <<k>> /\ StepAt(k)
  BY <1>1 DEF OrderInv, Positions
<1>3. /\ queue'["steps"] = <<>> /\ queue'["compensations"] = queue["compensations"]
      /\ at'[m] = k /\ pc'[m] = "execute" /\ \A a \in Actors : a # m => pc'[a] = pc[a]
  BY <1>1, <1>2, OrderFacts DEF Queues
<1>4. /\ \A n \in Managers : n # m => pc'[n] = pc[n] /\ pc[n] \notin OfStep
      /\ pc'[Caller] = "returned"
  BY <1>1, <1>3, OrderFacts DEF OrderInv, OneMessage, CallerFirst
<1>5. StepAt(k)'
  BY <1>1, <1>2 DEF StepAt, Ordered
<1>6. CallerFirst' /\ OneMessage'
  BY <1>3, <1>4 DEF CallerFirst, OneMessage
<1>7. Positions'
  <2>1. \A n \in Managers : n # m => pc'[n] \notin {"execute", "failed", "completed", "advance"}
    BY <1>4 DEF OfStep
  <2> QED BY <1>3, <1>5, <2>1 DEF Positions
<1>8. \A a \in Actors : pc'[a] \notin {"markFailed", "load", "undo"} \cup OfCompensation
  BY <1>1, <1>3, GoodWhileDriven DEF Undoer, OfCompensation
<1> QED BY <1>1, <1>3, <1>6, <1>7, <1>8, GoodWhileDriven, DrivenKeeps DEF Q
-----------------------------------------------------------------------------
\* A step fails, and the manager that has its message sees to the compensation.
LEMMA FailureKeeps ==
  ASSUME SagaInv, SagaInv', OrderInv, NEW m \in Managers, MarkStepFailed(m) PROVE OrderInv'
<1>1. /\ pc[m] = "failed" /\ pc' = [pc EXCEPT ![m] = "markFailed"]
      /\ UpdateSagaStep(at[m], "failed") /\ UNCHANGED <<cfg, queue, at, done, tried>>
  BY DEF MarkStepFailed, GoTo, history
<1>2. PICK f \in Steps : f = at[m]
  BY <1>1 DEF SagaInv, AtWork
<1>3. Ordered(f) /\ done = Earlier(f) /\ f \in Nat /\ m \in Actors
  BY <1>1, <1>2, OrderFacts DEF OrderInv, Positions, StepAt
<1>4. /\ ~HasFailed /\ Q = <<>> /\ tried = <<>>
      /\ \A a \in Actors : ~Undoer(a) /\ pc[a] \notin OfCompensation
  BY <1>1, GoodWhileDriven DEF OfStep
<1>5. /\ pc'[m] = "markFailed" /\ \A a \in Actors : a # m => pc'[a] = pc[a]
      /\ queue["steps"] = <<>> /\ pc'[Caller] = "returned"
      /\ \A n \in Managers : n # m => pc[n] \notin OfStep
  BY <1>1, <1>3, OrderFacts DEF OrderInv, CallerFirst, OneMessage, OfStep
<1>6. /\ status'[f] = "failed"
      /\ \A s \in Steps : s # f => status'[s] = IF s < f THEN "completed" ELSE "started"
  BY <1>1, <1>2, <1>3, OrderFacts DEF UpdateSagaStep, Ordered
<1>7. HasFailed' /\ state' = "failed"
  BY <1>1, <1>6 DEF HasFailed, UpdateSagaStep
<1>8. OnceFailed'
  <2>1. \A g \in Steps : status'[g] = "failed" => g = f
    BY <1>6
  <2>2. \A s \in Steps : /\ s < f => status'[s] \in {"completed", "compensated"}
                         /\ s > f => status'[s] = "started"
    BY <1>3, <1>6, OrderFacts
  <2>3. \A g \in Steps : status'[g] = "failed" =>
          /\ done' = Earlier(g)
          /\ \A s \in Steps : /\ s < g => status'[s] \in {"completed", "compensated"}
                              /\ s > g => status'[s] = "started"
    BY <1>1, <1>3, <2>1, <2>2
  <2>4. \A n \in Managers : n # m => pc'[n] \notin OfStep \ {"markFailed"}
    BY <1>5, OrderFacts
  <2>5. \A n \in Managers : pc'[n] \in {"markFailed", "load", "undo"} => n = m
    BY <1>4, <1>5, OrderFacts DEF Undoer
  <2> QED BY <1>1, <1>5, <1>7, <2>3, <2>4, <2>5 DEF OnceFailed, Undoer
<1>9. UndoOrder'
  <2>1. Q' = <<>> /\ tried' = <<>> /\ Len(Q') = 0 /\ Len(tried') = 0
    BY <1>1, <1>4 DEF Q
  <2>2. \A n \in Managers : pc'[n] \notin OfCompensation /\ pc'[n] # "undo"
    BY <1>4, <1>5, OrderFacts DEF Undoer, OfCompensation
  <2> QED BY <2>1, <2>2 DEF UndoOrder, OfCompensation
<1>10. Accounts'
  <2>1. Len(tried') = 0 /\ \A n \in Managers : pc'[n] \notin OfCompensation
    BY <1>1, <1>4, <1>5, OrderFacts DEF OfCompensation
  <2>2. \A s \in Steps : status'[s] # "compensated"
    BY <1>6
  <2> QED BY <1>7, <2>1, <2>2 DEF Accounts, WasTried, OfCompensation
<1> QED BY <1>7, <1>8, <1>9, <1>10, FailedIsEnough DEF OrderInv

\* Once a step has failed, no other fails, succeeds or begins.
LEMMA StaysFailed ==
  ASSUME SagaInv, OrderInv, HasFailed, queue'["steps"] = queue["steps"], done' = done,
         \A s \in Steps : status'[s] = status[s] \/ (s \in done /\ status'[s] = "compensated"),
         state' \in {"failed", "compensating", "compensated"},
         \A a \in Actors : \/ pc'[a] = pc[a]
                           \/ a \in Managers /\ pc'[a] \in {"load", "undo"} /\ Undoer(a)
                           \/ a \in Managers /\ pc'[a] \notin OfStep \cup {"load", "undo"}
  PROVE  HasFailed' /\ OnceFailed'
<1>1. /\ pc[Caller] = "returned" /\ queue["steps"] = <<>>
      /\ \A m \in Managers : pc[m] \notin OfStep \ {"markFailed"}
      /\ \A f \in Steps : status[f] = "failed" =>
           /\ done = Earlier(f)
           /\ \A s \in Steps : /\ s < f => status[s] \in {"completed", "compensated"}
                               /\ s > f => status[s] = "started"
      /\ \A m, n \in Managers : Undoer(m) /\ Undoer(n) => m = n
  BY DEF OrderInv, OnceFailed
<1>2. \A f, s \in Steps : status[f] = "failed" /\ s \in done => s < f /\ s # f
  BY <1>1, OrderFacts DEF Earlier
<1>3. \A f \in Steps : status'[f] = "failed" <=> status[f] = "failed"
  BY <1>2
<1>4. HasFailed'
  BY <1>3 DEF HasFailed
<1>5. ASSUME NEW f \in Steps, status'[f] = "failed"
      PROVE  /\ done' = Earlier(f)
             /\ \A s \in Steps : /\ s < f => status'[s] \in {"completed", "compensated"}
                                 /\ s > f => status'[s] = "started"
  <2>1. status[f] = "failed"
    BY <1>3, <1>5
  <2>2. \A s \in Steps : s > f => ~(s < f)
    BY <1>5, OrderFacts
  <2> QED BY <1>1, <1>2, <2>1, <2>2
<1>6. \A m \in Managers : pc'[m] \notin OfStep \ {"markFailed"} /\ (Undoer(m)' => Undoer(m))
  BY <1>1, OrderFacts DEF OfStep, Undoer
<1>7. pc'[Caller] = "returned"
  BY <1>1, OrderFacts
<1> QED BY <1>1, <1>4, <1>5, <1>6, <1>7 DEF OnceFailed

LEMMA MarkingKeeps ==
  ASSUME SagaInv, SagaInv', OrderInv, NEW m \in Managers, MarkSagaFailed(m) PROVE OrderInv'
<1>1. /\ pc[m] = "markFailed" /\ pc' = [pc EXCEPT ![m] = "load"] /\ state' = "failed"
      /\ UNCHANGED <<cfg, status, queue, consuming, at, undo, done, tried>> /\ m \in Actors
  BY OrderFacts DEF MarkSagaFailed, GoTo, UpdateSagaState, engine, history
<1>2. pc'[m] = "load" /\ \A a \in Actors : a # m => pc'[a] = pc[a]
  BY <1>1, OrderFacts
<1>3. HasFailed /\ Undoer(m)
  BY <1>1 DEF OrderInv, WhileGood, Undoer
<1>4. HasFailed' /\ OnceFailed'
  BY <1>1, <1>2, <1>3, StaysFailed
<1>5. Q' = Q /\ OneUndoes' = OneUndoes
  BY <1>1 DEF Q, OneUndoes
<1>6. \A n \in Managers : undo'[n] \in Nat /\ undo'[n] <= undo[n]
  BY <1>1, OrderFacts
<1>7. UndoOrder'
  BY <1>1, <1>2, <1>5, <1>6, OrderFacts, OrderStays DEF OrderInv
<1>8. Accounts'
  BY <1>1, <1>2, OrderFacts DEF OrderInv, Accounts, WasTried
<1> QED BY <1>4, <1>7, <1>8, FailedIsEnough DEF OrderInv

LEMMA CompensationBegins ==
  ASSUME SagaInv, SagaInv', OrderInv, NEW m \in Managers, BeginCompensation(m) PROVE OrderInv'
<1>1. /\ pc[m] = "load" /\ pc' = [pc EXCEPT ![m] = "undo"] /\ state' = "compensating"
      /\ UNCHANGED <<cfg, status, queue, at, done, tried>> /\ m \in Actors
  BY OrderFacts DEF BeginCompensation, GoTo, UpdateSagaState, history
<1>2. pc'[m] = "undo" /\ \A a \in Actors : a # m => pc'[a] = pc[a]
  BY <1>1, OrderFacts
<1>3. HasFailed /\ Undoer(m)
  BY <1>1 DEF OrderInv, WhileGood, Undoer
<1>4. HasFailed' /\ OnceFailed'
  BY <1>1, <1>2, <1>3, StaysFailed
<1>5. /\ Q' = <<>> /\ tried' = <<>> /\ Len(Q') = 0 /\ Len(tried') = 0
      /\ \A n \in Managers : pc[n] # "compensate"
  BY <1>1 DEF OrderInv, UndoOrder, Q
<1>6. \A n \in Managers : pc'[n] # "compensate"
  BY <1>2, <1>5, OrderFacts
<1>7. UndoOrder'
  BY <1>5, <1>6 DEF UndoOrder
<1>8. Accounts'
  BY <1>1, <1>2, OrderFacts DEF OrderInv, Accounts, WasTried
<1> QED BY <1>4, <1>7, <1>8, FailedIsEnough DEF OrderInv
\* What has been published goes before what Compensate publishes next.
LEMMA PublishingKeeps ==
  ASSUME SagaInv, SagaInv', OrderInv, NEW m \in Managers, PublishCompensation(m) PROVE OrderInv'
<1>1. /\ pc[m] = "undo" /\ undo[m] > 0 /\ undo' = [undo EXCEPT ![m] = @ - 1]
      /\ UNCHANGED <<cfg, state, status, consuming, pc, at, done, tried>> /\ m \in Actors
  BY OrderFacts DEF PublishCompensation, saga, engine, history
<1>2. PICK s \in Steps : s = undo[m]
  BY <1>1, OrderFacts DEF Steps
<1>3. /\ s \in Nat /\ undo'[m] = s - 1 /\ s - 1 \in Nat
      /\ \A a \in Managers : at[a] \in Nat
  BY <1>1, <1>2, OrderFacts DEF Steps
<1>4. HasFailed /\ Undoer(m)
  BY <1>1 DEF OrderInv, WhileGood, Undoer
<1>5. \A n \in Managers : n # m => pc[n] \notin {"markFailed", "load", "undo"}
  BY <1>1, <1>4 DEF OrderInv, OnceFailed, Undoer
<1>6. queue'["steps"] = queue["steps"] /\ (Q' = Q \/ Q' = Append(Q, s))
  BY <1>2, OrderFacts DEF PublishCompensation, Publish, Queues, Q
<1>7. state \in {"failed", "compensating", "compensated"}
  BY <1>4 DEF OrderInv, OnceFailed
<1>8. HasFailed' /\ OnceFailed'
  BY <1>1, <1>4, <1>6, <1>7, StaysFailed
<1>9. /\ Len(Q) \in Nat /\ Len(Q') \in Nat
      /\ \A i \in 1 .. Len(Q') : \/ i \in 1 .. Len(Q) /\ Q'[i] = Q[i] /\ Q[i] \in Nat
                                 \/ i = Len(Q) + 1 /\ Q'[i] = s
  <2>1. Q \in Seq(Steps) /\ Len(Q) \in Nat /\ \A i \in 1 .. Len(Q) : Q[i] \in Nat
    BY OrderFacts
  <2>2. CASE Q' = Q
    BY <2>1, <2>2
  <2>3. CASE Q' = Append(Q, s)
    BY <2>1, <2>3
  <2> QED BY <1>6, <2>2, <2>3
<1>10. /\ \A i \in 1 .. Len(Q) : Q[i] > s
       /\ \A i \in 1 .. Len(tried) : tried[i] > s /\ tried[i] \in Nat
       /\ \A n \in Managers : pc[n] = "compensate" => at[n] > s
  BY <1>1, <1>2, OrderFacts DEF OrderInv, UndoOrder
<1>11. \A t \in Nat : t > s => t > s - 1 /\ (IF OneUndoes THEN t > s ELSE t # s)
  BY <1>3
<1>12. OneUndoes' = OneUndoes
  BY <1>1 DEF OneUndoes
<1>13. /\ \A i \in 1 .. Len(Q') : Q'[i] > undo'[m]
       /\ \A i \in 1 .. Len(tried) : tried[i] > undo'[m]
       /\ \A n \in Managers : pc[n] = "compensate" => at[n] > undo'[m]
  <2>1. \A i \in 1 .. Len(Q') : Q'[i] \in Nat /\ (Q'[i] > s \/ Q'[i] = s)
    BY <1>3, <1>9, <1>10
  <2>2. \A t \in Nat : t > s \/ t = s => t > undo'[m]
    BY <1>3
  <2>3. \A i \in 1 .. Len(Q') : Q'[i] > undo'[m]
    BY <2>1, <2>2
  <2>4. \A i \in 1 .. Len(tried) : tried[i] > undo'[m]
    BY <1>10, <2>2
  <2>5. \A n \in Managers : pc[n] = "compensate" => at[n] > undo'[m]
    BY <1>3, <1>10, <2>2
  <2> QED BY <2>3, <2>4, <2>5
<1>14. \A i, j \in 1 .. Len(Q') : i < j => IF OneUndoes THEN Q'[i] > Q'[j] ELSE Q'[i] # Q'[j]
  <2>1. SUFFICES ASSUME NEW i \in 1 .. Len(Q'), NEW j \in 1 .. Len(Q'), i < j
                 PROVE  IF OneUndoes THEN Q'[i] > Q'[j] ELSE Q'[i] # Q'[j]
    OBVIOUS
  <2>2. i \in 1 .. Len(Q) /\ Q'[i] = Q[i] /\ Q[i] \in Nat
    BY <1>9, <2>1
  <2>3. CASE j \in 1 .. Len(Q) /\ Q'[j] = Q[j]
    BY <2>1, <2>2, <2>3 DEF OrderInv, UndoOrder, Before
  <2>4. CASE Q'[j] = s
    BY <1>10, <1>11, <2>2, <2>4
  <2> QED BY <1>9, <2>3, <2>4
<1>15. \A i \in 1 .. Len(tried), j \in 1 .. Len(Q') :
         IF OneUndoes THEN tried[i] > Q'[j] ELSE tried[i] # Q'[j]
  <2>1. \A i \in 1 .. Len(tried), j \in 1 .. Len(Q) :
          IF OneUndoes THEN tried[i] > Q[j] ELSE tried[i] # Q[j]
    BY DEF OrderInv, UndoOrder, Before
  <2>2. \A i \in 1 .. Len(tried) : IF OneUndoes THEN tried[i] > s ELSE tried[i] # s
    BY <1>10, <1>11
  <2> QED BY <1>9, <2>1, <2>2
<1>16. \A n \in Managers : pc[n] = "compensate" =>
         \A j \in 1 .. Len(Q') : IF OneUndoes THEN at[n] > Q'[j] ELSE at[n] # Q'[j]
  <2>1. \A n \in Managers : pc[n] = "compensate" =>
          \A j \in 1 .. Len(Q) : IF OneUndoes THEN at[n] > Q[j] ELSE at[n] # Q[j]
    BY DEF OrderInv, UndoOrder, Before
  <2>2. \A n \in Managers : pc[n] = "compensate" => IF OneUndoes THEN at[n] > s ELSE at[n] # s
    BY <1>3, <1>10, <1>11
  <2> QED BY <1>9, <2>1, <2>2
<1>17. UndoOrder'
  <2>1. \A a \in Managers :
          /\ pc'[a] \notin {"markFailed", "load"}
          /\ pc'[a] = "undo" =>
               /\ \A i \in 1 .. Len(Q') : Q'[i] > undo'[a]
               /\ \A i \in 1 .. Len(tried') : tried'[i] > undo'[a]
               /\ \A n \in Managers : pc'[n] = "compensate" => at'[n] > undo'[a]
    BY <1>1, <1>5, <1>13
  <2>2. /\ \A i, j \in 1 .. Len(Q') : i < j => Before(Q[i], Q[j])'
        /\ \A i \in 1 .. Len(tried'), j \in 1 .. Len(Q') : Before(tried[i], Q[j])'
        /\ \A n \in Managers : pc'[n] = "compensate" => \A j \in 1 .. Len(Q') : Before(at[n], Q[j])'
    BY <1>1, <1>12, <1>14, <1>15, <1>16 DEF Before
  <2>3. /\ \A i, j \in 1 .. Len(tried') : i < j => Before(tried[i], tried[j])'
        /\ \A n \in Managers : pc'[n] = "compensate" =>
             /\ \A i \in 1 .. Len(tried') : Before(tried[i], at[n])'
             /\ \A k \in Managers : k # n /\ pc'[k] = "compensate" => at'[k] # at'[n]
    BY <1>1, <1>12 DEF OrderInv, UndoOrder, Before
  <2> QED BY <2>1, <2>2, <2>3 DEF UndoOrder
<1>18. Accounts'
  BY <1>1 DEF OrderInv, Accounts, WasTried
<1> QED BY <1>8, <1>17, <1>18, FailedIsEnough DEF OrderInv

LEMMA GivingUpKeeps ==
  ASSUME SagaInv, SagaInv', OrderInv, NEW m \in Managers, CompensateFails(m) \/ CompensationLost(m)
  PROVE  OrderInv'
<1>1. /\ pc[m] = "undo" /\ \E k \in {0, undo[m] - 1} : undo' = [undo EXCEPT ![m] = k]
      /\ undo[m] > 0
      /\ UNCHANGED <<cfg, state, status, queue, consuming, pc, at, done, tried>> /\ m \in Actors
  BY OrderFacts DEF CompensateFails, CompensationLost, saga, engine
<1>2. HasFailed /\ Undoer(m) /\ state \in {"failed", "compensating", "compensated"}
  BY <1>1 DEF OrderInv, WhileGood, OnceFailed, Undoer
<1>3. HasFailed' /\ OnceFailed'
  BY <1>1, <1>2, StaysFailed
<1>4. Q' = Q /\ OneUndoes' = OneUndoes
  BY <1>1 DEF Q, OneUndoes
<1>5. \A n \in Managers : undo'[n] \in Nat /\ undo'[n] <= undo[n]
  BY <1>1, OrderFacts
<1>6. UndoOrder'
  BY <1>1, <1>4, <1>5, OrderStays DEF OrderInv
<1>7. Accounts'
  BY <1>1 DEF OrderInv, Accounts, WasTried
<1> QED BY <1>3, <1>6, <1>7, FailedIsEnough DEF OrderInv
-----------------------------------------------------------------------------
\* The compensations.
LEMMA UndoBegins ==
  ASSUME SagaInv, SagaInv', OrderInv, NEW m \in Managers, Deliver(m), consuming[m] = "compensations"
  PROVE  OrderInv'
<1>1. /\ pc[m] = "idle" /\ Q # <<>>
      /\ queue' = [queue EXCEPT !["compensations"] = Tail(@)]
      /\ at' = [at EXCEPT ![m] = Head(Q)]
      /\ pc' = [pc EXCEPT ![m] = "compensate"]
      /\ UNCHANGED <<cfg, state, status, consuming, undo, done, tried>> /\ m \in Actors
  BY OrderFacts DEF Deliver, GoTo, saga, engine, history, Q
<1>2. /\ queue'["steps"] = queue["steps"] /\ Q' = Tail(Q) /\ Head(Q) = Q[1]
      /\ pc'[m] = "compensate" /\ at'[m] = Q[1]
      /\ \A a \in Actors : a # m => pc'[a] = pc[a] /\ at'[a] = at[a]
  BY <1>1, OrderFacts DEF Queues, Q
<1>3. /\ Len(Q) \in Nat /\ 1 \in 1 .. Len(Q) /\ Len(Q') = Len(Q) - 1
      /\ \A i \in 1 .. Len(Q') : Q'[i] = Q[i + 1] /\ i + 1 \in 1 .. Len(Q) /\ 1 < i + 1
  <2>1. Q \in Seq(Steps) /\ Q # <<>>
    BY <1>1, OrderFacts
  <2> QED BY <1>2, <2>1
<1>4. HasFailed /\ state \in {"failed", "compensating", "compensated"}
  BY <1>1 DEF OrderInv, WhileGood, OnceFailed, Q
<1>5. HasFailed' /\ OnceFailed'
  BY <1>1, <1>2, <1>4, StaysFailed DEF OfStep
<1>6. OneUndoes' = OneUndoes
  BY <1>1 DEF OneUndoes
<1>7. \A a \in Managers : /\ pc'[a] \in {"markFailed", "load", "undo"} => a # m /\ pc'[a] = pc[a]
                          /\ a # m => pc'[a] = pc[a] /\ at'[a] = at[a]
  BY <1>2, OrderFacts
<1>8. UndoOrder'
  <2>1. ASSUME NEW a \in Managers
        PROVE  /\ pc'[a] \in {"markFailed", "load"} =>
                    Q' = <<>> /\ tried' = <<>> /\ \A n \in Managers : pc'[n] # "compensate"
               /\ pc'[a] = "undo" =>
                    /\ \A i \in 1 .. Len(Q') : Q'[i] > undo'[a]
                    /\ \A i \in 1 .. Len(tried') : tried'[i] > undo'[a]
                    /\ \A n \in Managers : pc'[n] = "compensate" => at'[n] > undo'[a]
    <3>1. pc'[a] \notin {"markFailed", "load"}
      BY <1>1, <1>7, <2>1 DEF OrderInv, UndoOrder
    <3>2. ASSUME pc'[a] = "undo"
          PROVE  /\ \A i \in 1 .. Len(Q') : Q'[i] > undo'[a]
                 /\ \A i \in 1 .. Len(tried') : tried'[i] > undo'[a]
                 /\ \A n \in Managers : pc'[n] = "compensate" => at'[n] > undo'[a]
      <4>1. /\ \A i \in 1 .. Len(Q) : Q[i] > undo[a]
            /\ \A i \in 1 .. Len(tried) : tried[i] > undo[a]
            /\ \A n \in Managers : pc[n] = "compensate" => at[n] > undo[a]
        BY <1>7, <2>1, <3>2 DEF OrderInv, UndoOrder
      <4> QED BY <1>1, <1>2, <1>3, <1>7, <4>1
    <3> QED BY <3>1, <3>2
  <2>2. \A i, j \in 1 .. Len(Q) : i < j => IF OneUndoes THEN Q[i] > Q[j] ELSE Q[i] # Q[j]
    BY DEF OrderInv, UndoOrder, Before
  <2>3. \A i, j \in 1 .. Len(Q') : i < j => IF OneUndoes THEN Q'[i] > Q'[j] ELSE Q'[i] # Q'[j]
    <3>1. \A i, j \in 1 .. Len(Q') : i < j => i + 1 < j + 1
      BY <1>3
    <3> QED BY <1>3, <2>2, <3>1
  <2>4. \A i \in 1 .. Len(tried), j \in 1 .. Len(Q) :
          IF OneUndoes THEN tried[i] > Q[j] ELSE tried[i] # Q[j]
    BY DEF OrderInv, UndoOrder, Before
  <2>5. \A n \in Managers : pc[n] = "compensate" =>
          /\ \A i \in 1 .. Len(tried) : IF OneUndoes THEN tried[i] > at[n] ELSE tried[i] # at[n]
          /\ \A j \in 1 .. Len(Q) : IF OneUndoes THEN at[n] > Q[j] ELSE at[n] # Q[j]
          /\ at[n] # Q[1]
          /\ \A k \in Managers : k # n /\ pc[k] = "compensate" => at[k] # at[n]
    <3>1. \A n \in Managers : pc[n] = "compensate" =>
            /\ \A i \in 1 .. Len(tried) : IF OneUndoes THEN tried[i] > at[n] ELSE tried[i] # at[n]
            /\ \A j \in 1 .. Len(Q) : IF OneUndoes THEN at[n] > Q[j] ELSE at[n] # Q[j]
            /\ \A k \in Managers : k # n /\ pc[k] = "compensate" => at[k] # at[n]
      BY DEF OrderInv, UndoOrder, Before
    <3>2. \A n \in Managers : at[n] \in Nat /\ Q[1] \in Nat
      BY <1>3, OrderFacts
    <3> QED BY <1>3, <3>1, <3>2
  <2>6. \A n \in Managers : pc'[n] = "compensate" =>
          /\ \A i \in 1 .. Len(tried) : IF OneUndoes THEN tried[i] > at'[n] ELSE tried[i] # at'[n]
          /\ \A j \in 1 .. Len(Q') : IF OneUndoes THEN at'[n] > Q'[j] ELSE at'[n] # Q'[j]
          /\ \A k \in Managers : k # n /\ pc'[k] = "compensate" => at'[k] # at'[n]
    <3>1. \A j \in 1 .. Len(Q') : IF OneUndoes THEN Q[1] > Q'[j] ELSE Q[1] # Q'[j]
      BY <1>3, <2>2
    <3>2. \A i \in 1 .. Len(tried) : IF OneUndoes THEN tried[i] > Q[1] ELSE tried[i] # Q[1]
      BY <1>3, <2>4
    <3>3. \A n \in Managers : n # m /\ pc'[n] = "compensate" =>
            /\ at'[n] # at'[m]
            /\ \A i \in 1 .. Len(tried) : IF OneUndoes THEN tried[i] > at'[n] ELSE tried[i] # at'[n]
            /\ \A j \in 1 .. Len(Q') : IF OneUndoes THEN at'[n] > Q'[j] ELSE at'[n] # Q'[j]
            /\ \A k \in Managers : k # n /\ k # m /\ pc'[k] = "compensate" => at'[k] # at'[n]
      BY <1>2, <1>3, <1>7, <2>5
    <3> QED BY <1>2, <3>1, <3>2, <3>3
  <2>7. /\ \A i, j \in 1 .. Len(Q') : i < j => Before(Q[i], Q[j])'
        /\ \A i \in 1 .. Len(tried'), j \in 1 .. Len(Q') : Before(tried[i], Q[j])'
        /\ \A i, j \in 1 .. Len(tried') : i < j => Before(tried[i], tried[j])'
    <3>1. \A i, j \in 1 .. Len(tried) : i < j =>
            IF OneUndoes THEN tried[i] > tried[j] ELSE tried[i] # tried[j]
      BY DEF OrderInv, UndoOrder, Before
    <3> QED BY <1>1, <1>3, <1>6, <2>3, <2>4, <3>1 DEF Before
  <2>8. \A n \in Managers : pc'[n] = "compensate" =>
          /\ \A i \in 1 .. Len(tried') : Before(tried[i], at[n])'
          /\ \A j \in 1 .. Len(Q') : Before(at[n], Q[j])'
          /\ \A k \in Managers : k # n /\ pc'[k] = "compensate" => at'[k] # at'[n]
    BY <1>1, <1>6, <2>6 DEF Before
  <2> QED BY <2>1, <2>7, <2>8 DEF UndoOrder
<1>9. Accounts'
  <2>1. \A n \in Managers : pc'[n] \in {"compensated", "finish"} => pc'[n] = pc[n] /\ at'[n] = at[n]
    BY <1>2, OrderFacts
  <2> QED BY <1>1, <2>1 DEF OrderInv, Accounts, WasTried
<1> QED BY <1>5, <1>8, <1>9, FailedIsEnough DEF OrderInv

\* Its handler done with or not there, the step counts as compensated.
LEMMA CountingKeeps ==
  ASSUME SagaInv, SagaInv', OrderInv, NEW m \in Managers, NEW label \in {"ack", "check"},
         /\ pc[m] = "compensate" /\ at[m] = cfg.compensation
         \/ pc[m] = "compensated",
         pc' = [pc EXCEPT ![m] = label], UpdateSagaStep(at[m], "compensated"),
         UNCHANGED <<cfg, queue, engine, at, owns, undo, history>>
  PROVE  OrderInv'
<1>1. m \in Actors /\ pc'[m] = label /\ (\A a \in Actors : a # m => pc'[a] = pc[a])
  BY OrderFacts
<1>2. UNCHANGED <<cfg, queue, consuming, at, undo, done, tried>>
  BY DEF engine, history
<1>3. /\ HasFailed /\ pc[m] \in OfCompensation
      /\ at[m] \in Steps /\ at[m] \in done
  <2>1. pc[m] \in {"compensate", "compensated"}
    OBVIOUS
  <2>2. pc[m] \in OfCompensation /\ pc[m] # "idle"
    BY <2>1 DEF OfCompensation
  <2>3. HasFailed
    BY <1>1, <2>2 DEF OrderInv, WhileGood
  <2>4. consuming[m] = "compensations"
    BY <2>2 DEF SagaInv, AtWork
  <2> QED BY <2>2, <2>3, <2>4 DEF SagaInv, AtWork, HandledDone
<1>4. \A s \in Steps : status'[s] = IF s = at[m] THEN "compensated" ELSE status[s]
  BY <1>3, OrderFacts DEF UpdateSagaStep
<1>5. state' = "failed"
  <2>1. PICK f \in Steps : status[f] = "failed"
    BY <1>3 DEF HasFailed
  <2>2. f # at[m]
    BY <1>3, <2>1, OrderFacts DEF OrderInv, OnceFailed, Earlier
  <2>3. status'[f] = "failed"
    BY <1>4, <2>1, <2>2
  <2> QED BY <2>3 DEF UpdateSagaStep
<1>6. HasFailed' /\ OnceFailed'
  BY <1>1, <1>2, <1>3, <1>4, <1>5, StaysFailed DEF OfStep
<1>7. Q' = Q /\ OneUndoes' = OneUndoes
  BY <1>2 DEF Q, OneUndoes
<1>8. UndoOrder'
  <2>1. \A n \in Managers : /\ pc'[n] = "compensate" => pc[n] = "compensate"
                            /\ pc'[n] \in {"markFailed", "load"} => pc[n] \in {"markFailed", "load"}
                            /\ pc'[n] = "undo" => pc[n] = "undo"
    BY <1>1, OrderFacts
  <2>2. \A n \in Managers : undo'[n] \in Nat /\ undo'[n] <= undo[n]
    BY <1>2, OrderFacts
  <2> QED BY <1>2, <1>7, <2>1, <2>2, OrderStays DEF OrderInv
<1>9. Accounts'
  <2>1. \A n \in Managers : pc'[n] \in {"compensated", "finish"} => pc'[n] = pc[n]
    BY <1>1, OrderFacts
  <2>2. at[m] = cfg.compensation \/ WasTried(at[m])
    BY DEF OrderInv, Accounts
  <2>3. \A s : WasTried(s)' <=> WasTried(s)
    BY <1>2 DEF WasTried
  <2>4. \A n \in Managers : pc'[n] = "compensated" => WasTried(at[n])'
    BY <1>2, <2>1 DEF OrderInv, Accounts, WasTried
  <2>5. \A s \in Steps : status'[s] = "compensated" => s = cfg'.compensation \/ WasTried(s)'
    BY <1>2, <1>4, <2>2, <2>3 DEF OrderInv, Accounts
  <2>6. ~WasTried(cfg.compensation)'
    BY <1>2 DEF OrderInv, Accounts, WasTried
  <2>7. (\E n \in Managers : pc'[n] = "finish") => \A s \in Steps : status'[s] # "completed"
    BY <1>4, <2>1 DEF OrderInv, Accounts
  <2> QED BY <1>5, <2>4, <2>5, <2>6, <2>7 DEF Accounts
<1> QED BY <1>6, <1>8, <1>9, FailedIsEnough DEF OrderInv
\* What was tried leaves room for a step that was not.
LEMMA RoomToUndo ==
  ASSUME SagaInv, NEW x \in Steps, \A i \in 1 .. Len(tried) : tried[i] # x,
         \A i, j \in 1 .. Len(tried) : i < j => tried[i] # tried[j]
  PROVE  Len(tried) < NumSteps
<1> SUFFICES ASSUME ~(Len(tried) < NumSteps) PROVE FALSE
  OBVIOUS
<1> DEFINE S == 1 .. NumSteps
           T == Steps \ {x}
           f == [i \in S |-> tried[i]]
<1>1. NumSteps \in Nat /\ NumSteps >= 1 /\ Len(tried) \in Nat
  BY SagaAssumption, OrderFacts
<1>2. IsFiniteSet(S) /\ Cardinality(S) = NumSteps
  BY <1>1, FS_Interval
<1>3. IsFiniteSet(T) /\ Cardinality(T) = NumSteps - 1
  BY <1>2, FS_RemoveElement DEF Steps
<1>4. \A i \in S : i \in 1 .. Len(tried)
  BY <1>1
<1>5. \A i \in S : tried[i] \in T
  BY <1>4, OrderFacts
<1>6. f \in [S -> T]
  BY <1>5
<1>7. PICK i, j \in S : i # j /\ f[i] = f[j]
  <2> HIDE DEF S, T, f
  <2>1. Cardinality(T) < Cardinality(S)
    BY <1>1, <1>2, <1>3
  <2> QED BY <1>2, <1>3, <1>6, <2>1, FS_PigeonHole
<1>8. tried[i] = tried[j] /\ (i < j \/ j < i)
  BY <1>1, <1>7
<1> QED BY <1>4, <1>8

LEMMA UndoingKeeps ==
  ASSUME SagaInv, SagaInv', OrderInv, NEW m \in Managers, RunCompensation(m) PROVE OrderInv'
<1>1. /\ pc[m] = "compensate" /\ at[m] # cfg.compensation /\ pc' = [pc EXCEPT ![m] = "compensated"]
      /\ UNCHANGED <<cfg, state, status, queue, consuming, at, undo, done>> /\ m \in Actors
  BY OrderFacts DEF RunCompensation, GoTo, saga, engine
<1>2. pc'[m] = "compensated" /\ \A a \in Actors : a # m => pc'[a] = pc[a]
  BY <1>1, OrderFacts
<1>3. HasFailed /\ state \in {"failed", "compensating", "compensated"}
  BY <1>1 DEF OrderInv, WhileGood, OnceFailed, OfCompensation
<1>4. HasFailed' /\ OnceFailed'
  BY <1>1, <1>2, <1>3, StaysFailed DEF OfStep
<1>5. PICK x \in Steps : x = at[m]
  BY <1>1 DEF SagaInv, AtWork
<1>6. /\ x \in Nat /\ \A i \in 1 .. Len(tried) : tried[i] \in Nat
      /\ \A i \in 1 .. Len(Q) : Q[i] \in Nat
      /\ \A n \in Managers : at[n] \in Nat /\ undo[n] \in Nat
  BY OrderFacts
<1>7. /\ \A i \in 1 .. Len(tried) : IF OneUndoes THEN tried[i] > x ELSE tried[i] # x
      /\ \A j \in 1 .. Len(Q) : IF OneUndoes THEN x > Q[j] ELSE x # Q[j]
      /\ \A n \in Managers : n # m /\ pc[n] = "compensate" => at[n] # x
  BY <1>1, <1>5 DEF OrderInv, UndoOrder, Before
<1>8. /\ \A i, j \in 1 .. Len(tried) : i < j =>
           IF OneUndoes THEN tried[i] > tried[j] ELSE tried[i] # tried[j]
      /\ \A i \in 1 .. Len(tried), j \in 1 .. Len(Q) :
           IF OneUndoes THEN tried[i] > Q[j] ELSE tried[i] # Q[j]
      /\ \A i, j \in 1 .. Len(Q) : i < j => IF OneUndoes THEN Q[i] > Q[j] ELSE Q[i] # Q[j]
  BY DEF OrderInv, UndoOrder, Before
<1>9. Len(tried) < NumSteps
  <2>1. \A i \in 1 .. Len(tried) : tried[i] # x
    BY <1>6, <1>7
  <2>2. \A i, j \in 1 .. Len(tried) : i < j => tried[i] # tried[j]
    BY <1>6, <1>8
  <2> QED BY <2>1, <2>2, RoomToUndo
<1>10. tried' = Append(tried, x)
  BY <1>5, <1>9 DEF RunCompensation
<1>11. /\ Len(tried) \in Nat /\ Len(tried') = Len(tried) + 1 /\ tried'[Len(tried) + 1] = x
       /\ \A i \in 1 .. Len(tried) : tried'[i] = tried[i] /\ i \in 1 .. Len(tried')
       /\ \A i \in 1 .. Len(tried') : i \in 1 .. Len(tried) \/ i = Len(tried) + 1
  <2>1. tried \in Seq(Steps) /\ Len(tried) \in Nat
    BY OrderFacts
  <2> QED BY <1>10, <2>1
<1>12. Q' = Q /\ OneUndoes' = OneUndoes
  BY <1>1 DEF Q, OneUndoes
<1>13. \A n \in Managers : /\ pc'[n] = "compensate" => n # m /\ pc[n] = "compensate"
                           /\ pc'[n] \in {"markFailed", "load", "undo"} => pc'[n] = pc[n]
  BY <1>2, OrderFacts
<1>14. UndoOrder'
  <2>1. ASSUME NEW a \in Managers, pc'[a] \in {"markFailed", "load"} PROVE FALSE
    BY <1>1, <1>13, <2>1 DEF OrderInv, UndoOrder
  <2>2. ASSUME NEW a \in Managers, pc'[a] = "undo"
        PROVE  /\ \A i \in 1 .. Len(Q') : Q'[i] > undo'[a]
               /\ \A i \in 1 .. Len(tried') : tried'[i] > undo'[a]
               /\ \A n \in Managers : pc'[n] = "compensate" => at'[n] > undo'[a]
    <3>1. /\ \A i \in 1 .. Len(Q) : Q[i] > undo[a]
          /\ \A i \in 1 .. Len(tried) : tried[i] > undo[a]
          /\ \A n \in Managers : pc[n] = "compensate" => at[n] > undo[a]
      BY <1>13, <2>2 DEF OrderInv, UndoOrder
    <3>2. x > undo[a]
      BY <1>1, <1>5, <3>1
    <3> QED BY <1>1, <1>11, <1>12, <1>13, <3>1, <3>2
  <2>3. \A i, j \in 1 .. Len(tried') : i < j =>
          IF OneUndoes THEN tried'[i] > tried'[j] ELSE tried'[i] # tried'[j]
    <3>1. SUFFICES ASSUME NEW i \in 1 .. Len(tried'), NEW j \in 1 .. Len(tried'), i < j
                   PROVE  IF OneUndoes THEN tried'[i] > tried'[j] ELSE tried'[i] # tried'[j]
      OBVIOUS
    <3>2. i \in 1 .. Len(tried)
      BY <1>11, <3>1
    <3>3. CASE j \in 1 .. Len(tried)
      BY <1>8, <1>11, <3>1, <3>2, <3>3
    <3>4. CASE j = Len(tried) + 1
      BY <1>7, <1>11, <3>2, <3>4
    <3> QED BY <1>11, <3>3, <3>4
  <2>4. \A i \in 1 .. Len(tried'), j \in 1 .. Len(Q) :
          IF OneUndoes THEN tried'[i] > Q[j] ELSE tried'[i] # Q[j]
    BY <1>7, <1>8, <1>11
  <2>5. ASSUME NEW n \in Managers, pc'[n] = "compensate"
        PROVE  /\ \A i \in 1 .. Len(tried') : IF OneUndoes THEN tried'[i] > at[n] ELSE tried'[i] # at[n]
               /\ \A j \in 1 .. Len(Q) : IF OneUndoes THEN at[n] > Q[j] ELSE at[n] # Q[j]
               /\ \A k \in Managers : k # n /\ pc'[k] = "compensate" => at[k] # at[n]
    <3>1. n # m /\ pc[n] = "compensate"
      BY <1>13, <2>5
    <3>2. /\ \A i \in 1 .. Len(tried) : IF OneUndoes THEN tried[i] > at[n] ELSE tried[i] # at[n]
          /\ \A j \in 1 .. Len(Q) : IF OneUndoes THEN at[n] > Q[j] ELSE at[n] # Q[j]
          /\ \A k \in Managers : k # n /\ pc[k] = "compensate" => at[k] # at[n]
      BY <3>1 DEF OrderInv, UndoOrder, Before
    <3>3. IF OneUndoes THEN x > at[n] ELSE x # at[n]
      <4>1. ~OneUndoes
        BY <1>1, <3>1 DEF OneUndoes, SagaInv, AtWork, OfCompensation
      <4> QED BY <1>7, <3>1, <4>1
    <3> QED BY <1>11, <1>13, <3>2, <3>3
  <2>6. /\ \A i, j \in 1 .. Len(Q') : i < j => Before(Q[i], Q[j])'
        /\ \A i, j \in 1 .. Len(tried') : i < j => Before(tried[i], tried[j])'
        /\ \A i \in 1 .. Len(tried'), j \in 1 .. Len(Q') : Before(tried[i], Q[j])'
    BY <1>8, <1>12, <2>3, <2>4 DEF Before
  <2>7. \A n \in Managers : pc'[n] = "compensate" =>
          /\ \A i \in 1 .. Len(tried') : Before(tried[i], at[n])'
          /\ \A j \in 1 .. Len(Q') : Before(at[n], Q[j])'
          /\ \A k \in Managers : k # n /\ pc'[k] = "compensate" => at'[k] # at'[n]
    BY <1>1, <1>12, <2>5 DEF Before
  <2> QED BY <2>1, <2>2, <2>6, <2>7 DEF UndoOrder
<1>15. Accounts'
  <2>1. WasTried(x)' /\ \A s : WasTried(s)' <=> WasTried(s) \/ s = x
    <3>1. Len(tried) + 1 \in 1 .. Len(tried')
      BY <1>11
    <3> QED BY <1>11, <3>1 DEF WasTried
  <2>2. \A n \in Managers : n # m => pc'[n] = pc[n]
    BY <1>2, OrderFacts
  <2>3. \A n \in Managers : pc'[n] = "compensated" => WasTried(at[n]) \/ at[n] = x
    BY <1>5, <2>2 DEF OrderInv, Accounts
  <2>4. \A n \in Managers : pc'[n] = "compensated" => WasTried(at[n])'
    BY <1>1, <1>11, <2>1, <2>3 DEF WasTried
  <2>5. \A s \in Steps : status'[s] = "compensated" => s = cfg'.compensation \/ WasTried(s)'
    BY <1>1, <2>1 DEF OrderInv, Accounts
  <2>6. ~WasTried(cfg.compensation)'
    BY <1>1, <1>5, <1>11 DEF OrderInv, Accounts, WasTried
  <2>7. (\E n \in Managers : pc'[n] = "finish") \/ state' = "compensated" =>
          \A s \in Steps : status'[s] # "completed"
    BY <1>1, <1>2, <2>2 DEF OrderInv, Accounts
  <2> QED BY <2>4, <2>5, <2>6, <2>7 DEF Accounts
<1> QED BY <1>4, <1>14, <1>15, FailedIsEnough DEF OrderInv
\* The last check and what follows from it leave the compensations alone.
LEMMA CheckingKeeps ==
  ASSUME SagaInv, SagaInv', OrderInv, NEW m \in Managers, CheckCompensated(m) \/ MarkSagaCompensated(m)
  PROVE  OrderInv'
<1>1. /\ m \in Actors /\ UNCHANGED <<cfg, status, queue, consuming, at, undo, done, tried>>
      /\ \A a \in Actors : a # m => pc'[a] = pc[a]
      /\ pc[m] \in {"check", "finish"} /\ pc'[m] \in {"ack", "finish"}
      /\ pc'[m] = "finish" => \A s \in Steps : status[s] # "completed"
      /\ state' = state \/ (pc[m] = "finish" /\ state' = "compensated")
  BY OrderFacts DEF CheckCompensated, MarkSagaCompensated, UpdateSagaState, GoTo, saga, engine, history
<1>2. HasFailed /\ state \in {"failed", "compensating", "compensated"}
  BY <1>1 DEF OrderInv, WhileGood, OnceFailed, OfCompensation
<1>3. HasFailed' /\ OnceFailed'
  BY <1>1, <1>2, StaysFailed DEF OfStep
<1>4. Q' = Q /\ OneUndoes' = OneUndoes
  BY <1>1 DEF Q, OneUndoes
<1>5. \A n \in Managers : /\ pc'[n] \in {"compensate", "compensated", "markFailed", "load", "undo"} => pc'[n] = pc[n]
                          /\ undo'[n] \in Nat /\ undo'[n] <= undo[n]
  BY <1>1, OrderFacts
<1>6. UndoOrder'
  <2>1. \A n \in Managers : /\ pc'[n] = "compensate" => pc[n] = "compensate"
                            /\ pc'[n] \in {"markFailed", "load"} => pc[n] \in {"markFailed", "load"}
                            /\ pc'[n] = "undo" => pc[n] = "undo"
    BY <1>5
  <2> QED BY <1>1, <1>4, <1>5, <2>1, OrderStays DEF OrderInv
<1>7. Accounts'
  <2>1. (\E n \in Managers : pc[n] = "finish") \/ state = "compensated" =>
          \A s \in Steps : status[s] # "completed"
    BY DEF OrderInv, Accounts
  <2>2. (\E n \in Managers : pc'[n] = "finish") => \A s \in Steps : status'[s] # "completed"
    BY <1>1, <2>1, OrderFacts
  <2>3. state' = "compensated" => \A s \in Steps : status'[s] # "completed"
    BY <1>1, <2>1
  <2> QED BY <1>1, <1>5, <2>2, <2>3 DEF OrderInv, Accounts, WasTried
<1> QED BY <1>3, <1>6, <1>7, FailedIsEnough DEF OrderInv

\* A message that goes to its handler, a consumer that wins its queue, a step that changes nothing.
LEMMA QuietKeeps ==
  ASSUME SagaInv, OrderInv, UNCHANGED <<cfg, saga, queue, at, undo, done, tried>>,
         \/ UNCHANGED <<pc, consuming>>
         \/ \E m \in Managers : RunSteps(m)
         \/ UNCHANGED consuming /\ \E m \in Managers, label \in {"ack", "idle"} : GoTo(m, label)
  PROVE  OrderInv'
<1>1. UNCHANGED <<state, status>>
  BY DEF saga
<1>2. OneUndoes' => OneUndoes
  <2>1. CASE UNCHANGED consuming
    BY <2>1 DEF OneUndoes
  <2>2. ASSUME NEW m \in Managers, RunSteps(m) PROVE OneUndoes' => OneUndoes
    <3>1. \A n \in Managers : consuming[n] # "none" => consuming'[n] = consuming[n]
      BY <2>2, OrderFacts DEF RunSteps, Run, RunConsumes
    <3> QED BY <3>1 DEF OneUndoes
  <2> QED BY <2>1, <2>2
<1>3. \A a \in Actors : pc'[a] = pc[a] \/ (a \in Managers /\ pc'[a] \in {"ack", "idle"})
  <2>1. ASSUME NEW m \in Managers, RunSteps(m) PROVE pc' = pc
    BY <2>1 DEF RunSteps, Run, RunConsumes, work
  <2>2. ASSUME NEW m \in Managers, NEW label \in {"ack", "idle"}, GoTo(m, label)
        PROVE  \A a \in Actors : pc'[a] = pc[a] \/ (a \in Managers /\ pc'[a] \in {"ack", "idle"})
    BY <2>2, OrderFacts DEF GoTo
  <2> QED BY <2>1, <2>2
<1> QED BY <1>1, <1>2, <1>3, LeavingKeeps DEF Leaves

LEMMA StepOrder ==
  ASSUME SagaInv, SagaInv', ~repeated', ~repeated => OrderInv, [Next]_vars
  PROVE  OrderInv'
<1>1. ~repeated /\ OrderInv
  <2>1. CASE SaveSaga \/ StartPublishes \/ CallCompensate \/ Compensate(Caller)
    BY <2>1 DEF SaveSaga, StartPublishes, CallCompensate, Compensate, BeginCompensation,
       PublishCompensation, CompensationLost, CompensateFails, CompensateReturns, history
  <2>2. ASSUME NEW m \in Managers, Deliver(m) \/ Ack(m) \/ StepFails(m) \/ StepSucceeds(m)
               \/ MarkStepFailed(m) \/ MarkSagaFailed(m) \/ MarkStepCompleted(m) \/ Advance(m)
               \/ AdvanceFails(m)
        PROVE  ~repeated
    BY <2>2 DEF Deliver, Ack, StepFails, StepSucceeds, MarkStepFailed, MarkSagaFailed,
       MarkStepCompleted, Advance, AdvanceFails, history
  <2>3. ASSUME NEW m \in Managers, NoCompensationHandler(m) \/ RunCompensation(m) \/ MarkCompensated(m)
               \/ CheckCompensated(m) \/ MarkSagaCompensated(m) \/ Compensate(m)
        PROVE  ~repeated
    BY <2>3 DEF NoCompensationHandler, RunCompensation, MarkCompensated, CheckCompensated,
       MarkSagaCompensated, Compensate, BeginCompensation, PublishCompensation, CompensationLost,
       CompensateFails, CompensateReturns, history
  <2>4. ASSUME NEW m \in Managers, Redeliver(m) \/ Panics(m) \/ RunSteps(m) PROVE ~repeated
    BY <2>4 DEF Redeliver, Panics, RunSteps, Run, RunConsumes, history
  <2>5. CASE UNCHANGED vars
    BY <2>5 DEF vars, history
  <2> QED BY <2>1, <2>2, <2>3, <2>4, <2>5 DEF Next, HandleMessage
<1>2. pc[Caller] \in {"idle", "saved", "returned"}
  BY <1>1 DEF OrderInv, CallerFirst
<1>3. CASE SaveSaga \/ StartPublishes
  BY <1>1, <1>3, SaveKeeps, PublishKeeps
<1>4. CASE CallCompensate \/ Compensate(Caller)
  BY <1>2, <1>4 DEF CallCompensate, Compensate, BeginCompensation, PublishCompensation,
     CompensationLost, CompensateFails, CompensateReturns
<1>5. ASSUME NEW m \in Managers, HandleMessage(m) PROVE OrderInv'
  <2>1. CASE Deliver(m)
    <3>1. consuming[m] \in {"steps", "compensations"}
      BY <2>1, OrderFacts DEF Deliver, Queues
    <3> QED BY <1>1, <2>1, <3>1, BeginKeeps, UndoBegins
  <2>2. CASE Ack(m) \/ AdvanceFails(m)
    BY <1>1, <2>2, QuietKeeps DEF Ack, AdvanceFails, engine, history
  <2>3. CASE StepFails(m) \/ StepSucceeds(m)
    BY <1>1, <2>3, OutcomeKeeps
  <2>4. CASE MarkStepFailed(m)
    BY <1>1, <2>4, FailureKeeps
  <2>5. CASE MarkSagaFailed(m)
    BY <1>1, <2>5, MarkingKeeps
  <2>6. CASE MarkStepCompleted(m)
    BY <1>1, <2>6, CompletionKeeps
  <2>7. CASE Advance(m)
    BY <1>1, <2>7, AdvanceKeeps
  <2>8. CASE NoCompensationHandler(m)
    BY <1>1, <2>8, CountingKeeps DEF NoCompensationHandler, GoTo
  <2>9. CASE RunCompensation(m)
    BY <1>1, <2>9, UndoingKeeps
  <2>10. CASE MarkCompensated(m)
    BY <1>1, <2>10, CountingKeeps DEF MarkCompensated, GoTo
  <2>11. CASE CheckCompensated(m) \/ MarkSagaCompensated(m)
    BY <1>1, <2>11, CheckingKeeps
  <2>12. CASE Compensate(m)
    <3>1. CASE CompensateReturns(m)
      <4>1. GoTo(m, "ack")
        BY <3>1, <1>5, OrderFacts DEF CompensateReturns, Return
      <4> QED BY <1>1, <3>1, <4>1, QuietKeeps DEF CompensateReturns, engine, history
    <3> QED BY <1>1, <2>12, <3>1, CompensationBegins, PublishingKeeps, GivingUpKeeps DEF Compensate
  <2> QED BY <1>5, <2>1, <2>2, <2>3, <2>4, <2>5, <2>6, <2>7, <2>8, <2>9, <2>10, <2>11, <2>12
          DEF HandleMessage
<1>6. ASSUME NEW m \in Managers, Redeliver(m) \/ Panics(m) \/ RunSteps(m) PROVE OrderInv'
  <2>1. ~Redeliver(m)
    BY DEF Redeliver
  <2>2. CASE Panics(m)
    BY <1>1, <2>2, QuietKeeps DEF Panics, engine
  <2>3. CASE RunSteps(m)
    BY <1>1, <2>3, QuietKeeps DEF RunSteps, Run, RunConsumes, work, history
  <2> QED BY <1>6, <2>1, <2>2, <2>3
<1>7. CASE UNCHANGED vars
  BY <1>1, <1>7, QuietKeeps DEF vars, engine, work, history
<1> QED BY <1>3, <1>4, <1>5, <1>6, <1>7 DEF Next

-----------------------------------------------------------------------------
\* The saga's messages, statuses and consumers agree in every reachable state, and
\* follow the saga's order as long as none was repeated.
THEOREM SagaInvariant == Spec => [](SagaInv /\ (~repeated => OrderInv))
<1>1. Init => SagaInv /\ (~repeated => OrderInv)
  BY InitInv, InitOrder
<1>2. SagaInv /\ (~repeated => OrderInv) /\ [Next]_vars => (SagaInv /\ (~repeated => OrderInv))'
  BY NextInv, StepOrder
<1> QED BY <1>1, <1>2, PTL DEF Spec

\* handleCompensationMessage runs the compensation of a step only if the step's
\* handler has succeeded, whatever is redelivered, fails or is compensated again.
THEOREM UndoneWasDone == Spec => []UndoesOnlyWhatWasDone
  BY SagaInvariant, Tried, PTL DEF SagaInv

\* handleStepMessage begins a step when all before it have completed, whichever of
\* the managers runs it: with no message repeated, one message drives all steps.
THEOREM StepsFollow == Spec => []StepsInOrder
<1>1. SagaInv /\ (~repeated => OrderInv) => StepsInOrder
  BY DEF OrderInv, Positions, StepAt, Ordered, StepsInOrder
<1> QED BY <1>1, SagaInvariant, PTL

\* A saga says it is compensated when the compensation handler of every step that had
\* succeeded has run, whatever it returned, and completed when every step has:
\* publishCompensation, the compensations' queue and handleCompensationMessage keep
\* the order, and the last check waits for all.
THEOREM AllHaveRun == Spec => []EndsAfterAllHaveRun
<1>1. SagaInv /\ (~repeated => OrderInv) => EndsAfterAllHaveRun
  <2> SUFFICES ASSUME SagaInv, OrderInv, ~repeated
               PROVE  /\ state = "compensated" =>
                           /\ {tried[i] : i \in 1 .. Len(tried)} = done \ {cfg.compensation}
                           /\ \A i, j \in 1 .. Len(tried) : i < j => Before(tried[i], tried[j])
                      /\ state = "completed" => done = Steps /\ tried = <<>>
    BY DEF EndsAfterAllHaveRun
  <2>1. ASSUME state = "compensated"
        PROVE  {tried[i] : i \in 1 .. Len(tried)} = done \ {cfg.compensation}
    <3>1. HasFailed
      BY <2>1 DEF OrderInv, WhileGood
    <3>2. PICK f \in Steps : status[f] = "failed"
      BY <3>1 DEF HasFailed
    <3>3. done = Earlier(f) /\ \A s \in Steps : s < f => status[s] \in {"completed", "compensated"}
      BY <3>1, <3>2 DEF OrderInv, OnceFailed
    <3>4. \A s \in done : s = cfg.compensation \/ WasTried(s)
      BY <2>1, <3>3 DEF OrderInv, Accounts, Earlier
    <3>5. \A i \in 1 .. Len(tried) : tried[i] \in done /\ tried[i] # cfg.compensation
      BY OrderFacts DEF OrderInv, Accounts, WasTried
    <3> QED BY <3>4, <3>5 DEF WasTried
  <2>2. ASSUME state = "completed" PROVE done = Steps /\ tried = <<>>
    BY <2>2 DEF OrderInv, WhileGood, OnceFailed
  <2> QED BY <2>1, <2>2 DEF OrderInv, UndoOrder
<1> QED BY <1>1, SagaInvariant, PTL

=============================================================================
