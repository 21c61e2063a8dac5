----------------------- MODULE GracefulShutdownProofs -----------------------
(***************************************************************************)
(* PoolOwnsItsClients and CompletedMeansQuiet for any callers, operations, *)
(* publishers, readers and sizes.                                          *)
(*                                                                         *)
(* The pool first, alone.  PoolOwnsItsClients is not inductive: what a     *)
(* check found is copied out of the lock, a repair makes the list of       *)
(* healthy clients wrong until it is done, and Close may start at any      *)
(* unlock in between.  PoolInv says what holds then.                       *)
(*                                                                         *)
(* The composition implements PoolSpec, so what holds of the pool alone    *)
(* holds of the pool in it.  The rest of the argument is the order of the  *)
(* shutdown: what was copied is closed before the tracker is, the tracker  *)
(* before the operations are waited for, and all that before "completed"   *)
(* is said.                                                                *)
(***************************************************************************)
EXTENDS GracefulShutdown, TLAPS

-----------------------------------------------------------------------------
\* The pool

Monitor == {"none", "delay", "waiting", "ticked", "copying", "pinging", "swapping",
            "locking", "repairing", "ended"}

PoolTypeOK ==
    /\ pool \in {"none", "creating", "open", "closed"} /\ closer \in {"no", "closing", "done"}
    /\ connections \in [Slot -> Client \cup {Nil}] /\ healthyClients \subseteq Client
    /\ opened \in 0 .. MaxClients /\ open \subseteq Client /\ up \subseteq open
    /\ monitor \in Monitor
    /\ toPing \subseteq Slot /\ found \subseteq Client
    /\ repairNeeded \subseteq Slot /\ repairing \subseteq Slot

\* Two slots never hold the same client, and NewClient's next one is new.
SlotsDiffer ==
    \A s \in Slot :
        /\ connections[s] <= opened
        /\ \A t \in Slot : s # t /\ connections[s] # Nil => connections[s] # connections[t]

\* What has ended and what goes on: a repair runs only in an open pool, for Close needs its lock.
ClosesInOrder ==
    /\ pool = "closed" <=> closer # "no"
    /\ monitor = "repairing" => pool = "open"
    /\ pool \in {"none", "creating"} => monitor = "none"

OpenInSlots == open = IF closer = "done" THEN {} ELSE InSlots

\* Only a repair, of the goroutine that pings, can make these two stale.
FoundInSlots ==
    /\ monitor \in {"pinging", "swapping"} => found \subseteq InSlots
    /\ pool = "open" /\ monitor # "repairing" => healthyClients \subseteq InSlots

PoolInv == PoolTypeOK /\ SlotsDiffer /\ ClosesInOrder /\ OpenInSlots /\ FoundInSlots

-----------------------------------------------------------------------------
\* Every action keeps the types, and a connection that answers is an open client's.
LEMMA PoolTypes ==
  ASSUME PoolTypeOK, [PoolNext]_poolVars
  PROVE  PoolTypeOK'
  <1> USE PoolAssumption DEF PoolTypeOK, Monitor, Slot, Client, Nil
  <1>1. ASSUME NEW s \in Slot, CreateClient(s) PROVE PoolTypeOK'
    BY <1>1 DEF CreateClient, NewClient, listVars, clientVars, checkVars
  <1>2. CASE CreateFails
    BY <1>2 DEF CreateFails, listVars, clientVars, checkVars
  <1>3. CASE NewReturns
    BY <1>3 DEF NewReturns, listVars, clientVars, checkVars
  <1>4. CASE StartHealthMonitoring
    BY <1>4 DEF StartHealthMonitoring, listVars, clientVars, checkVars
  <1>5. CASE Tick
    BY <1>5 DEF Tick, listVars, clientVars, checkVars
  <1>6. CASE Ticked
    BY <1>6 DEF Ticked, listVars, clientVars, checkVars
  <1>7. CASE CopyConnections
    BY <1>7 DEF CopyConnections, listVars, clientVars, checkVars
  <1>8. ASSUME NEW s \in Slot, Ping(s) PROVE PoolTypeOK'
    BY <1>8 DEF Ping, listVars, clientVars, checkVars
  <1>9. CASE SwapHealthy
    BY <1>9 DEF SwapHealthy, listVars, clientVars, checkVars
  <1>10. CASE LockForRepair
    BY <1>10 DEF LockForRepair, listVars, clientVars, checkVars
  <1>11. ASSUME NEW s \in Slot, RepairConnection(s) PROVE PoolTypeOK'
    <2> DEFINE old == {connections[s]} \ {Nil}
    <2>1. CASE NewClient(s, old)
      <3>1. opened' \in 1 .. MaxClients
        BY <2>1 DEF NewClient
      <3>2. open' \subseteq Client /\ up' \subseteq open'
        BY <2>1, <3>1 DEF NewClient
      <3>3. connections' \in [Slot -> Client \cup {Nil}]
        BY <2>1, <3>1 DEF NewClient
      <3>4. QED
        BY <1>11, <3>1, <3>2, <3>3 DEF RepairConnection
    <2>2. CASE /\ open' = open \ old /\ up' = up \ old
               /\ connections' = [connections EXCEPT ![s] = Nil] /\ UNCHANGED opened
      BY <1>11, <2>2 DEF RepairConnection
    <2>3. QED
      BY <1>11, <2>1, <2>2 DEF RepairConnection
  <1>12. CASE RepairDone
    BY <1>12 DEF RepairDone, InSlots, listVars, clientVars, checkVars
  <1>13. CASE CloseBegins
    BY <1>13 DEF CloseBegins, listVars, clientVars, checkVars
  <1>14. CASE CloseReturns
    BY <1>14 DEF CloseReturns, listVars, clientVars, checkVars
  <1>15. ASSUME NEW c \in Client, ConnectionChanges(c) PROVE PoolTypeOK'
    BY <1>15 DEF ConnectionChanges, listVars, clientVars, checkVars
  <1>16. CASE UNCHANGED poolVars
    BY <1>16 DEF poolVars, listVars, clientVars, checkVars
  <1>17. QED
    BY <1>1, <1>2, <1>3, <1>4, <1>5, <1>6, <1>7, <1>8, <1>9, <1>10, <1>11, <1>12, <1>13, <1>14, <1>15, <1>16 DEF PoolNext, MonitorStep

\* NewClient puts a client in one slot that no slot has held.
LEMMA PoolSlots ==
  ASSUME PoolTypeOK, SlotsDiffer, [PoolNext]_poolVars
  PROVE  SlotsDiffer'
  <1> USE PoolAssumption DEF PoolTypeOK, SlotsDiffer, Slot, Client, Nil
  <1>1. ASSUME NEW s \in Slot, CreateClient(s) PROVE SlotsDiffer'
    BY <1>1 DEF CreateClient, NewClient, listVars, clientVars, checkVars
  <1>2. CASE CreateFails
    BY <1>2 DEF CreateFails, listVars, clientVars, checkVars
  <1>3. CASE NewReturns
    BY <1>3 DEF NewReturns, listVars, clientVars, checkVars
  <1>4. CASE StartHealthMonitoring
    BY <1>4 DEF StartHealthMonitoring, listVars, clientVars, checkVars
  <1>5. CASE Tick
    BY <1>5 DEF Tick, listVars, clientVars, checkVars
  <1>6. CASE Ticked
    BY <1>6 DEF Ticked, listVars, clientVars, checkVars
  <1>7. CASE CopyConnections
    BY <1>7 DEF CopyConnections, listVars, clientVars, checkVars
  <1>8. ASSUME NEW s \in Slot, Ping(s) PROVE SlotsDiffer'
    BY <1>8 DEF Ping, listVars, clientVars, checkVars
  <1>9. CASE SwapHealthy
    BY <1>9 DEF SwapHealthy, listVars, clientVars, checkVars
  <1>10. CASE LockForRepair
    BY <1>10 DEF LockForRepair, listVars, clientVars, checkVars
  <1>11. ASSUME NEW s \in Slot, RepairConnection(s) PROVE SlotsDiffer'
    BY <1>11 DEF RepairConnection, NewClient, listVars, clientVars, checkVars
  <1>12. CASE RepairDone
    BY <1>12 DEF RepairDone, listVars, clientVars, checkVars
  <1>13. CASE CloseBegins
    BY <1>13 DEF CloseBegins, listVars, clientVars, checkVars
  <1>14. CASE CloseReturns
    BY <1>14 DEF CloseReturns, listVars, clientVars, checkVars
  <1>15. ASSUME NEW c \in Client, ConnectionChanges(c) PROVE SlotsDiffer'
    BY <1>15 DEF ConnectionChanges, listVars, clientVars, checkVars
  <1>16. CASE UNCHANGED poolVars
    BY <1>16 DEF poolVars, listVars, clientVars, checkVars
  <1>17. QED
    BY <1>1, <1>2, <1>3, <1>4, <1>5, <1>6, <1>7, <1>8, <1>9, <1>10, <1>11, <1>12, <1>13, <1>14, <1>15, <1>16 DEF PoolNext, MonitorStep

\* Close and a repair exclude each other through the lock.
LEMMA PoolOrder ==
  ASSUME PoolTypeOK, ClosesInOrder, [PoolNext]_poolVars
  PROVE  ClosesInOrder'
  <1> USE PoolAssumption DEF PoolTypeOK, ClosesInOrder, Locked, Monitor
  <1>1. ASSUME NEW s \in Slot, CreateClient(s) PROVE ClosesInOrder'
    BY <1>1 DEF CreateClient, NewClient, listVars, clientVars, checkVars
  <1>2. CASE CreateFails
    BY <1>2 DEF CreateFails, listVars, clientVars, checkVars
  <1>3. CASE NewReturns
    BY <1>3 DEF NewReturns, listVars, clientVars, checkVars
  <1>4. CASE StartHealthMonitoring
    BY <1>4 DEF StartHealthMonitoring, listVars, clientVars, checkVars
  <1>5. CASE Tick
    BY <1>5 DEF Tick, listVars, clientVars, checkVars
  <1>6. CASE Ticked
    BY <1>6 DEF Ticked, listVars, clientVars, checkVars
  <1>7. CASE CopyConnections
    BY <1>7 DEF CopyConnections, listVars, clientVars, checkVars
  <1>8. ASSUME NEW s \in Slot, Ping(s) PROVE ClosesInOrder'
    BY <1>8 DEF Ping, listVars, clientVars, checkVars
  <1>9. CASE SwapHealthy
    BY <1>9 DEF SwapHealthy, listVars, clientVars, checkVars
  <1>10. CASE LockForRepair
    BY <1>10 DEF LockForRepair, listVars, clientVars, checkVars
  <1>11. ASSUME NEW s \in Slot, RepairConnection(s) PROVE ClosesInOrder'
    BY <1>11 DEF RepairConnection, NewClient, listVars, clientVars, checkVars
  <1>12. CASE RepairDone
    BY <1>12 DEF RepairDone, listVars, clientVars, checkVars
  <1>13. CASE CloseBegins
    BY <1>13 DEF CloseBegins, listVars, clientVars, checkVars
  <1>14. CASE CloseReturns
    BY <1>14 DEF CloseReturns, listVars, clientVars, checkVars
  <1>15. ASSUME NEW c \in Client, ConnectionChanges(c) PROVE ClosesInOrder'
    BY <1>15 DEF ConnectionChanges, listVars, clientVars, checkVars
  <1>16. CASE UNCHANGED poolVars
    BY <1>16 DEF poolVars, listVars, clientVars, checkVars
  <1>17. QED
    BY <1>1, <1>2, <1>3, <1>4, <1>5, <1>6, <1>7, <1>8, <1>9, <1>10, <1>11, <1>12, <1>13, <1>14, <1>15, <1>16 DEF PoolNext, MonitorStep

\* What leaves a slot is closed and what is opened enters one, until Close closes them all.
LEMMA PoolOpen ==
  ASSUME PoolTypeOK, SlotsDiffer, ClosesInOrder, OpenInSlots, [PoolNext]_poolVars
  PROVE  OpenInSlots'
  <1> USE PoolAssumption DEF PoolTypeOK, SlotsDiffer, ClosesInOrder, OpenInSlots, InSlots, Nil, Client
  <1>1. ASSUME NEW s \in Slot, CreateClient(s) PROVE OpenInSlots'
    BY <1>1 DEF CreateClient, NewClient, listVars, clientVars, checkVars
  <1>2. CASE CreateFails
    BY <1>2 DEF CreateFails, listVars, clientVars, checkVars
  <1>3. CASE NewReturns
    BY <1>3 DEF NewReturns, listVars, clientVars, checkVars
  <1>4. CASE StartHealthMonitoring
    BY <1>4 DEF StartHealthMonitoring, listVars, clientVars, checkVars
  <1>5. CASE Tick
    BY <1>5 DEF Tick, listVars, clientVars, checkVars
  <1>6. CASE Ticked
    BY <1>6 DEF Ticked, listVars, clientVars, checkVars
  <1>7. CASE CopyConnections
    BY <1>7 DEF CopyConnections, listVars, clientVars, checkVars
  <1>8. ASSUME NEW s \in Slot, Ping(s) PROVE OpenInSlots'
    BY <1>8 DEF Ping, listVars, clientVars, checkVars
  <1>9. CASE SwapHealthy
    BY <1>9 DEF SwapHealthy, listVars, clientVars, checkVars
  <1>10. CASE LockForRepair
    BY <1>10 DEF LockForRepair, listVars, clientVars, checkVars
  <1>11. ASSUME NEW s \in Slot, RepairConnection(s) PROVE OpenInSlots'
    BY <1>11 DEF RepairConnection, NewClient, listVars, clientVars, checkVars
  <1>12. CASE RepairDone
    BY <1>12 DEF RepairDone, listVars, clientVars, checkVars
  <1>13. CASE CloseBegins
    BY <1>13 DEF CloseBegins, listVars, clientVars, checkVars
  <1>14. CASE CloseReturns
    BY <1>14 DEF CloseReturns, listVars, clientVars, checkVars
  <1>15. ASSUME NEW c \in Client, ConnectionChanges(c) PROVE OpenInSlots'
    BY <1>15 DEF ConnectionChanges, listVars, clientVars, checkVars
  <1>16. CASE UNCHANGED poolVars
    BY <1>16 DEF poolVars, listVars, clientVars, checkVars
  <1>17. QED
    BY <1>1, <1>2, <1>3, <1>4, <1>5, <1>6, <1>7, <1>8, <1>9, <1>10, <1>11, <1>12, <1>13, <1>14, <1>15, <1>16 DEF PoolNext, MonitorStep

\* A check's results stay in the slots while it uses them.
LEMMA PoolFound ==
  ASSUME PoolTypeOK, ClosesInOrder, OpenInSlots, FoundInSlots, [PoolNext]_poolVars
  PROVE  FoundInSlots'
  <1> USE PoolAssumption DEF PoolTypeOK, ClosesInOrder, OpenInSlots, FoundInSlots, InSlots, Nil, Client, Monitor, Locked
  <1>1. ASSUME NEW s \in Slot, CreateClient(s) PROVE FoundInSlots'
    BY <1>1 DEF CreateClient, NewClient, listVars, clientVars, checkVars
  <1>2. CASE CreateFails
    BY <1>2 DEF CreateFails, listVars, clientVars, checkVars
  <1>3. CASE NewReturns
    BY <1>3 DEF NewReturns, listVars, clientVars, checkVars
  <1>4. CASE StartHealthMonitoring
    BY <1>4 DEF StartHealthMonitoring, listVars, clientVars, checkVars
  <1>5. CASE Tick
    BY <1>5 DEF Tick, listVars, clientVars, checkVars
  <1>6. CASE Ticked
    BY <1>6 DEF Ticked, listVars, clientVars, checkVars
  <1>7. CASE CopyConnections
    BY <1>7 DEF CopyConnections, listVars, clientVars, checkVars
  <1>8. ASSUME NEW s \in Slot, Ping(s) PROVE FoundInSlots'
    BY <1>8 DEF Ping, listVars, clientVars, checkVars
  <1>9. CASE SwapHealthy
    BY <1>9 DEF SwapHealthy, listVars, clientVars, checkVars
  <1>10. CASE LockForRepair
    BY <1>10 DEF LockForRepair, listVars, clientVars, checkVars
  <1>11. ASSUME NEW s \in Slot, RepairConnection(s) PROVE FoundInSlots'
    BY <1>11 DEF RepairConnection, NewClient, listVars, clientVars, checkVars
  <1>12. CASE RepairDone
    BY <1>12 DEF RepairDone, listVars, clientVars, checkVars
  <1>13. CASE CloseBegins
    BY <1>13 DEF CloseBegins, listVars, clientVars, checkVars
  <1>14. CASE CloseReturns
    BY <1>14 DEF CloseReturns, listVars, clientVars, checkVars
  <1>15. ASSUME NEW c \in Client, ConnectionChanges(c) PROVE FoundInSlots'
    BY <1>15 DEF ConnectionChanges, listVars, clientVars, checkVars
  <1>16. CASE UNCHANGED poolVars
    BY <1>16 DEF poolVars, listVars, clientVars, checkVars
  <1>17. QED
    BY <1>1, <1>2, <1>3, <1>4, <1>5, <1>6, <1>7, <1>8, <1>9, <1>10, <1>11, <1>12, <1>13, <1>14, <1>15, <1>16 DEF PoolNext, MonitorStep

-----------------------------------------------------------------------------
LEMMA PoolStarts == PoolInit => PoolInv
  BY PoolAssumption DEF PoolInit, PoolInv, PoolTypeOK, SlotsDiffer, ClosesInOrder, OpenInSlots,
     FoundInSlots, InSlots, Monitor, Slot, Client, Nil

LEMMA PoolInvOwns == PoolInv => PoolOwnsItsClients
  BY DEF PoolInv, PoolTypeOK, ClosesInOrder, OpenInSlots, FoundInSlots, PoolOwnsItsClients,
     Locked, Get

\* Theorem: PoolInv holds in every reachable state (pool.go's New, performHealthCheck,
\* repairConnections and Close).
THEOREM PoolInvariant == PoolSpec => []PoolInv
  <1>1. PoolInv /\ [PoolNext]_poolVars => PoolInv'
    BY PoolTypes, PoolSlots, PoolOrder, PoolOpen, PoolFound DEF PoolInv
  <1>2. QED
    BY PoolStarts, <1>1, PTL DEF PoolSpec

\* Theorem: whatever the size of the pool, whenever its lock is free it holds exactly the
\* clients it opened and has not closed, and Get hands out no other.
THEOREM PoolOwnsThem == PoolSpec => []PoolOwnsItsClients
  BY PoolInvariant, PoolInvOwns, PTL

-----------------------------------------------------------------------------
\* The shutdown

ManagerTypeOK ==
    /\ components \subseteq Component /\ copied \subseteq Component
    /\ closing \in [Component -> {"no", "closing", "closed"}]
    /\ caller \in [Caller -> {"waiting", "calling", "running", "returned"}]
    /\ operation \in [Operation -> {"idle", "running", "done", "refused"}]

\* One caller runs once.Do's function, and the outcome comes with its end.
OneRuns ==
    /\ \A c \in Caller : caller[c] = "running" => once = "running" /\ outcome = "none"
    /\ \A c, d \in Caller : caller[c] = "running" /\ caller[d] = "running" => c = d
    /\ once = "no" => outcome = "none"

\* An environment that was closed has nothing open and makes nothing more.
StreamsClosed ==
    /\ handler = "closed" => envClosed
    /\ envClosed => producing = {} /\ consuming = {}

\* A Close that has returned has closed its component, which stays closed.
ClosedStaysClosed == \A k \in Component : closing[k] = "closed" => IsClosed(k)

\* The order of shutdownComponents.
WorkInOrder ==
    /\ work \in {"draining", "done"} => trackerClosed /\ \A k \in copied : closing[k] = "closed"
    /\ work = "done" /\ outcome # "timed out" => \A o \in Operation : operation[o] # "running"
    /\ outcome = "completed" => work = "done"

ShutdownInv == ManagerTypeOK /\ OneRuns /\ StreamsClosed /\ ClosedStaysClosed /\ WorkInOrder

-----------------------------------------------------------------------------
\* Nothing but PoolRuns touches the pool.
LEMMA PoolMaps == [ShutdownNext]_shutdownVars => [PoolNext]_poolVars
  BY DEF ShutdownNext, shutdownVars, Register, ComponentClosed, Signal, CopyComponents,
     CloseTracker, Drained, CallShutdown, Shutdown, ShutdownEnds, Start, Done, PoolRuns, StreamsRun

\* Close, once done, is not undone.
LEMMA PoolStaysClosed == ASSUME PoolInv, [PoolNext]_poolVars, closer = "done" PROVE closer' = "done"
  BY DEF PoolInv, ClosesInOrder, poolVars, PoolNext, MonitorStep, CreateClient, CreateFails,
     NewReturns, StartHealthMonitoring, Tick, Ticked, CopyConnections, Ping, SwapHealthy,
     LockForRepair, RepairConnection, RepairDone, CloseBegins, CloseReturns, ConnectionChanges

LEMMA StreamStep == ASSUME StreamsClosed, [StreamNext]_streamVars
                    PROVE  StreamsClosed' /\ (handler = "closed" => handler' = "closed")
  BY DEF StreamsClosed, StreamNext, streamVars, producerVars, consumerVars, PublishToStream,
     FindProducer, CreateProducer, SendMessage, ConsumeFromStream, CreateConsumer, StoreConsumer,
     ContextDone, CloseConsumer, DeleteStream, CloseHandler, CloseEnvironment

LEMMA StreamMaps == [ShutdownNext]_shutdownVars => [StreamNext]_streamVars
  BY DEF ShutdownNext, shutdownVars, Register, ComponentClosed, Signal, CopyComponents,
     CloseTracker, Drained, CallShutdown, Shutdown, ShutdownEnds, Start, Done, PoolRuns, StreamsRun

\* The manager's own variables keep their types.
LEMMA ManagerTypes ==
  ASSUME ManagerTypeOK, [ShutdownNext]_shutdownVars
  PROVE  ManagerTypeOK'
  <1> USE DEF ManagerTypeOK
  <1>1. ASSUME NEW k \in Component, Register(k) PROVE ManagerTypeOK'
    BY <1>1 DEF Register, managerVars, workVars, signalVars, trackerVars
  <1>2. ASSUME NEW k \in Component, ComponentClosed(k) PROVE ManagerTypeOK'
    BY <1>2 DEF ComponentClosed, managerVars, workVars, signalVars, trackerVars
  <1>3. CASE Signal
    BY <1>3 DEF Signal, managerVars, workVars, signalVars, trackerVars
  <1>4. CASE CopyComponents
    BY <1>4 DEF CopyComponents, managerVars, workVars, signalVars, trackerVars
  <1>5. CASE CloseTracker
    BY <1>5 DEF CloseTracker, managerVars, workVars, signalVars, trackerVars
  <1>6. CASE Drained
    BY <1>6 DEF Drained, managerVars, workVars, signalVars, trackerVars
  <1>7. ASSUME NEW c \in Caller, CallShutdown(c) PROVE ManagerTypeOK'
    BY <1>7 DEF CallShutdown, managerVars, workVars, signalVars, trackerVars
  <1>8. ASSUME NEW c \in Caller, Shutdown(c) PROVE ManagerTypeOK'
    BY <1>8 DEF Shutdown, managerVars, workVars, signalVars, trackerVars
  <1>9. ASSUME NEW c \in Caller, ShutdownEnds(c) PROVE ManagerTypeOK'
    BY <1>9 DEF ShutdownEnds, managerVars, workVars, signalVars, trackerVars
  <1>10. ASSUME NEW o \in Operation, Start(o) PROVE ManagerTypeOK'
    BY <1>10 DEF Start, managerVars, workVars, signalVars, trackerVars
  <1>11. ASSUME NEW o \in Operation, Done(o) PROVE ManagerTypeOK'
    BY <1>11 DEF Done, managerVars, workVars, signalVars, trackerVars
  <1>12. CASE PoolRuns
    BY <1>12 DEF PoolRuns, managerVars, workVars, signalVars, trackerVars
  <1>13. CASE StreamsRun
    BY <1>13 DEF StreamsRun, managerVars, workVars, signalVars, trackerVars
  <1>14. CASE UNCHANGED shutdownVars
    BY <1>14 DEF shutdownVars, managerVars, workVars, signalVars, trackerVars, poolVars, listVars, clientVars, streamVars
  <1>15. QED
    BY <1>1, <1>2, <1>3, <1>4, <1>5, <1>6, <1>7, <1>8, <1>9, <1>10, <1>11, <1>12, <1>13, <1>14 DEF ShutdownNext

\* once.Do lets one caller in.
LEMMA RunsOnce ==
  ASSUME ManagerTypeOK, OneRuns, [ShutdownNext]_shutdownVars
  PROVE  OneRuns'
  <1> USE DEF ManagerTypeOK, OneRuns
  <1>1. ASSUME NEW k \in Component, Register(k) PROVE OneRuns'
    BY <1>1 DEF Register, managerVars, workVars, signalVars, trackerVars
  <1>2. ASSUME NEW k \in Component, ComponentClosed(k) PROVE OneRuns'
    BY <1>2 DEF ComponentClosed, managerVars, workVars, signalVars, trackerVars
  <1>3. CASE Signal
    BY <1>3 DEF Signal, managerVars, workVars, signalVars, trackerVars
  <1>4. CASE CopyComponents
    BY <1>4 DEF CopyComponents, managerVars, workVars, signalVars, trackerVars
  <1>5. CASE CloseTracker
    BY <1>5 DEF CloseTracker, managerVars, workVars, signalVars, trackerVars
  <1>6. CASE Drained
    BY <1>6 DEF Drained, managerVars, workVars, signalVars, trackerVars
  <1>7. ASSUME NEW c \in Caller, CallShutdown(c) PROVE OneRuns'
    BY <1>7 DEF CallShutdown, managerVars, workVars, signalVars, trackerVars
  <1>8. ASSUME NEW c \in Caller, Shutdown(c) PROVE OneRuns'
    BY <1>8 DEF Shutdown, managerVars, workVars, signalVars, trackerVars
  <1>9. ASSUME NEW c \in Caller, ShutdownEnds(c) PROVE OneRuns'
    BY <1>9 DEF ShutdownEnds, managerVars, workVars, signalVars, trackerVars
  <1>10. ASSUME NEW o \in Operation, Start(o) PROVE OneRuns'
    BY <1>10 DEF Start, managerVars, workVars, signalVars, trackerVars
  <1>11. ASSUME NEW o \in Operation, Done(o) PROVE OneRuns'
    BY <1>11 DEF Done, managerVars, workVars, signalVars, trackerVars
  <1>12. CASE PoolRuns
    BY <1>12 DEF PoolRuns, managerVars, workVars, signalVars, trackerVars
  <1>13. CASE StreamsRun
    BY <1>13 DEF StreamsRun, managerVars, workVars, signalVars, trackerVars
  <1>14. CASE UNCHANGED shutdownVars
    BY <1>14 DEF shutdownVars, managerVars, workVars, signalVars, trackerVars, poolVars, listVars, clientVars, streamVars
  <1>15. QED
    BY <1>1, <1>2, <1>3, <1>4, <1>5, <1>6, <1>7, <1>8, <1>9, <1>10, <1>11, <1>12, <1>13, <1>14 DEF ShutdownNext

\* Closing is recorded when it is true, and neither component opens again.
LEMMA ClosedStays ==
  ASSUME PoolInv, StreamsClosed, ClosedStaysClosed, ManagerTypeOK, [ShutdownNext]_shutdownVars
  PROVE  ClosedStaysClosed'
  <1>1. \A k \in Component : IsClosed(k) => IsClosed(k)'
    BY PoolMaps, StreamMaps, PoolStaysClosed, StreamStep DEF IsClosed, Component
  <1>2. ASSUME NEW k \in Component, closing'[k] = "closed" PROVE IsClosed(k)'
    <2>1. closing[k] = "closed" \/ ComponentClosed(k)
      BY <1>2 DEF ManagerTypeOK, ShutdownNext, shutdownVars, managerVars, workVars, Register,
         ComponentClosed, Signal, CopyComponents, CloseTracker, Drained, CallShutdown, Shutdown,
         ShutdownEnds, Start, Done, PoolRuns, StreamsRun
    <2>2. IsClosed(k)
      BY <2>1 DEF ClosedStaysClosed, ComponentClosed
    <2>3. QED
      BY <1>1, <2>2
  <1>3. QED
    BY <1>2 DEF ClosedStaysClosed

\* Each stage of the shutdown begins when the one before it is over.
LEMMA WorkOrder ==
  ASSUME ManagerTypeOK, OneRuns, WorkInOrder, [ShutdownNext]_shutdownVars
  PROVE  WorkInOrder'
  <1> USE DEF ManagerTypeOK, OneRuns, WorkInOrder
  <1>1. ASSUME NEW k \in Component, Register(k) PROVE WorkInOrder'
    BY <1>1 DEF Register, managerVars, workVars, signalVars, trackerVars
  <1>2. ASSUME NEW k \in Component, ComponentClosed(k) PROVE WorkInOrder'
    BY <1>2 DEF ComponentClosed, managerVars, workVars, signalVars, trackerVars
  <1>3. CASE Signal
    BY <1>3 DEF Signal, managerVars, workVars, signalVars, trackerVars
  <1>4. CASE CopyComponents
    BY <1>4 DEF CopyComponents, managerVars, workVars, signalVars, trackerVars
  <1>5. CASE CloseTracker
    BY <1>5 DEF CloseTracker, managerVars, workVars, signalVars, trackerVars
  <1>6. CASE Drained
    BY <1>6 DEF Drained, managerVars, workVars, signalVars, trackerVars
  <1>7. ASSUME NEW c \in Caller, CallShutdown(c) PROVE WorkInOrder'
    BY <1>7 DEF CallShutdown, managerVars, workVars, signalVars, trackerVars
  <1>8. ASSUME NEW c \in Caller, Shutdown(c) PROVE WorkInOrder'
    BY <1>8 DEF Shutdown, managerVars, workVars, signalVars, trackerVars
  <1>9. ASSUME NEW c \in Caller, ShutdownEnds(c) PROVE WorkInOrder'
    BY <1>9 DEF ShutdownEnds, managerVars, workVars, signalVars, trackerVars
  <1>10. ASSUME NEW o \in Operation, Start(o) PROVE WorkInOrder'
    BY <1>10 DEF Start, managerVars, workVars, signalVars, trackerVars
  <1>11. ASSUME NEW o \in Operation, Done(o) PROVE WorkInOrder'
    BY <1>11 DEF Done, managerVars, workVars, signalVars, trackerVars
  <1>12. CASE PoolRuns
    BY <1>12 DEF PoolRuns, managerVars, workVars, signalVars, trackerVars
  <1>13. CASE StreamsRun
    BY <1>13 DEF StreamsRun, managerVars, workVars, signalVars, trackerVars
  <1>14. CASE UNCHANGED shutdownVars
    BY <1>14 DEF shutdownVars, managerVars, workVars, signalVars, trackerVars, poolVars, listVars, clientVars, streamVars
  <1>15. QED
    BY <1>1, <1>2, <1>3, <1>4, <1>5, <1>6, <1>7, <1>8, <1>9, <1>10, <1>11, <1>12, <1>13, <1>14 DEF ShutdownNext

-----------------------------------------------------------------------------
LEMMA ShutdownStarts == ShutdownInit => ShutdownInv
  BY DEF ShutdownInit, StreamInit, ShutdownInv, ManagerTypeOK, OneRuns, StreamsClosed,
     ClosedStaysClosed, WorkInOrder

LEMMA ShutdownStep ==
  ASSUME PoolInv, ShutdownInv, [ShutdownNext]_shutdownVars
  PROVE  ShutdownInv'
  BY ManagerTypes, RunsOnce, StreamMaps, StreamStep, ClosedStays, WorkOrder DEF ShutdownInv

LEMMA QuietWhenCompleted == PoolInv /\ ShutdownInv => CompletedMeansQuiet
  <1> SUFFICES ASSUME PoolInv, ShutdownInv, outcome = "completed"
               PROVE  /\ "pool" \in copied => open = {}
                      /\ "streams" \in copied => producing = {} /\ consuming = {}
                      /\ \A o \in Operation : operation[o] # "running"
    BY DEF CompletedMeansQuiet
  <1>1. work = "done" /\ \A k \in copied : closing[k] = "closed"
    BY DEF ShutdownInv, WorkInOrder
  <1>2. \A k \in copied : IsClosed(k)
    BY <1>1 DEF ShutdownInv, ManagerTypeOK, ClosedStaysClosed
  <1>3. "pool" \in copied => open = {}
    BY <1>2 DEF IsClosed, PoolInv, OpenInSlots
  <1>4. "streams" \in copied => producing = {} /\ consuming = {}
    BY <1>2 DEF IsClosed, ShutdownInv, StreamsClosed
  <1>5. QED
    BY <1>1, <1>3, <1>4 DEF ShutdownInv, WorkInOrder

\* Theorem: in the composition the pool takes only the pool's own steps, so that everything
\* shown of PoolSpec holds of a pool that a shutdown closes (shutdown.go's closeComponent).
THEOREM ShutdownRunsPool == ShutdownSpec => PoolSpec
  BY PoolMaps, PTL DEF ShutdownSpec, ShutdownInit, PoolSpec

\* Theorem: a pool a shutdown manages owns exactly the clients it opened and has not closed.
THEOREM ManagedPoolOwns == ShutdownSpec => []PoolOwnsItsClients
  BY ShutdownRunsPool, PoolOwnsThem, PTL

\* Theorem: whoever calls Shutdown, and however late a producer, a consumer, a repair or an
\* operation starts, a shutdown that reports success has left nothing it was given running.
THEOREM CompletedIsQuiet == ShutdownSpec => []CompletedMeansQuiet
  <1>1. ShutdownSpec => []PoolInv
    BY ShutdownRunsPool, PoolInvariant, PTL
  <1>2. PoolInv /\ ShutdownInv /\ [ShutdownNext]_shutdownVars => ShutdownInv'
    BY ShutdownStep
  <1>3. ShutdownSpec => []ShutdownInv
    BY <1>1, <1>2, ShutdownStarts, PTL DEF ShutdownSpec
  <1>4. QED
    BY <1>1, <1>3, QuietWhenCompleted, PTL
=============================================================================
