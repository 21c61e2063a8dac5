--------------------------- MODULE ConnectionPool ---------------------------
(***************************************************************************)
(* pool/pool.go: a fixed number of clients, a goroutine that pings them    *)
(* and replaces the failed ones, and Close.  p.mu is held across the calls *)
(* of NewClient in a repair and across the whole of Close; pings hold no   *)
(* lock.  A client reconnects by itself (ClientConnection), so its         *)
(* connection is only up or down here.                                     *)
(***************************************************************************)
EXTENDS Naturals, FiniteSets

CONSTANTS
    Slots,       \* size
    MaxClients   \* bound: clients ever created

ASSUME PoolAssumption == Slots \in Nat \ {0} /\ MaxClients \in Nat \ {0}

Slot == 1 .. Slots
Client == 1 .. MaxClients
Nil == 0

VARIABLES
    autoRepair,
    pool,            \* "none" (New not called), "creating", "open", "closed" (p.closed = 1)
    closer,          \* Close: "no", "closing" (p.mu held), "done"
    connections,     \* [Slot -> Client or Nil]
    healthyClients,
    repairing,       \* slots the repair in progress has yet to replace; p.mu is held
    opened,          \* clients ever created
    open,            \* clients created and not closed
    up,              \* those whose connection answers
    monitor,         \* the health goroutine: none, delay, waiting, ticked, copying, pinging, swapping, locking, repairing, ended
    toPing,          \* slots of the copied list that are not pinged yet
    found,           \* clients that answered
    repairNeeded     \* slots to repair; these three are performHealthCheck's own

listVars == <<connections, healthyClients>>
clientVars == <<opened, open, up>>
checkVars == <<toPing, found, repairNeeded, repairing>>
poolVars == <<autoRepair, pool, closer, listVars, clientVars, monitor, checkVars>>

\* The writer lock: a repair or Close holds it over several steps.
Locked == closer = "closing" \/ monitor = "repairing"

InSlots == {connections[s] : s \in Slot} \ {Nil}

PoolInit ==
    /\ autoRepair \in BOOLEAN
    /\ pool = "none" /\ closer = "no"
    /\ connections = [s \in Slot |-> Nil] /\ healthyClients = {}
    /\ opened = 0 /\ open = {} /\ up = {}
    /\ monitor = "none"
    /\ toPing = {} /\ found = {} /\ repairNeeded = {} /\ repairing = {}

-----------------------------------------------------------------------------
\* NewClient for slot s succeeds, once the old client, if there is one, is closed.
NewClient(s, old) ==
    /\ opened < MaxClients
    /\ opened' = opened + 1
    /\ open' = (open \ old) \cup {opened'} /\ up' = (up \ old) \cup {opened'}
    /\ connections' = [connections EXCEPT ![s] = opened']

CreateClient(s) ==
    /\ pool \in {"none", "creating"} /\ connections[s] = Nil
    /\ \A t \in Slot : t < s => connections[t] # Nil
    /\ NewClient(s, {})
    /\ pool' = "creating"
    /\ UNCHANGED <<autoRepair, closer, healthyClients, monitor, checkVars>>

\* New gives up: the half-made pool is closed and nobody gets it.
CreateFails ==
    /\ pool \in {"none", "creating"} /\ \E s \in Slot : connections[s] = Nil
    /\ pool' = "closed" /\ closer' = "done"
    /\ open' = open \ InSlots /\ up' = up \ InSlots
    /\ UNCHANGED <<autoRepair, listVars, opened, monitor, checkVars>>

\* New returns the pool; a goroutine starts the monitor 50 ms later, if there is an interval.
NewReturns ==
    /\ pool = "creating" /\ \A s \in Slot : connections[s] # Nil
    /\ pool' = "open"
    /\ healthyClients' = up
    /\ monitor' \in {"delay", "none"}
    /\ UNCHANGED <<autoRepair, closer, connections, clientVars, checkVars>>

StartHealthMonitoring ==
    /\ monitor = "delay" /\ ~Locked
    /\ monitor' = IF pool = "closed" THEN "ended" ELSE "waiting"
    /\ UNCHANGED <<autoRepair, pool, closer, listVars, clientVars, checkVars>>

\* Close has stopped the ticker for good.
Tick ==
    /\ monitor = "waiting" /\ pool = "open"
    /\ monitor' = "ticked"
    /\ UNCHANGED <<autoRepair, pool, closer, listVars, clientVars, checkVars>>

Ticked ==
    /\ monitor = "ticked"
    /\ monitor' = IF pool = "closed" THEN "ended" ELSE "copying"
    /\ UNCHANGED <<autoRepair, pool, closer, listVars, clientVars, checkVars>>

\* performHealthCheck, step 1. Only repairs, of the same goroutine, change the list copied here.
CopyConnections ==
    /\ monitor = "copying" /\ ~Locked
    /\ IF pool = "closed"
         THEN monitor' = "waiting" /\ UNCHANGED checkVars
         ELSE /\ monitor' = "pinging"
              /\ toPing' = Slot /\ found' = {} /\ UNCHANGED repairing
              /\ repairNeeded' = {s \in Slot : connections[s] = Nil}
    /\ UNCHANGED <<autoRepair, pool, closer, listVars, clientVars>>

\* Step 2. The error of a connection already lost ("connection is not available") is none of
\* those IsConnectionError knows; one that breaks under the ping may be.
Ping(s) ==
    /\ monitor = "pinging" /\ s \in toPing
    /\ toPing' = toPing \ {s}
    /\ monitor' = IF toPing' = {} THEN "swapping" ELSE "pinging"
    /\ \/ connections[s] \in up
          /\ found' = found \cup {connections[s]} /\ UNCHANGED <<repairNeeded, up>>
       \/ connections[s] \in up /\ autoRepair
          /\ up' = up \ {connections[s]}
          /\ repairNeeded' = repairNeeded \cup {s} /\ UNCHANGED found
       \/ connections[s] \notin up /\ UNCHANGED <<found, repairNeeded, up>>
    /\ UNCHANGED <<autoRepair, pool, closer, listVars, opened, open, repairing>>

\* Step 3.
SwapHealthy ==
    /\ monitor = "swapping" /\ ~Locked
    /\ healthyClients' = IF pool = "closed" THEN healthyClients ELSE found
    /\ found' = {}
    /\ IF pool = "open" /\ autoRepair /\ repairNeeded # {}
         THEN monitor' = "locking" /\ UNCHANGED repairNeeded
         ELSE monitor' = "waiting" /\ repairNeeded' = {}
    /\ UNCHANGED <<autoRepair, pool, closer, connections, clientVars, toPing, repairing>>

\* The pool may have been closed between the check's unlock and this lock.
LockForRepairUnchecked ==
    /\ monitor = "locking" /\ ~Locked
    /\ monitor' = "repairing" /\ repairing' = repairNeeded /\ repairNeeded' = {}
    /\ UNCHANGED <<autoRepair, pool, closer, listVars, clientVars, toPing, found>>

LockForRepair ==
    /\ monitor = "locking" /\ ~Locked
    /\ IF pool = "closed"
         THEN monitor' = "waiting" /\ UNCHANGED repairing
         ELSE monitor' = "repairing" /\ repairing' = repairNeeded
    /\ repairNeeded' = {}
    /\ UNCHANGED <<autoRepair, pool, closer, listVars, clientVars, toPing, found>>

\* One turn of repairConnections' loop: the old client is closed, and a new one made or not.
RepairConnection(s) ==
    /\ monitor = "repairing" /\ s \in repairing
    /\ repairing' = repairing \ {s}
    /\ LET old == {connections[s]} \ {Nil} IN
       \/ NewClient(s, old)
       \/ /\ open' = open \ old /\ up' = up \ old
          /\ connections' = [connections EXCEPT ![s] = Nil] /\ UNCHANGED opened
    /\ UNCHANGED <<autoRepair, pool, closer, healthyClients, monitor, toPing, found, repairNeeded>>

\* The loop ends: every connection there is counts as healthy.
RepairDone ==
    /\ monitor = "repairing" /\ repairing = {}
    /\ healthyClients' = InSlots
    /\ monitor' = "waiting"
    /\ UNCHANGED <<autoRepair, pool, closer, connections, clientVars, checkVars>>

\* What Get may return: it waits for the lock, and fails if there is nothing.
Get == IF pool = "open" THEN healthyClients ELSE {}

\* Close takes the lock and signals the monitor, which hears it only if it is in its select.
CloseBegins ==
    /\ pool = "open" /\ ~Locked
    /\ pool' = "closed" /\ closer' = "closing"
    /\ monitor' \in {monitor, IF monitor = "waiting" THEN "ended" ELSE monitor}
    /\ UNCHANGED <<autoRepair, listVars, clientVars, checkVars>>

CloseReturns ==
    /\ closer = "closing"
    /\ closer' = "done"
    /\ open' = open \ InSlots /\ up' = up \ InSlots
    /\ UNCHANGED <<autoRepair, pool, listVars, opened, monitor, checkVars>>

\* The client's own reconnection, or the network.
ConnectionChanges(c) ==
    /\ c \in open
    /\ up' = IF c \in up THEN up \ {c} ELSE up \cup {c}
    /\ UNCHANGED <<autoRepair, pool, closer, listVars, opened, open, monitor, checkVars>>

MonitorStep ==
    \/ StartHealthMonitoring \/ Tick \/ Ticked \/ CopyConnections
    \/ \E s \in Slot : Ping(s) \/ RepairConnection(s)
    \/ SwapHealthy \/ LockForRepair \/ RepairDone

PoolNext ==
    \/ \E s \in Slot : CreateClient(s)
    \/ CreateFails \/ NewReturns \/ MonitorStep \/ CloseBegins \/ CloseReturns
    \/ \E c \in Client : ConnectionChanges(c)

PoolSpec == PoolInit /\ [][PoolNext]_poolVars

-----------------------------------------------------------------------------
\* Whenever the lock is free the pool holds exactly the clients it opened and has not closed,
\* whatever repair, failed creation or Close ran meanwhile: a client that is replaced is
\* closed, nothing is opened by a check that Close overtook, nothing open is forgotten, and
\* Get only hands out what the pool still owns.
PoolOwnsItsClients ==
    ~Locked =>
        /\ open = IF pool = "closed" THEN {} ELSE InSlots
        /\ Get \subseteq open
=============================================================================
