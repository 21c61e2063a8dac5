-------------------------- MODULE TopologyValidator --------------------------
(***************************************************************************)
(* topology_validation.go with the admin.go calls it is made of: the       *)
(* registry of what was declared, the validation before a publish or a     *)
(* consume, and the background loop that declares again what is missing.   *)
(* The topology is a queue bound to one exchange, with another exchange    *)
(* for its dead letters.  A call on the validator's channel is one step,   *)
(* and so is the check of one item with its recreation: what happens in    *)
(* between is another actor's idempotent declaration of the same item.     *)
(***************************************************************************)
EXTENDS Naturals

CONSTANTS
    Shapes,       \* the queues a program may declare
    MaxDisables,  \* bound: calls of Disable
    MaxFaults,    \* bound: deletions by anyone, and times the broker is out of reach
    None

\* The queue's exchange and its dead-letter exchange. An exchange is absent, as the user
\* declares it, or the durable topic that ensureExchangeExists falls back to.
Exchange == {"main", "dlx"}
ExchangeKind == {None, "declared", "default"}

\* transient: exclusive or auto-delete; deadLetter stands for all of the queue's arguments.
QueueShape == [type : {"quorum", "classic"}, transient : BOOLEAN, deadLetter : BOOLEAN]
Topology == [exchanges : [Exchange -> ExchangeKind], queue : QueueShape \cup {None}, bound : BOOLEAN]

ASSUME TopologyAssumption ==
    /\ Shapes \subseteq {q \in QueueShape : ~(q.type = "quorum" /\ q.transient)}
    /\ MaxDisables \in Nat /\ MaxFaults \in Nat

\* A background loop is started by each EnableBackgroundValidation; the last number is for
\* the callers of ValidateCompleteTopology, which make the same pass once.
Loop == 0 .. MaxDisables
OnDemand == MaxDisables + 1

VARIABLES
    broker,        \* what exists
    registry,      \* what is registered
    shape,         \* the queue this program declares
    enabled, autoRecreate, background,
    stopCh,        \* the number of the stop channel; those below it are closed
    loop,          \* [Loop and OnDemand -> [pc, stop channel it selects on, exchanges left]]
    user,          \* the program's own goroutine: idle, or at a step of a call
    reachable,     \* getChannel succeeds
    disables, faults

world == <<broker, registry>>
modeVars == <<enabled, autoRecreate, background, stopCh>>
boundVars == <<disables, faults>>
topologyVars == <<world, shape, modeVars, loop, user, reachable, boundVars>>

Nothing == [exchanges |-> [x \in Exchange |-> None], queue |-> None, bound |-> FALSE]

TopologyInit ==
    /\ broker = Nothing /\ registry = Nothing
    /\ shape \in Shapes
    /\ enabled = TRUE /\ autoRecreate \in BOOLEAN /\ background \in BOOLEAN
    /\ stopCh = 0
    /\ loop = [l \in Loop \cup {OnDemand} |-> [pc |-> IF background /\ l = 0 THEN "top" ELSE "none", on |-> 0, left |-> {}]]
    /\ user = "idle"
    /\ reachable = TRUE
    /\ disables = 0 /\ faults = 0

------------------------------------------------------------------------------
\* Calls of the admin service, as functions of what they find: the result has the broker, the
\* registry and whether the call succeeded. They fail if the broker is out of reach.
Found == [broker |-> broker, registry |-> registry, ok |-> reachable]
Refused(w) == [w EXCEPT !.ok = FALSE]

\* Declaring what exists with other properties is refused.
DeclareExchange(w, x, kind) ==
    IF reachable /\ w.broker.exchanges[x] \in {None, kind}
    THEN [w EXCEPT !.broker.exchanges[x] = kind, !.registry.exchanges[x] = kind, !.ok = TRUE]
    ELSE Refused(w)

\* A quorum queue is neither exclusive nor deleted automatically.
DeclareQueue(w, q) ==
    IF reachable /\ w.broker.queue \in {None, q} /\ ~(q.type = "quorum" /\ q.transient)
    THEN [w EXCEPT !.broker.queue = q, !.registry.queue = q, !.ok = TRUE]
    ELSE Refused(w)

BindQueue(w) ==
    IF reachable /\ w.broker.queue # None /\ w.broker.exchanges["main"] # None
    THEN [w EXCEPT !.broker.bound = TRUE, !.registry.bound = TRUE, !.ok = TRUE]
    ELSE Refused(w)

\* The registered bindings of the item just declared.
RestoreBindings(w) == IF w.ok /\ w.registry.bound THEN BindQueue(w) ELSE w

RecreateExchange(w, x, kind) ==
    LET declared == DeclareExchange(w, x, kind)
    IN  IF x = "main" THEN RestoreBindings(declared) ELSE declared

\* recreateQueue passes no queue type on: DeclareQueue makes a quorum queue.
RecreateQueue(w, q) == RestoreBindings(DeclareQueue(w, [q EXCEPT !.type = "quorum"]))

EnsureExchange(w, x) ==
    IF ~reachable THEN Refused(w)
    ELSE IF w.broker.exchanges[x] # None THEN [w EXCEPT !.ok = TRUE]
    ELSE RecreateExchange(w, x, IF w.registry.exchanges[x] = None THEN "default" ELSE w.registry.exchanges[x])

Becomes(w) == broker' = w.broker /\ registry' = w.registry

------------------------------------------------------------------------------
\* SetupTopology looks at neither the type of a queue nor its dead letters.
SetupTopologyQueue(q) == [q EXCEPT !.type = "quorum", !.deadLetter = FALSE]

\* The program: DeclareTopology, SetupTopology, or the single calls in the same order; an
\* error ends it.
DeclareTopology ==
    /\ user \in {"idle", "exchange", "dlx", "queue", "binding"}
    /\ \E q \in {shape, SetupTopologyQueue(shape)} :
       LET w == CASE user = "exchange" -> DeclareExchange(Found, "main", "declared")
                  [] user = "dlx" -> DeclareExchange(Found, "dlx", "declared")
                  [] user = "queue" -> DeclareQueue(Found, q)
                  [] user = "binding" -> BindQueue(Found)
                  [] OTHER -> [Found EXCEPT !.ok = TRUE]
           next == CASE user = "idle" -> {"exchange"}
                     [] user = "exchange" -> {"dlx", "queue"}
                     [] user = "dlx" -> {"queue"}
                     [] user = "queue" -> {"binding"}
                     [] OTHER -> {"idle"}
       IN  Becomes(w) /\ user' \in IF w.ok THEN next ELSE {"idle"}
    /\ UNCHANGED <<shape, modeVars, loop, reachable, boundVars>>

\* ValidateExchange, before a publish.
ValidateExchange(x) ==
    /\ user = "idle" /\ enabled /\ registry.exchanges[x] # None
    /\ LET missing == reachable /\ broker.exchanges[x] = None IN
       Becomes(IF missing /\ autoRecreate THEN RecreateExchange(Found, x, registry.exchanges[x]) ELSE Found)
    /\ UNCHANGED <<shape, modeVars, loop, user, reachable, boundVars>>

\* ValidateQueue, before a consume: first the exchanges the queue needs, whether or not
\* recreation is enabled; an error ends it.
ValidateQueueExchanges ==
    /\ user = "idle" /\ enabled /\ registry.queue # None
    /\ LET dlx == IF registry.queue.deadLetter THEN EnsureExchange(Found, "dlx") ELSE [Found EXCEPT !.ok = TRUE]
           main == IF dlx.ok /\ registry.bound THEN EnsureExchange(dlx, "main") ELSE dlx
       IN  Becomes(main) /\ user' = IF main.ok THEN "validate" ELSE "idle"
    /\ UNCHANGED <<shape, modeVars, loop, reachable, boundVars>>

\* Then the queue. InspectQueue reports no arguments, and the registry is made to match.
ValidateQueue ==
    /\ user = "validate"
    /\ user' = "idle"
    /\ \/ ~reachable /\ UNCHANGED world
       \/ /\ reachable /\ broker.queue = None
          /\ Becomes(IF autoRecreate THEN RecreateQueue(Found, registry.queue) ELSE Found)
       \/ /\ reachable /\ broker.queue # None
          /\ registry' = [registry EXCEPT !.queue.deadLetter = FALSE]
          /\ UNCHANGED broker
    /\ UNCHANGED <<shape, modeVars, loop, reachable, boundVars>>

\* Deletions, through the admin service (DeleteQueue, DeleteExchange, UnbindQueue) or not, of
\* any of it at once: bindings go with either end, and the registry does not hear of it.
Drift ==
    /\ faults < MaxFaults /\ faults' = faults + 1
    /\ \E gone \in SUBSET (Exchange \cup {"queue", "binding"}) :
           broker' = [exchanges |-> [x \in Exchange |-> IF x \in gone THEN None ELSE broker.exchanges[x]],
                      queue |-> IF "queue" \in gone THEN None ELSE broker.queue,
                      bound |-> broker.bound /\ gone \cap {"main", "queue", "binding"} = {}]
    /\ UNCHANGED <<registry, shape, modeVars, loop, user, reachable, disables>>

Outage ==
    /\ reachable /\ faults < MaxFaults
    /\ reachable' = FALSE /\ faults' = faults + 1
    /\ UNCHANGED <<world, shape, modeVars, loop, user, disables>>

Reconnected ==
    /\ ~reachable /\ reachable' = TRUE
    /\ UNCHANGED <<world, shape, modeVars, loop, user, boundVars>>

------------------------------------------------------------------------------
\* Modes.
Enable ==
    /\ ~enabled /\ enabled' = TRUE
    /\ UNCHANGED <<world, shape, autoRecreate, background, stopCh, loop, user, reachable, boundVars>>

EnableAutoRecreate ==
    /\ ~autoRecreate /\ autoRecreate' = TRUE
    /\ UNCHANGED <<world, shape, enabled, background, stopCh, loop, user, reachable, boundVars>>

EnableBackgroundValidation ==
    /\ ~background /\ background' = TRUE
    /\ \E l \in Loop :
           /\ loop[l].pc = "none" /\ \A k \in Loop : k < l => loop[k].pc # "none"
           /\ loop' = [loop EXCEPT ![l].pc = "top"]
    /\ UNCHANGED <<world, shape, enabled, autoRecreate, stopCh, user, reachable, boundVars>>

DisableForgetsFlag ==
    /\ disables < MaxDisables /\ disables' = disables + 1
    /\ enabled' = FALSE /\ autoRecreate' = FALSE
    /\ stopCh' = IF background THEN stopCh + 1 ELSE stopCh
    /\ UNCHANGED <<world, shape, background, loop, user, reachable, faults>>

\* Disable closes the stop channel and puts a new one in its place.
Disable ==
    /\ disables < MaxDisables /\ disables' = disables + 1
    /\ enabled' = FALSE /\ autoRecreate' = FALSE /\ background' = FALSE
    /\ stopCh' = IF background THEN stopCh + 1 ELSE stopCh
    /\ UNCHANGED <<world, shape, loop, user, reachable, faults>>

------------------------------------------------------------------------------
\* The background loop evaluates v.stopCh each time it comes to its select, with no lock.
ReadStopCh(l) ==
    /\ loop[l].pc = "top"
    /\ loop' = [loop EXCEPT ![l] = [pc |-> "select", on |-> stopCh, left |-> {}]]
    /\ UNCHANGED <<world, shape, modeVars, user, reachable, boundVars>>

LoopStops(l) ==
    /\ loop[l].pc = "select" /\ loop[l].on < stopCh
    /\ loop' = [loop EXCEPT ![l].pc = "ended"]
    /\ UNCHANGED <<world, shape, modeVars, user, reachable, boundVars>>

\* A tick. The phase works on a list taken at its start.
ListExchanges(l) ==
    /\ loop[l].pc = "select"
    /\ loop' = [loop EXCEPT ![l] = [pc |-> "exchanges", on |-> 0,
                  left |-> {x \in Exchange : registry.exchanges[x] # None}]]
    /\ UNCHANGED <<world, shape, modeVars, user, reachable, boundVars>>

ValidateCompleteTopology ==
    /\ user = "idle" /\ enabled
    /\ user' = "pass"
    /\ loop' = [loop EXCEPT ![OnDemand] = [pc |-> "exchanges", on |-> 0,
                  left |-> {x \in Exchange : registry.exchanges[x] # None}]]
    /\ UNCHANGED <<world, shape, modeVars, reachable, boundVars>>

\* validateAndRecreateExchanges; errors are logged.
ValidateAndRecreateExchange(l) ==
    /\ loop[l].pc = "exchanges"
    /\ \/ /\ loop[l].left = {}
          /\ loop' = [loop EXCEPT ![l].pc = "queues"] /\ UNCHANGED world
       \/ \E x \in loop[l].left :
              /\ loop' = [loop EXCEPT ![l].left = @ \ {x}]
              /\ Becomes(EnsureExchange(Found, x))
    /\ UNCHANGED <<shape, modeVars, user, reachable, boundVars>>

\* validateAndRecreateQueues: the dead-letter exchange comes first.
ValidateAndRecreateQueue(l) ==
    /\ loop[l].pc = "queues"
    /\ loop' = [loop EXCEPT ![l].pc = "bindings"]
    /\ IF reachable /\ registry.queue # None /\ broker.queue = None
         THEN LET w == IF registry.queue.deadLetter THEN EnsureExchange(Found, "dlx") ELSE Found
              IN  Becomes(IF w.ok THEN RecreateQueue(w, registry.queue) ELSE w)
         ELSE UNCHANGED world
    /\ UNCHANGED <<shape, modeVars, user, reachable, boundVars>>

\* validateAndRecreateBindings: binding what is bound changes nothing.
ValidateAndRecreateBinding(l) ==
    /\ loop[l].pc = "bindings"
    /\ loop' = [loop EXCEPT ![l].pc = IF l = OnDemand THEN "none" ELSE "top"]
    /\ IF reachable /\ registry.bound
         THEN LET w == EnsureExchange(Found, "main") IN Becomes(IF w.ok THEN BindQueue(w) ELSE w)
         ELSE UNCHANGED world
    /\ user' = IF l = OnDemand THEN "idle" ELSE user
    /\ UNCHANGED <<shape, modeVars, reachable, boundVars>>

Pass(l) ==
    \/ ValidateAndRecreateExchange(l) \/ ValidateAndRecreateQueue(l) \/ ValidateAndRecreateBinding(l)

LoopStep(l) == ReadStopCh(l) \/ LoopStops(l) \/ ListExchanges(l) \/ Pass(l)

TopologyNext ==
    \/ DeclareTopology \/ ValidateQueueExchanges \/ ValidateQueue
    \/ \E x \in Exchange : ValidateExchange(x)
    \/ Drift \/ Outage \/ Reconnected
    \/ Enable \/ EnableAutoRecreate \/ EnableBackgroundValidation \/ Disable
    \/ ValidateCompleteTopology \/ Pass(OnDemand)
    \/ \E l \in Loop : LoopStep(l)

\* The loops run, their tickers tick, and the client reconnects. Nothing else is owed.
TopologyFairness ==
    /\ WF_topologyVars(Reconnected)
    /\ \A l \in Loop : WF_topologyVars(LoopStep(l))

------------------------------------------------------------------------------
\* All that is registered exists: a queue of that name, whatever its type. A deleted classic queue
\* comes back as a quorum queue, which a transient one cannot be: it is refused, and not counted here.
Restored ==
    /\ \A x \in Exchange : registry.exchanges[x] # None => broker.exchanges[x] # None
    /\ registry.queue # None /\ ~registry.queue.transient =>
           /\ broker.queue # None
           /\ registry.bound => broker.bound

\* "Ensures your exchanges, queues, and bindings remain consistent even if deleted externally":
\* while background validation is on, whatever was deleted comes back, however the deletions
\* fall between the phases of the loop, after Disable and a new start too.
Heals == <>[]background => <>[]Restored
==============================================================================
