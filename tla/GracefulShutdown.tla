-------------------------- MODULE GracefulShutdown --------------------------
(***************************************************************************)
(* shutdown/shutdown.go: a manager that closes registered components on a  *)
(* signal or a call, each in a goroutine of its own, then waits for the    *)
(* operations in flight, all under one timeout.  The components are the    *)
(* pool (ConnectionPool) and the stream handler (StreamHandler): closing   *)
(* one is its own Close, step by step.                                     *)
(***************************************************************************)
EXTENDS ConnectionPool, StreamHandler

CONSTANTS
    Caller,        \* who calls Shutdown: any of "handler" (the goroutine of SetupSignalHandler),
                   \* "handling" (that of SetupSignalHandling, which reads the same channel) and
                   \* "direct" (ShutdownGracefully)
    Operation,     \* operations that use the InFlightTracker
    MaxSignals     \* bound: signals sent to the process

Component == {"pool", "streams"}

ASSUME ShutdownAssumption == Caller \subseteq {"handler", "handling", "direct"} /\ MaxSignals \in Nat

VARIABLES
    deployed,      \* the components this program makes
    components,    \* registered
    copied,        \* shutdownComponents' copy
    closing,       \* [Component -> goroutine of its Close: "no", "closing", "closed"]
    signals,       \* signals sent
    sigChan,       \* signals in the channel of one
    caller,        \* [Caller -> "waiting" for a signal, "calling", "running" once's function, "returned"]
    once,          \* sync.Once: "no", "running", "done"
    work,          \* shutdownComponents: "no", "copying", "closing", "draining", "done"
    outcome,       \* "none", "completed", "timed out"; sm.done is closed with it
    trackerClosed,
    operation      \* [Operation -> "idle", "running", "done", "refused"]

workVars == <<copied, closing, work>>
signalVars == <<signals, sigChan>>
trackerVars == <<trackerClosed, operation>>
managerVars == <<deployed, components, workVars, signalVars, caller, once, outcome, trackerVars>>
shutdownVars == <<poolVars, streamVars, managerVars>>

ShutdownInit ==
    /\ PoolInit /\ StreamInit
    /\ deployed \in SUBSET Component
    /\ components = {} /\ copied = {}
    /\ closing = [k \in Component |-> "no"]
    /\ signals = 0 /\ sigChan = 0
    /\ caller = [c \in Caller |-> "waiting"]
    /\ once = "no" /\ work = "no" /\ outcome = "none"
    /\ trackerClosed = FALSE
    /\ operation = [o \in Operation |-> "idle"]

-----------------------------------------------------------------------------
Made(k) == IF k = "pool" THEN pool = "open" ELSE TRUE
IsClosed(k) == IF k = "pool" THEN closer = "done" ELSE handler = "closed"

Register(k) ==
    /\ k \in deployed \ components /\ Made(k)
    /\ components' = components \cup {k}
    /\ UNCHANGED <<poolVars, streamVars, deployed, workVars, signalVars, caller, once, outcome, trackerVars>>

\* signal.Notify drops a signal its channel has no room for.
Signal ==
    /\ signals < MaxSignals
    /\ signals' = signals + 1 /\ sigChan' = 1
    /\ UNCHANGED <<poolVars, streamVars, deployed, components, workVars, caller, once, outcome, trackerVars>>

\* Either of the two goroutines takes the signal; ShutdownGracefully needs none.
CallShutdown(c) ==
    /\ caller[c] = "waiting"
    /\ c # "direct" => sigChan = 1
    /\ sigChan' = IF c = "direct" THEN sigChan ELSE 0
    /\ caller' = [caller EXCEPT ![c] = "calling"]
    /\ UNCHANGED <<poolVars, streamVars, deployed, components, workVars, signals, once, outcome, trackerVars>>

\* once.Do: the first caller runs, the others wait for it.
Shutdown(c) ==
    /\ caller[c] = "calling" /\ once # "running"
    /\ IF once = "no"
         THEN once' = "running" /\ work' = "copying" /\ caller' = [caller EXCEPT ![c] = "running"]
         ELSE caller' = [caller EXCEPT ![c] = "returned"] /\ UNCHANGED <<once, work>>
    /\ UNCHANGED <<poolVars, streamVars, deployed, components, copied, closing, signalVars, outcome, trackerVars>>

\* shutdownComponents: what is registered later is not closed.
CopyComponents ==
    /\ work = "copying"
    /\ copied' = components
    /\ closing' = [k \in Component |-> IF k \in components THEN "closing" ELSE "no"]
    /\ work' = "closing"
    /\ UNCHANGED <<poolVars, streamVars, deployed, components, signalVars, caller, once, outcome, trackerVars>>

\* A component's goroutine returns from its Close.
ComponentClosed(k) ==
    /\ closing[k] = "closing" /\ IsClosed(k)
    /\ closing' = [closing EXCEPT ![k] = "closed"]
    /\ UNCHANGED <<poolVars, streamVars, deployed, components, copied, signalVars, caller, once, work, outcome, trackerVars>>

\* wg.Wait is over; CloseWithTimeout refuses new operations and waits for the others.
CloseTracker ==
    /\ work = "closing" /\ \A k \in copied : closing[k] = "closed"
    /\ trackerClosed' = TRUE
    /\ work' = "draining"
    /\ UNCHANGED <<poolVars, streamVars, deployed, components, copied, closing, signalVars, caller, once, outcome, operation>>

\* The drain's timeout is as long as the whole shutdown's and starts later: it ends last.
Drained ==
    /\ work = "draining"
    /\ outcome = "timed out" \/ \A o \in Operation : operation[o] # "running"
    /\ work' = "done"
    /\ UNCHANGED <<poolVars, streamVars, deployed, components, copied, closing, signalVars, caller, once, outcome, trackerVars>>

\* Shutdown's select, after which sm.done is closed and once.Do returns.
ShutdownEnds(c) ==
    /\ caller[c] = "running"
    /\ outcome' \in {"timed out"} \cup (IF work = "done" THEN {"completed"} ELSE {})
    /\ caller' = [caller EXCEPT ![c] = "returned"]
    /\ once' = "done"
    /\ UNCHANGED <<poolVars, streamVars, deployed, components, workVars, signalVars, trackerVars>>

StartUntracked(o) ==
    /\ operation[o] = "idle"
    /\ operation' = [operation EXCEPT ![o] = "running"]
    /\ UNCHANGED <<poolVars, streamVars, deployed, components, workVars, signalVars, caller, once, outcome, trackerClosed>>

\* InFlightTracker.Start: the answer and the count are one step, under the read lock.
Start(o) ==
    /\ operation[o] = "idle"
    /\ operation' = [operation EXCEPT ![o] = IF trackerClosed THEN "refused" ELSE "running"]
    /\ UNCHANGED <<poolVars, streamVars, deployed, components, workVars, signalVars, caller, once, outcome, trackerClosed>>

Done(o) ==
    /\ operation[o] = "running"
    /\ operation' = [operation EXCEPT ![o] = "done"]
    /\ UNCHANGED <<poolVars, streamVars, deployed, components, workVars, signalVars, caller, once, outcome, trackerClosed>>

\* The components run by themselves, but it is the manager that closes them.
PoolRuns ==
    /\ "pool" \in deployed /\ PoolNext
    /\ (pool = "open" /\ closer' # closer) => closing["pool"] = "closing"
    /\ UNCHANGED <<streamVars, managerVars>>

StreamsRun ==
    /\ "streams" \in deployed /\ StreamNext
    /\ (handler = "open" /\ handler' # "open") => closing["streams"] = "closing"
    /\ UNCHANGED <<poolVars, managerVars>>

ShutdownNext ==
    \/ \E k \in Component : Register(k) \/ ComponentClosed(k)
    \/ Signal \/ CopyComponents \/ CloseTracker \/ Drained
    \/ \E c \in Caller : CallShutdown(c) \/ Shutdown(c) \/ ShutdownEnds(c)
    \/ \E o \in Operation : Start(o) \/ Done(o)
    \/ PoolRuns \/ StreamsRun

ShutdownSpec == ShutdownInit /\ [][ShutdownNext]_shutdownVars

-----------------------------------------------------------------------------
\* A shutdown that reports success, "Graceful shutdown completed", left nothing running of
\* what it was given: no client of the pool, no producer or consumer of the stream handler,
\* made late or not, and no operation in flight, nor one that can still start.
CompletedMeansQuiet ==
    outcome = "completed" =>
        /\ "pool" \in copied => open = {}
        /\ "streams" \in copied => producing = {} /\ consuming = {}
        /\ \A o \in Operation : operation[o] # "running"
=============================================================================
