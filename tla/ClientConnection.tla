--------------------------- MODULE ClientConnection ---------------------------
(***************************************************************************)
(* The client of client.go: its connection, the monitor goroutine that     *)
(* replaces a lost one, Close, the handing out of channels, and the state  *)
(* snapshot kept for State() by the listeners of each connection.          *)
(*                                                                         *)
(* AutoReconnect is on.  connMu is an RWMutex: a holder or readers.  A     *)
(* reader may overtake a writer that waits, which Go's RWMutex prevents.   *)
(***************************************************************************)
EXTENDS Integers, Sequences

CONSTANTS
    Closer,                \* calls of Close
    Caller,                \* calls of getChannel and tryGetChannel
    MaxReconnectAttempts,  \* 0: unlimited
    MaxConn,               \* bound: connections established
    MaxBlocks,             \* bound: connection.blocked notifications queued per connection
    Monitor,               \* the connectionMonitor goroutine
    None

ASSUME ConstantsOK ==
    /\ MaxReconnectAttempts \in Nat
    /\ MaxConn \in Nat \ {0}
    /\ MaxBlocks \in Nat
    /\ Monitor \notin Closer
    /\ None \notin Closer \cup {Monitor}

Conn == 1 .. MaxConn

VARIABLES
    open,       \* whether each connection is open
    conn,       \* c.conn: connections are numbered as they are established
    connMu,     \* holder of connMu's write lock, or None
    readers,    \* the callers that hold its read lock
    closed,     \* closed, and with it closeCh
    closer,     \* where each call of Close is
    caller,     \* where each call of getChannel is
    monitor,    \* where connectionMonitor is
    attempts,   \* attempt, in handleReconnection
    state,      \* ClientState
    stateConn,  \* the connection state describes
    watcher,    \* each connection's NotifyClose goroutine: "none", "watching", "done"
    blocks,     \* the notifications queued for each connection's NotifyBlocked goroutine
    wasBlocked  \* the connections the broker has ever blocked

connVars == <<open, conn>>
closeVars == <<closed, closer>>
monitorVars == <<monitor, attempts>>
stateVars == <<state, stateConn>>
noticeVars == <<watcher, blocks, wasBlocked>>
vars == <<connVars, connMu, readers, closeVars, caller, monitorVars, stateVars, noticeVars>>

ClientState == [Connected : BOOLEAN, Blocked : BOOLEAN, GaveUp : BOOLEAN, Reconnects : Nat]

\* NewClient has connected and started the monitor.
Init ==
    /\ open = [c \in Conn |-> c = 1]
    /\ conn = 1
    /\ connMu = None
    /\ readers = {}
    /\ closed = FALSE
    /\ closer = [x \in Closer |-> "idle"]
    /\ caller = [u \in Caller |-> "idle"]
    /\ monitor = "watch"
    /\ attempts = 0
    /\ state = [Connected |-> TRUE, Blocked |-> FALSE, GaveUp |-> FALSE, Reconnects |-> 0]
    /\ stateConn = 1
    /\ watcher = [c \in Conn |-> IF c = 1 THEN "watching" ELSE "none"]
    /\ blocks = [c \in Conn |-> <<>>]
    /\ wasBlocked = {}

-------------------------------------------------------------------------------
\* connectionMonitor and handleReconnection. Both look at closed (or closeCh) without a lock:
\* a look that comes too early is made up for by the next one.

MonitorEnds ==
    /\ monitor = "watch"
    /\ closed
    /\ monitor' = "ended"
    /\ UNCHANGED <<connVars, connMu, readers, closeVars, caller, attempts, stateVars, noticeVars>>

ConnectionLost ==
    /\ monitor = "watch"
    /\ ~closed
    /\ ~open[conn]
    /\ monitor' = "attempt"
    /\ attempts' = 0
    /\ UNCHANGED <<connVars, connMu, readers, closeVars, caller, stateVars, noticeVars>>

\* Faulty: one attempt more than configured.
ExhaustedLate == MaxReconnectAttempts > 0 /\ attempts > MaxReconnectAttempts

Exhausted == MaxReconnectAttempts > 0 /\ attempts >= MaxReconnectAttempts

\* At the head of the loop, or in its select.
ReconnectStops ==
    /\ monitor = "attempt" \/ (monitor = "delay" /\ ~Exhausted)
    /\ closed
    /\ monitor' = "watch"
    /\ UNCHANGED <<connVars, connMu, readers, closeVars, caller, attempts, stateVars, noticeVars>>

AttemptBegins ==
    /\ monitor = "attempt"
    /\ ~closed
    /\ monitor' = "delay"
    /\ UNCHANGED <<connVars, connMu, readers, closeVars, caller, attempts, stateVars, noticeVars>>

\* Faulty: the monitor ends when its attempts are exhausted.
GiveUpForGood ==
    /\ monitor = "delay"
    /\ Exhausted
    /\ monitor' = "ended"
    /\ state' = [state EXCEPT !.GaveUp = TRUE]
    /\ UNCHANGED <<connVars, connMu, readers, closeVars, caller, attempts, stateConn, noticeVars>>

\* The loop ends; the monitor enters it again at its next poll.
GiveUp ==
    /\ monitor = "delay"
    /\ Exhausted
    /\ monitor' = "watch"
    /\ state' = [state EXCEPT !.GaveUp = TRUE]
    /\ UNCHANGED <<connVars, connMu, readers, closeVars, caller, attempts, stateConn, noticeVars>>

\* The select may take the timer though closeCh is closed too, and from here on
\* closed is not looked at before the dial.
DelayElapsed ==
    /\ monitor = "delay"
    /\ ~Exhausted
    /\ monitor' = "lock"
    /\ attempts' = IF MaxReconnectAttempts = 0 THEN 0 ELSE attempts + 1
    /\ UNCHANGED <<connVars, connMu, readers, closeVars, caller, stateVars, noticeVars>>

DialStarts ==
    /\ monitor = "lock"
    /\ connMu = None
    /\ readers = {}
    /\ connMu' = Monitor
    /\ monitor' = "dialing"
    /\ UNCHANGED <<connVars, readers, closeVars, caller, attempts, stateVars, noticeVars>>

\* connect: none of the URLs answered.
DialFails ==
    /\ monitor = "dialing"
    /\ connMu' = None
    /\ monitor' = "attempt"
    /\ UNCHANGED <<connVars, readers, closeVars, caller, attempts, stateVars, noticeVars>>

DialSucceeds ==
    /\ monitor = "dialing"
    /\ conn < MaxConn
    /\ conn' = conn + 1
    /\ open' = [open EXCEPT ![conn + 1] = TRUE]
    /\ monitor' = "marking"
    /\ UNCHANGED <<connMu, readers, closeVars, caller, attempts, stateVars, noticeVars>>

\* Faulty: GaveUp is not reset.
MarkConnectedKeepingGaveUp ==
    /\ monitor = "marking"
    /\ state' = [state EXCEPT !.Connected = TRUE, !.Blocked = FALSE]
    /\ stateConn' = conn
    /\ watcher' = [watcher EXCEPT ![conn] = "watching"]
    /\ connMu' = None
    /\ monitor' = "counting"
    /\ UNCHANGED <<connVars, readers, closeVars, caller, attempts, blocks, wasBlocked>>

\* markConnected, on a connection that may be closed again, and the end of connect.
MarkConnected ==
    /\ monitor = "marking"
    /\ state' = [state EXCEPT !.Connected = TRUE, !.Blocked = FALSE, !.GaveUp = FALSE]
    /\ stateConn' = conn
    /\ watcher' = [watcher EXCEPT ![conn] = "watching"]
    /\ connMu' = None
    /\ monitor' = "counting"
    /\ UNCHANGED <<connVars, readers, closeVars, caller, attempts, blocks, wasBlocked>>

CountReconnect ==
    /\ monitor = "counting"
    /\ state' = [state EXCEPT !.Reconnects = @ + 1]
    /\ monitor' = "watch"
    /\ UNCHANGED <<connVars, connMu, readers, closeVars, caller, attempts, stateConn, noticeVars>>

-------------------------------------------------------------------------------
\* The listeners markConnected starts for each connection

\* Faulty: does not look whether the connection was replaced.
CloseNotifiedAnyway(c) ==
    /\ watcher[c] = "watching"
    /\ ~open[c]
    /\ watcher' = [watcher EXCEPT ![c] = "done"]
    /\ state' = [state EXCEPT !.Connected = FALSE, !.Blocked = FALSE]
    /\ UNCHANGED <<connVars, connMu, readers, closeVars, caller, monitorVars, stateConn,
                   blocks, wasBlocked>>

CloseNotified(c) ==
    /\ watcher[c] = "watching"
    /\ ~open[c]
    /\ watcher' = [watcher EXCEPT ![c] = "done"]
    /\ state' = IF stateConn = c THEN [state EXCEPT !.Connected = FALSE, !.Blocked = FALSE]
                ELSE state
    /\ UNCHANGED <<connVars, connMu, readers, closeVars, caller, monitorVars, stateConn,
                   blocks, wasBlocked>>

\* Faulty: does not look whether the connection was replaced.
BlockNotifiedAnyway(c) ==
    /\ blocks[c] # <<>>
    /\ blocks' = [blocks EXCEPT ![c] = Tail(@)]
    /\ state' = [state EXCEPT !.Blocked = Head(blocks[c])]
    /\ UNCHANGED <<connVars, connMu, readers, closeVars, caller, monitorVars, stateConn,
                   watcher, wasBlocked>>

\* What is queued is handled after the connection has closed, too.
BlockNotified(c) ==
    /\ blocks[c] # <<>>
    /\ blocks' = [blocks EXCEPT ![c] = Tail(@)]
    /\ state' = IF stateConn = c THEN [state EXCEPT !.Blocked = Head(blocks[c])] ELSE state
    /\ UNCHANGED <<connVars, connMu, readers, closeVars, caller, monitorVars, stateConn,
                   watcher, wasBlocked>>

-------------------------------------------------------------------------------
\* Close

CloseCalled(x) ==
    /\ closer[x] = "idle"
    /\ closer' = [closer EXCEPT ![x] = "lock"]
    /\ UNCHANGED <<connVars, connMu, readers, closed, caller, monitorVars, stateVars, noticeVars>>

CloseLocks(x) ==
    /\ closer[x] = "lock"
    /\ connMu = None
    /\ readers = {}
    /\ closed' = TRUE
    /\ IF closed THEN /\ closer' = [closer EXCEPT ![x] = "done"]
                      /\ UNCHANGED connMu
                 ELSE /\ closer' = [closer EXCEPT ![x] = "closing"]
                      /\ connMu' = x
    /\ UNCHANGED <<connVars, readers, caller, monitorVars, stateVars, noticeVars>>

\* Faulty: lets go of connMu before it waits.
CloseConnectionUnlocking(x) ==
    /\ closer[x] = "closing"
    /\ open' = [open EXCEPT ![conn] = FALSE]
    /\ closer' = [closer EXCEPT ![x] = "waiting"]
    /\ connMu' = None
    /\ UNCHANGED <<conn, readers, closed, caller, monitorVars, stateVars, noticeVars>>

CloseConnection(x) ==
    /\ closer[x] = "closing"
    /\ open' = [open EXCEPT ![conn] = FALSE]
    /\ closer' = [closer EXCEPT ![x] = "waiting"]
    /\ UNCHANGED <<conn, connMu, readers, closed, caller, monitorVars, stateVars, noticeVars>>

\* closeWg.Wait, with connMu held.
CloseReturns(x) ==
    /\ closer[x] = "waiting"
    /\ monitor = "ended"
    /\ closer' = [closer EXCEPT ![x] = "done"]
    /\ connMu' = None
    /\ UNCHANGED <<connVars, readers, closed, caller, monitorVars, stateVars, noticeVars>>

-------------------------------------------------------------------------------
\* getChannel and tryGetChannel; Ping holds the same lock for the same checks

\* Faulty: the read lock covers the checks only.
RLockForChecksOnly(u) ==
    /\ caller[u] = "idle"
    /\ connMu = None
    /\ caller' = [caller EXCEPT ![u] = IF closed \/ ~open[conn] THEN "error" ELSE "opening"]
    /\ UNCHANGED <<connVars, connMu, readers, closeVars, monitorVars, stateVars, noticeVars>>

RLock(u) ==
    /\ caller[u] = "idle"
    /\ connMu = None
    /\ IF closed \/ ~open[conn]
       THEN caller' = [caller EXCEPT ![u] = "error"] /\ UNCHANGED readers
       ELSE caller' = [caller EXCEPT ![u] = "opening"] /\ readers' = readers \cup {u}
    /\ UNCHANGED <<connVars, connMu, closeVars, monitorVars, stateVars, noticeVars>>

\* tryGetChannel gives up while the lock is held, or a writer waits for it.
TryRLockFails(u) ==
    /\ caller[u] = "idle"
    /\ connMu # None \/ monitor = "lock" \/ \E x \in Closer : closer[x] = "lock"
    /\ caller' = [caller EXCEPT ![u] = "busy"]
    /\ UNCHANGED <<connVars, connMu, readers, closeVars, monitorVars, stateVars, noticeVars>>

OpenChannel(u) ==
    /\ caller[u] = "opening"
    /\ caller' = [caller EXCEPT ![u] = IF open[conn] THEN "channel" ELSE "error"]
    /\ readers' = readers \ {u}
    /\ UNCHANGED <<connVars, connMu, closeVars, monitorVars, stateVars, noticeVars>>

-------------------------------------------------------------------------------
\* The network and the broker

\* (The last connection does not die: MaxConn.)
ConnectionDies ==
    /\ open[conn]
    /\ conn < MaxConn
    /\ open' = [open EXCEPT ![conn] = FALSE]
    /\ UNCHANGED <<conn, connMu, readers, closeVars, caller, monitorVars, stateVars, noticeVars>>

\* connection.blocked or connection.unblocked, once a listener is there.
BrokerBlocks(active) ==
    /\ open[conn]
    /\ watcher[conn] = "watching"
    /\ Len(blocks[conn]) < MaxBlocks
    /\ active \/ conn \in wasBlocked
    /\ blocks' = [blocks EXCEPT ![conn] = Append(@, active)]
    /\ wasBlocked' = wasBlocked \cup {conn}
    /\ UNCHANGED <<connVars, connMu, readers, closeVars, caller, monitorVars, stateVars, watcher>>

-------------------------------------------------------------------------------
MonitorStep ==
    \/ MonitorEnds \/ ConnectionLost \/ ReconnectStops \/ AttemptBegins \/ GiveUp \/ DelayElapsed
    \/ DialStarts \/ DialFails \/ DialSucceeds \/ MarkConnected \/ CountReconnect

CloseStep(x) == CloseLocks(x) \/ CloseConnection(x) \/ CloseReturns(x)

CallerStep(u) == RLock(u) \/ TryRLockFails(u) \/ OpenChannel(u)

Next ==
    \/ MonitorStep
    \/ \E c \in Conn : CloseNotified(c) \/ BlockNotified(c)
    \/ \E x \in Closer : CloseCalled(x) \/ CloseStep(x)
    \/ \E u \in Caller : CallerStep(u)
    \/ ConnectionDies
    \/ \E active \in BOOLEAN : BrokerBlocks(active)

Spec == Init /\ [][Next]_vars

\* The goroutines run, and a broker that is dialled again and again answers at last. Close,
\* getChannel and faults are not owed.
ClientFairness ==
    /\ WF_vars(MonitorStep) /\ SF_vars(DialSucceeds)
    /\ \A c \in Conn : WF_vars(CloseNotified(c)) /\ WF_vars(BlockNotified(c))
    /\ \A x \in Closer : WF_vars(CloseStep(x))
    /\ \A u \in Caller : WF_vars(OpenChannel(u))

FairSpec == Spec /\ ClientFairness

-------------------------------------------------------------------------------
\* Properties

TypeOK ==
    /\ open \in [Conn -> BOOLEAN]
    /\ conn \in Conn
    /\ connMu \in Closer \cup {Monitor, None}
    /\ readers \subseteq Caller
    /\ closed \in BOOLEAN
    /\ closer \in [Closer -> {"idle", "lock", "closing", "waiting", "done"}]
    /\ caller \in [Caller -> {"idle", "opening", "channel", "error", "busy"}]
    /\ monitor \in {"watch", "attempt", "delay", "lock", "dialing", "marking", "counting", "ended"}
    /\ attempts \in 0 .. MaxReconnectAttempts
    /\ state \in ClientState
    /\ stateConn \in Conn
    /\ watcher \in [Conn -> {"none", "watching", "done"}]
    /\ blocks \in [Conn -> Seq(BOOLEAN)]
    /\ wasBlocked \subseteq Conn

\* "Connected is true while the client holds an open connection. It turns false the moment
\* the connection closes": it may be late by the run of that connection's watcher, but no
\* watcher of a replaced connection clears it, and a connection that dies before it is
\* recorded does not leave it set for ever (markConnected).
StateFollowsConnection ==
    IF state.Connected THEN open[stateConn] \/ watcher[stateConn] = "watching"
                       ELSE ~open[stateConn]

\* GaveUp "stays true until one succeeds", and is never reported next to a live connection.
GaveUpMeansDown == state.GaveUp => ~open[stateConn]

\* Blocked is only ever reported of a connection that the broker did block: no notification
\* of a replaced connection marks the one that works.
BlockedByBroker == state.Blocked => stateConn \in wasBlocked

\* Once Close has closed the connection none is open or gets opened, even by a reconnection
\* that was past its last look at closed; and no Close returns before the monitor has ended.
ClosedForGood ==
    \A x \in Closer :
        /\ closer[x] \in {"waiting", "done"} => \A c \in Conn : ~open[c]
        /\ closer[x] = "done" => monitor = "ended"

\* A caller is handed a channel of the current connection, never after Close has begun and
\* never while a reconnection is replacing it (getChannel, tryGetChannel).
ChannelsWhileConnected ==
    [][\A u \in Caller : caller'[u] = "channel" /\ caller[u] # "channel" =>
           ~closed /\ open[conn] /\ connMu = None]_vars

\* A lost connection is replaced, unless the client is closed first: running out of
\* attempts only reports GaveUp, it does not end the monitor.
Recovers == ~open[conn] ~> open[conn] \/ closed

\* A call of Close returns.
CloseFinishes == \A x \in Closer : closer[x] = "lock" ~> closer[x] = "done"
===============================================================================
