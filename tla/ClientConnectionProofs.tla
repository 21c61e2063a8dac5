------------------------ MODULE ClientConnectionProofs ------------------------
(***************************************************************************)
(* Proofs about ClientConnection, for any number of connections, calls of  *)
(* Close and of getChannel, and any limit on reconnect attempts.           *)
(***************************************************************************)
EXTENDS ClientConnection, TLAPS

-------------------------------------------------------------------------------
\* The inductive invariant

\* connMu is held by exactly who runs a section it protects, and readers exclude writers.
Exclusive ==
    /\ \A x \in Closer : closer[x] \in {"closing", "waiting"} <=> connMu = x
    /\ connMu = Monitor <=> monitor \in {"dialing", "marking"}
    /\ readers # {} => connMu = None /\ ~closed
    /\ \A u \in Caller : caller[u] = "opening" => u \in readers

\* A connection that is being replaced is closed, and so are those that were.
OneOpen ==
    /\ \A c \in Conn : c # conn => ~open[c]
    /\ monitor \in {"attempt", "delay", "lock", "dialing"} => ~open[conn]

\* Once closed, connMu stays with the Close that waits, until the monitor has ended.
CloseHolds ==
    /\ \A x \in Closer : closer[x] \in {"closing", "waiting", "done"} => closed
    /\ \A x \in Closer : closer[x] \in {"waiting", "done"} => ~open[conn]
    /\ \A x \in Closer : closer[x] = "done" => monitor = "ended"
    /\ closed /\ connMu \notin Closer => monitor = "ended" /\ ~open[conn]

\* The state describes the latest connection, except while that one is being recorded.
Described ==
    /\ monitor = "marking" <=> stateConn # conn
    /\ \A c \in Conn : blocks[c] # <<>> => c \in wasBlocked
    /\ watcher[stateConn] # "none"
    /\ \A c \in Conn : watcher[c] # "none" => c <= conn
    /\ \A c \in Conn : watcher[c] = "done" => ~open[c]

ConnectionInv == TypeOK /\ Exclusive /\ OneOpen /\ CloseHolds

StateInv ==
    /\ Described
    /\ StateFollowsConnection
    /\ GaveUpMeansDown
    /\ BlockedByBroker

-------------------------------------------------------------------------------
\* Every step keeps the types.
LEMMA TypeStep ==
    ASSUME TypeOK, [Next]_vars PROVE TypeOK'
PROOF
<1> USE ConstantsOK DEF TypeOK, Conn, ClientState
<1>1. ASSUME MonitorEnds PROVE TypeOK'
  BY <1>1 DEF MonitorEnds, connVars, closeVars, monitorVars, stateVars, noticeVars
<1>2. ASSUME ConnectionLost PROVE TypeOK'
  BY <1>2 DEF ConnectionLost, connVars, closeVars, monitorVars, stateVars, noticeVars
<1>3. ASSUME ReconnectStops PROVE TypeOK'
  BY <1>3 DEF ReconnectStops, connVars, closeVars, monitorVars, stateVars, noticeVars
<1>4. ASSUME GiveUp PROVE TypeOK'
  BY <1>4 DEF GiveUp, connVars, closeVars, monitorVars, stateVars, noticeVars, Exhausted
<1>5. ASSUME DelayElapsed PROVE TypeOK'
  BY <1>5 DEF DelayElapsed, connVars, closeVars, monitorVars, stateVars, noticeVars, Exhausted
<1>6. ASSUME DialStarts PROVE TypeOK'
  BY <1>6 DEF DialStarts, connVars, closeVars, monitorVars, stateVars, noticeVars
<1>7. ASSUME DialFails PROVE TypeOK'
  BY <1>7 DEF DialFails, connVars, closeVars, monitorVars, stateVars, noticeVars
<1>8. ASSUME DialSucceeds PROVE TypeOK'
  BY <1>8 DEF DialSucceeds, connVars, closeVars, monitorVars, stateVars, noticeVars
<1>9. ASSUME MarkConnected PROVE TypeOK'
  BY <1>9 DEF MarkConnected, connVars, closeVars, monitorVars, stateVars, noticeVars
<1>10. ASSUME CountReconnect PROVE TypeOK'
  <2>1. state' \in ClientState
    <3>1. state.Reconnects + 1 \in Nat /\ state \in ClientState
      BY DEF ClientState
    <3> HIDE DEF TypeOK
    <3> QED
      BY <1>10, <3>1 DEF CountReconnect, ClientState
  <2> QED
    BY <1>10, <2>1 DEF CountReconnect, connVars, closeVars, monitorVars, stateVars, noticeVars
<1>11. ASSUME NEW c \in Conn, CloseNotified(c) PROVE TypeOK'
  BY <1>11 DEF CloseNotified, connVars, closeVars, monitorVars, stateVars, noticeVars
<1>12. ASSUME NEW c \in Conn, BlockNotified(c) PROVE TypeOK'
  <2>1. /\ blocks \in [Conn -> Seq(BOOLEAN)]
        /\ state \in ClientState
        /\ blocks[c] # <<>>
    BY <1>12 DEF BlockNotified
  <2>2. Tail(blocks[c]) \in Seq(BOOLEAN) /\ Head(blocks[c]) \in BOOLEAN
    BY <2>1
  <2>3. blocks' \in [Conn -> Seq(BOOLEAN)]
    BY <1>12, <2>1, <2>2 DEF BlockNotified
  <2>4. state' \in ClientState
    BY <1>12, <2>1, <2>2 DEF BlockNotified, ClientState
  <2> QED
    BY <1>12, <2>3, <2>4 DEF BlockNotified, connVars, closeVars, monitorVars, stateVars, noticeVars
<1>13. ASSUME NEW x \in Closer, CloseCalled(x) PROVE TypeOK'
  BY <1>13 DEF CloseCalled, connVars, closeVars, monitorVars, stateVars, noticeVars
<1>14. ASSUME NEW x \in Closer, CloseLocks(x) PROVE TypeOK'
  BY <1>14 DEF CloseLocks, connVars, closeVars, monitorVars, stateVars, noticeVars
<1>15. ASSUME NEW x \in Closer, CloseConnection(x) PROVE TypeOK'
  BY <1>15 DEF CloseConnection, connVars, closeVars, monitorVars, stateVars, noticeVars
<1>16. ASSUME NEW x \in Closer, CloseReturns(x) PROVE TypeOK'
  BY <1>16 DEF CloseReturns, connVars, closeVars, monitorVars, stateVars, noticeVars
<1>17. ASSUME NEW u \in Caller, RLock(u) PROVE TypeOK'
  BY <1>17 DEF RLock, connVars, closeVars, monitorVars, stateVars, noticeVars
<1>18. ASSUME NEW u \in Caller, TryRLockFails(u) PROVE TypeOK'
  BY <1>18 DEF TryRLockFails, connVars, closeVars, monitorVars, stateVars, noticeVars
<1>19. ASSUME NEW u \in Caller, OpenChannel(u) PROVE TypeOK'
  BY <1>19 DEF OpenChannel, connVars, closeVars, monitorVars, stateVars, noticeVars
<1>20. ASSUME ConnectionDies PROVE TypeOK'
  BY <1>20 DEF ConnectionDies, connVars, closeVars, monitorVars, stateVars, noticeVars
<1>21. ASSUME NEW active \in BOOLEAN, BrokerBlocks(active) PROVE TypeOK'
  BY <1>21 DEF BrokerBlocks, connVars, closeVars, monitorVars, stateVars, noticeVars
<1>22. ASSUME UNCHANGED vars PROVE TypeOK'
  BY <1>22 DEF vars, connVars, closeVars, monitorVars, stateVars, noticeVars
<1>23. ASSUME AttemptBegins PROVE TypeOK'
  BY <1>23 DEF AttemptBegins, connVars, closeVars, monitorVars, stateVars, noticeVars
<1> QED
  BY <1>1, <1>2, <1>3, <1>4, <1>5, <1>6, <1>7, <1>8, <1>9, <1>10, <1>11, <1>12, <1>13, <1>14, <1>15, <1>16, <1>17, <1>18, <1>19, <1>20, <1>21, <1>22, <1>23 DEF Next, MonitorStep, CloseStep, CallerStep

\* Every step keeps connMu's sections exclusive.
LEMMA ExclusiveStep ==
    ASSUME TypeOK, CloseHolds, Exclusive, [Next]_vars PROVE Exclusive'
PROOF
<1> USE ConstantsOK DEF TypeOK, Exclusive, CloseHolds
<1>1. ASSUME MonitorEnds PROVE Exclusive'
  BY <1>1 DEF MonitorEnds, connVars, closeVars, monitorVars, stateVars, noticeVars
<1>2. ASSUME ConnectionLost PROVE Exclusive'
  BY <1>2 DEF ConnectionLost, connVars, closeVars, monitorVars, stateVars, noticeVars
<1>3. ASSUME ReconnectStops PROVE Exclusive'
  BY <1>3 DEF ReconnectStops, connVars, closeVars, monitorVars, stateVars, noticeVars
<1>4. ASSUME GiveUp PROVE Exclusive'
  BY <1>4 DEF GiveUp, connVars, closeVars, monitorVars, stateVars, noticeVars
<1>5. ASSUME DelayElapsed PROVE Exclusive'
  BY <1>5 DEF DelayElapsed, connVars, closeVars, monitorVars, stateVars, noticeVars
<1>6. ASSUME DialStarts PROVE Exclusive'
  BY <1>6 DEF DialStarts, connVars, closeVars, monitorVars, stateVars, noticeVars
<1>7. ASSUME DialFails PROVE Exclusive'
  BY <1>7 DEF DialFails, connVars, closeVars, monitorVars, stateVars, noticeVars
<1>8. ASSUME DialSucceeds PROVE Exclusive'
  BY <1>8 DEF DialSucceeds, connVars, closeVars, monitorVars, stateVars, noticeVars
<1>9. ASSUME MarkConnected PROVE Exclusive'
  BY <1>9 DEF MarkConnected, connVars, closeVars, monitorVars, stateVars, noticeVars
<1>10. ASSUME CountReconnect PROVE Exclusive'
  BY <1>10 DEF CountReconnect, connVars, closeVars, monitorVars, stateVars, noticeVars
<1>11. ASSUME NEW c \in Conn, CloseNotified(c) PROVE Exclusive'
  BY <1>11 DEF CloseNotified, connVars, closeVars, monitorVars, stateVars, noticeVars
<1>12. ASSUME NEW c \in Conn, BlockNotified(c) PROVE Exclusive'
  BY <1>12 DEF BlockNotified, connVars, closeVars, monitorVars, stateVars, noticeVars
<1>13. ASSUME NEW x \in Closer, CloseCalled(x) PROVE Exclusive'
  BY <1>13 DEF CloseCalled, connVars, closeVars, monitorVars, stateVars, noticeVars
<1>14. ASSUME NEW x \in Closer, CloseLocks(x) PROVE Exclusive'
  BY <1>14 DEF CloseLocks, connVars, closeVars, monitorVars, stateVars, noticeVars
<1>15. ASSUME NEW x \in Closer, CloseConnection(x) PROVE Exclusive'
  BY <1>15 DEF CloseConnection, connVars, closeVars, monitorVars, stateVars, noticeVars
<1>16. ASSUME NEW x \in Closer, CloseReturns(x) PROVE Exclusive'
  BY <1>16 DEF CloseReturns, connVars, closeVars, monitorVars, stateVars, noticeVars
<1>17. ASSUME NEW u \in Caller, RLock(u) PROVE Exclusive'
  BY <1>17 DEF RLock, connVars, closeVars, monitorVars, stateVars, noticeVars
<1>18. ASSUME NEW u \in Caller, TryRLockFails(u) PROVE Exclusive'
  BY <1>18 DEF TryRLockFails, connVars, closeVars, monitorVars, stateVars, noticeVars
<1>19. ASSUME NEW u \in Caller, OpenChannel(u) PROVE Exclusive'
  BY <1>19 DEF OpenChannel, connVars, closeVars, monitorVars, stateVars, noticeVars
<1>20. ASSUME ConnectionDies PROVE Exclusive'
  BY <1>20 DEF ConnectionDies, connVars, closeVars, monitorVars, stateVars, noticeVars
<1>21. ASSUME NEW active \in BOOLEAN, BrokerBlocks(active) PROVE Exclusive'
  BY <1>21 DEF BrokerBlocks, connVars, closeVars, monitorVars, stateVars, noticeVars
<1>22. ASSUME UNCHANGED vars PROVE Exclusive'
  BY <1>22 DEF vars, connVars, closeVars, monitorVars, stateVars, noticeVars
<1>23. ASSUME AttemptBegins PROVE Exclusive'
  BY <1>23 DEF AttemptBegins, connVars, closeVars, monitorVars, stateVars, noticeVars
<1> QED
  BY <1>1, <1>2, <1>3, <1>4, <1>5, <1>6, <1>7, <1>8, <1>9, <1>10, <1>11, <1>12, <1>13, <1>14, <1>15, <1>16, <1>17, <1>18, <1>19, <1>20, <1>21, <1>22, <1>23 DEF Next, MonitorStep, CloseStep, CallerStep

\* Every step keeps all connections closed but the current one.
LEMMA OneOpenStep ==
    ASSUME ConnectionInv, [Next]_vars PROVE OneOpen'
PROOF
<1> USE ConstantsOK DEF ConnectionInv, TypeOK, Conn, OneOpen
<1>1. ASSUME MonitorEnds PROVE OneOpen'
  BY <1>1 DEF MonitorEnds, connVars, closeVars, monitorVars, stateVars, noticeVars
<1>2. ASSUME ConnectionLost PROVE OneOpen'
  BY <1>2 DEF ConnectionLost, connVars, closeVars, monitorVars, stateVars, noticeVars
<1>3. ASSUME ReconnectStops PROVE OneOpen'
  BY <1>3 DEF ReconnectStops, connVars, closeVars, monitorVars, stateVars, noticeVars
<1>4. ASSUME GiveUp PROVE OneOpen'
  BY <1>4 DEF GiveUp, connVars, closeVars, monitorVars, stateVars, noticeVars
<1>5. ASSUME DelayElapsed PROVE OneOpen'
  BY <1>5 DEF DelayElapsed, connVars, closeVars, monitorVars, stateVars, noticeVars
<1>6. ASSUME DialStarts PROVE OneOpen'
  BY <1>6 DEF DialStarts, connVars, closeVars, monitorVars, stateVars, noticeVars
<1>7. ASSUME DialFails PROVE OneOpen'
  BY <1>7 DEF DialFails, connVars, closeVars, monitorVars, stateVars, noticeVars
<1>8. ASSUME DialSucceeds PROVE OneOpen'
  BY <1>8 DEF DialSucceeds, connVars, closeVars, monitorVars, stateVars, noticeVars
<1>9. ASSUME MarkConnected PROVE OneOpen'
  BY <1>9 DEF MarkConnected, connVars, closeVars, monitorVars, stateVars, noticeVars
<1>10. ASSUME CountReconnect PROVE OneOpen'
  BY <1>10 DEF CountReconnect, connVars, closeVars, monitorVars, stateVars, noticeVars
<1>11. ASSUME NEW c \in Conn, CloseNotified(c) PROVE OneOpen'
  BY <1>11 DEF CloseNotified, connVars, closeVars, monitorVars, stateVars, noticeVars
<1>12. ASSUME NEW c \in Conn, BlockNotified(c) PROVE OneOpen'
  BY <1>12 DEF BlockNotified, connVars, closeVars, monitorVars, stateVars, noticeVars
<1>13. ASSUME NEW x \in Closer, CloseCalled(x) PROVE OneOpen'
  BY <1>13 DEF CloseCalled, connVars, closeVars, monitorVars, stateVars, noticeVars
<1>14. ASSUME NEW x \in Closer, CloseLocks(x) PROVE OneOpen'
  BY <1>14 DEF CloseLocks, connVars, closeVars, monitorVars, stateVars, noticeVars
<1>15. ASSUME NEW x \in Closer, CloseConnection(x) PROVE OneOpen'
  BY <1>15 DEF CloseConnection, connVars, closeVars, monitorVars, stateVars, noticeVars
<1>16. ASSUME NEW x \in Closer, CloseReturns(x) PROVE OneOpen'
  BY <1>16 DEF CloseReturns, connVars, closeVars, monitorVars, stateVars, noticeVars
<1>17. ASSUME NEW u \in Caller, RLock(u) PROVE OneOpen'
  BY <1>17 DEF RLock, connVars, closeVars, monitorVars, stateVars, noticeVars
<1>18. ASSUME NEW u \in Caller, TryRLockFails(u) PROVE OneOpen'
  BY <1>18 DEF TryRLockFails, connVars, closeVars, monitorVars, stateVars, noticeVars
<1>19. ASSUME NEW u \in Caller, OpenChannel(u) PROVE OneOpen'
  BY <1>19 DEF OpenChannel, connVars, closeVars, monitorVars, stateVars, noticeVars
<1>20. ASSUME ConnectionDies PROVE OneOpen'
  BY <1>20 DEF ConnectionDies, connVars, closeVars, monitorVars, stateVars, noticeVars
<1>21. ASSUME NEW active \in BOOLEAN, BrokerBlocks(active) PROVE OneOpen'
  BY <1>21 DEF BrokerBlocks, connVars, closeVars, monitorVars, stateVars, noticeVars
<1>22. ASSUME UNCHANGED vars PROVE OneOpen'
  BY <1>22 DEF vars, connVars, closeVars, monitorVars, stateVars, noticeVars
<1>23. ASSUME AttemptBegins PROVE OneOpen'
  BY <1>23 DEF AttemptBegins, connVars, closeVars, monitorVars, stateVars, noticeVars
<1> QED
  BY <1>1, <1>2, <1>3, <1>4, <1>5, <1>6, <1>7, <1>8, <1>9, <1>10, <1>11, <1>12, <1>13, <1>14, <1>15, <1>16, <1>17, <1>18, <1>19, <1>20, <1>21, <1>22, <1>23 DEF Next, MonitorStep, CloseStep, CallerStep

\* Every step keeps what Close holds: a dial cannot begin while it waits.
LEMMA CloseStepHolds ==
    ASSUME ConnectionInv, [Next]_vars PROVE CloseHolds'
PROOF
<1> USE ConstantsOK DEF ConnectionInv, TypeOK, Conn, Exclusive, OneOpen, CloseHolds
<1>1. ASSUME MonitorEnds PROVE CloseHolds'
  BY <1>1 DEF MonitorEnds, connVars, closeVars, monitorVars, stateVars, noticeVars
<1>2. ASSUME ConnectionLost PROVE CloseHolds'
  BY <1>2 DEF ConnectionLost, connVars, closeVars, monitorVars, stateVars, noticeVars
<1>3. ASSUME ReconnectStops PROVE CloseHolds'
  BY <1>3 DEF ReconnectStops, connVars, closeVars, monitorVars, stateVars, noticeVars
<1>4. ASSUME GiveUp PROVE CloseHolds'
  BY <1>4 DEF GiveUp, connVars, closeVars, monitorVars, stateVars, noticeVars
<1>5. ASSUME DelayElapsed PROVE CloseHolds'
  BY <1>5 DEF DelayElapsed, connVars, closeVars, monitorVars, stateVars, noticeVars
<1>6. ASSUME DialStarts PROVE CloseHolds'
  BY <1>6 DEF DialStarts, connVars, closeVars, monitorVars, stateVars, noticeVars
<1>7. ASSUME DialFails PROVE CloseHolds'
  BY <1>7 DEF DialFails, connVars, closeVars, monitorVars, stateVars, noticeVars
<1>8. ASSUME DialSucceeds PROVE CloseHolds'
  BY <1>8 DEF DialSucceeds, connVars, closeVars, monitorVars, stateVars, noticeVars
<1>9. ASSUME MarkConnected PROVE CloseHolds'
  BY <1>9 DEF MarkConnected, connVars, closeVars, monitorVars, stateVars, noticeVars
<1>10. ASSUME CountReconnect PROVE CloseHolds'
  BY <1>10 DEF CountReconnect, connVars, closeVars, monitorVars, stateVars, noticeVars
<1>11. ASSUME NEW c \in Conn, CloseNotified(c) PROVE CloseHolds'
  BY <1>11 DEF CloseNotified, connVars, closeVars, monitorVars, stateVars, noticeVars
<1>12. ASSUME NEW c \in Conn, BlockNotified(c) PROVE CloseHolds'
  BY <1>12 DEF BlockNotified, connVars, closeVars, monitorVars, stateVars, noticeVars
<1>13. ASSUME NEW x \in Closer, CloseCalled(x) PROVE CloseHolds'
  BY <1>13 DEF CloseCalled, connVars, closeVars, monitorVars, stateVars, noticeVars
<1>14. ASSUME NEW x \in Closer, CloseLocks(x) PROVE CloseHolds'
  BY <1>14 DEF CloseLocks, connVars, closeVars, monitorVars, stateVars, noticeVars
<1>15. ASSUME NEW x \in Closer, CloseConnection(x) PROVE CloseHolds'
  BY <1>15 DEF CloseConnection, connVars, closeVars, monitorVars, stateVars, noticeVars
<1>16. ASSUME NEW x \in Closer, CloseReturns(x) PROVE CloseHolds'
  BY <1>16 DEF CloseReturns, connVars, closeVars, monitorVars, stateVars, noticeVars
<1>17. ASSUME NEW u \in Caller, RLock(u) PROVE CloseHolds'
  BY <1>17 DEF RLock, connVars, closeVars, monitorVars, stateVars, noticeVars
<1>18. ASSUME NEW u \in Caller, TryRLockFails(u) PROVE CloseHolds'
  BY <1>18 DEF TryRLockFails, connVars, closeVars, monitorVars, stateVars, noticeVars
<1>19. ASSUME NEW u \in Caller, OpenChannel(u) PROVE CloseHolds'
  BY <1>19 DEF OpenChannel, connVars, closeVars, monitorVars, stateVars, noticeVars
<1>20. ASSUME ConnectionDies PROVE CloseHolds'
  BY <1>20 DEF ConnectionDies, connVars, closeVars, monitorVars, stateVars, noticeVars
<1>21. ASSUME NEW active \in BOOLEAN, BrokerBlocks(active) PROVE CloseHolds'
  BY <1>21 DEF BrokerBlocks, connVars, closeVars, monitorVars, stateVars, noticeVars
<1>22. ASSUME UNCHANGED vars PROVE CloseHolds'
  BY <1>22 DEF vars, connVars, closeVars, monitorVars, stateVars, noticeVars
<1>23. ASSUME AttemptBegins PROVE CloseHolds'
  BY <1>23 DEF AttemptBegins, connVars, closeVars, monitorVars, stateVars, noticeVars
<1> QED
  BY <1>1, <1>2, <1>3, <1>4, <1>5, <1>6, <1>7, <1>8, <1>9, <1>10, <1>11, <1>12, <1>13, <1>14, <1>15, <1>16, <1>17, <1>18, <1>19, <1>20, <1>21, <1>22, <1>23 DEF Next, MonitorStep, CloseStep, CallerStep

\* Every step keeps the state about the connection it describes.
LEMMA StateStep ==
    ASSUME ConnectionInv, StateInv, [Next]_vars PROVE StateInv'
PROOF
<1> USE ConstantsOK DEF ConnectionInv, TypeOK, Conn, ClientState, OneOpen, StateInv, Described, StateFollowsConnection, GaveUpMeansDown, BlockedByBroker
<1>1. ASSUME MonitorEnds PROVE StateInv'
  BY <1>1 DEF MonitorEnds, connVars, closeVars, monitorVars, stateVars, noticeVars
<1>2. ASSUME ConnectionLost PROVE StateInv'
  BY <1>2 DEF ConnectionLost, connVars, closeVars, monitorVars, stateVars, noticeVars
<1>3. ASSUME ReconnectStops PROVE StateInv'
  BY <1>3 DEF ReconnectStops, connVars, closeVars, monitorVars, stateVars, noticeVars
<1>4. ASSUME GiveUp PROVE StateInv'
  BY <1>4 DEF GiveUp, connVars, closeVars, monitorVars, stateVars, noticeVars
<1>5. ASSUME DelayElapsed PROVE StateInv'
  BY <1>5 DEF DelayElapsed, connVars, closeVars, monitorVars, stateVars, noticeVars
<1>6. ASSUME DialStarts PROVE StateInv'
  BY <1>6 DEF DialStarts, connVars, closeVars, monitorVars, stateVars, noticeVars
<1>7. ASSUME DialFails PROVE StateInv'
  BY <1>7 DEF DialFails, connVars, closeVars, monitorVars, stateVars, noticeVars
<1>8. ASSUME DialSucceeds PROVE StateInv'
  <2>1. stateConn = conn /\ conn \in Nat /\ conn' = conn + 1 /\ conn + 1 \in Conn
    BY <1>8 DEF DialSucceeds
  <2>2. watcher[conn + 1] \notin {"watching", "done"}
    BY <2>1
  <2>3. /\ \A c \in Conn : c # conn + 1 => open'[c] = open[c]
        /\ UNCHANGED <<stateVars, noticeVars>> /\ monitor' = "marking"
    BY <1>8 DEF DialSucceeds
  <2>4. UNCHANGED <<state, stateConn, watcher, blocks, wasBlocked>> /\ stateConn # conn + 1
    BY <2>1, <2>3 DEF stateVars, noticeVars
  <2>5. StateFollowsConnection' /\ GaveUpMeansDown' /\ BlockedByBroker'
    BY <2>1, <2>3, <2>4
  <2>6. conn' = conn + 1 /\ Conn' = Conn
    BY <2>1
  <2>7. (monitor = "marking" <=> stateConn # conn)'
    BY <2>3, <2>4, <2>6
  <2>8. (\A c \in Conn : blocks[c] # <<>> => c \in wasBlocked)' /\ (watcher[stateConn] # "none")'
    BY <2>4
  <2>9. \A c \in Conn : watcher[c] # "none" => c <= conn + 1
    BY <2>1
  <2>10. (\A c \in Conn : watcher[c] # "none" => c <= conn)'
    BY <2>4, <2>6, <2>9
  <2>11. (\A c \in Conn : watcher[c] = "done" => ~open[c])'
    BY <2>2, <2>3, <2>4
  <2>12. Described'
    BY ONLY <2>7, <2>8, <2>10, <2>11 DEF Described
  <2> QED
    BY ONLY <2>5, <2>12 DEF StateInv
<1>9. ASSUME MarkConnected PROVE StateInv'
  BY <1>9 DEF MarkConnected, connVars, closeVars, monitorVars, stateVars, noticeVars
<1>10. ASSUME CountReconnect PROVE StateInv'
  BY <1>10 DEF CountReconnect, connVars, closeVars, monitorVars, stateVars, noticeVars
<1>11. ASSUME NEW c \in Conn, CloseNotified(c) PROVE StateInv'
  BY <1>11 DEF CloseNotified, connVars, closeVars, monitorVars, stateVars, noticeVars
<1>12. ASSUME NEW c \in Conn, BlockNotified(c) PROVE StateInv'
  BY <1>12 DEF BlockNotified, connVars, closeVars, monitorVars, stateVars, noticeVars
<1>13. ASSUME NEW x \in Closer, CloseCalled(x) PROVE StateInv'
  BY <1>13 DEF CloseCalled, connVars, closeVars, monitorVars, stateVars, noticeVars
<1>14. ASSUME NEW x \in Closer, CloseLocks(x) PROVE StateInv'
  BY <1>14 DEF CloseLocks, connVars, closeVars, monitorVars, stateVars, noticeVars
<1>15. ASSUME NEW x \in Closer, CloseConnection(x) PROVE StateInv'
  BY <1>15 DEF CloseConnection, connVars, closeVars, monitorVars, stateVars, noticeVars
<1>16. ASSUME NEW x \in Closer, CloseReturns(x) PROVE StateInv'
  BY <1>16 DEF CloseReturns, connVars, closeVars, monitorVars, stateVars, noticeVars
<1>17. ASSUME NEW u \in Caller, RLock(u) PROVE StateInv'
  BY <1>17 DEF RLock, connVars, closeVars, monitorVars, stateVars, noticeVars
<1>18. ASSUME NEW u \in Caller, TryRLockFails(u) PROVE StateInv'
  BY <1>18 DEF TryRLockFails, connVars, closeVars, monitorVars, stateVars, noticeVars
<1>19. ASSUME NEW u \in Caller, OpenChannel(u) PROVE StateInv'
  BY <1>19 DEF OpenChannel, connVars, closeVars, monitorVars, stateVars, noticeVars
<1>20. ASSUME ConnectionDies PROVE StateInv'
  BY <1>20 DEF ConnectionDies, connVars, closeVars, monitorVars, stateVars, noticeVars
<1>21. ASSUME NEW active \in BOOLEAN, BrokerBlocks(active) PROVE StateInv'
  BY <1>21 DEF BrokerBlocks, connVars, closeVars, monitorVars, stateVars, noticeVars
<1>22. ASSUME UNCHANGED vars PROVE StateInv'
  BY <1>22 DEF vars, connVars, closeVars, monitorVars, stateVars, noticeVars
<1>23. ASSUME AttemptBegins PROVE StateInv'
  BY <1>23 DEF AttemptBegins, connVars, closeVars, monitorVars, stateVars, noticeVars
<1> QED
  BY <1>1, <1>2, <1>3, <1>4, <1>5, <1>6, <1>7, <1>8, <1>9, <1>10, <1>11, <1>12, <1>13, <1>14, <1>15, <1>16, <1>17, <1>18, <1>19, <1>20, <1>21, <1>22, <1>23 DEF Next, MonitorStep, CloseStep, CallerStep

-------------------------------------------------------------------------------
\* The invariant holds at the start.
LEMMA Start == Init => ConnectionInv /\ StateInv
PROOF
<1> SUFFICES ASSUME Init PROVE ConnectionInv /\ StateInv
  OBVIOUS
<1>1. TypeOK
  <2>1. 1 \in Conn /\ 0 \in 0 .. MaxReconnectAttempts
    BY ConstantsOK DEF Conn
  <2>2. state \in ClientState
    BY DEF Init, ClientState
  <2>3. blocks \in [Conn -> Seq(BOOLEAN)]
    BY DEF Init
  <2>4. open \in [Conn -> BOOLEAN] /\ watcher \in [Conn -> {"none", "watching", "done"}]
    BY DEF Init
  <2> QED
    BY <2>1, <2>2, <2>3, <2>4 DEF Init, TypeOK
<1>2. Exclusive /\ OneOpen /\ CloseHolds
  BY ConstantsOK DEF Init, Exclusive, OneOpen, CloseHolds, Conn
<1>3. StateInv
  BY ConstantsOK DEF Init, StateInv, Described, StateFollowsConnection, GaveUpMeansDown,
                     BlockedByBroker, Conn
<1> QED
  BY <1>1, <1>2, <1>3 DEF ConnectionInv

\* The invariant holds always.
LEMMA Always == Spec => [](ConnectionInv /\ StateInv)
PROOF
<1>1. ConnectionInv /\ StateInv /\ [Next]_vars => (ConnectionInv /\ StateInv)'
  BY TypeStep, ExclusiveStep, OneOpenStep, CloseStepHolds, StateStep DEF ConnectionInv
<1> QED
  BY Start, <1>1, PTL DEF Spec

\* Every reachable state of the client is well typed; attempts stay within the limit
\* (handleReconnection).
THEOREM TypeCorrect == Spec => []TypeOK
PROOF
<1>1. ConnectionInv => TypeOK
  BY DEF ConnectionInv
<1> QED
  BY Always, <1>1, PTL

\* What State() reports of Connected follows the latest recorded connection, whatever the
\* listeners of older ones do (markConnected).
THEOREM StateCorrect == Spec => []StateFollowsConnection
PROOF
<1>1. StateInv => StateFollowsConnection
  BY DEF StateInv
<1> QED
  BY Always, <1>1, PTL

\* GaveUp is never reported next to a live connection (handleReconnection).
THEOREM GaveUpCorrect == Spec => []GaveUpMeansDown
PROOF
<1>1. StateInv => GaveUpMeansDown
  BY DEF StateInv
<1> QED
  BY Always, <1>1, PTL

\* Blocked is never taken over from a connection that was replaced (markConnected).
THEOREM BlockedCorrect == Spec => []BlockedByBroker
PROOF
<1>1. StateInv => BlockedByBroker
  BY DEF StateInv
<1> QED
  BY Always, <1>1, PTL

\* Close is final: nothing is open or opened after it has closed the connection, and it does
\* not return before the monitor has ended (Client.Close).
THEOREM CloseCorrect == Spec => []ClosedForGood
PROOF
<1>1. ConnectionInv => ClosedForGood
  <2> SUFFICES ASSUME ConnectionInv, NEW x \in Closer
               PROVE  /\ closer[x] \in {"waiting", "done"} => \A c \in Conn : ~open[c]
                      /\ closer[x] = "done" => monitor = "ended"
    BY DEF ClosedForGood
  <2>1. closer[x] \in {"waiting", "done"} => \A c \in Conn : ~open[c]
    BY DEF ConnectionInv, CloseHolds, OneOpen
  <2>2. closer[x] = "done" => monitor = "ended"
    BY DEF ConnectionInv, CloseHolds
  <2> QED
    BY <2>1, <2>2
<1> QED
  BY Always, <1>1, PTL

\* A channel is only ever handed out of the current connection, with no Close begun and no
\* dial under way (getChannel).
THEOREM ChannelsCorrect == Spec => ChannelsWhileConnected
PROOF
<1>1. ASSUME ConnectionInv, [Next]_vars, NEW u \in Caller,
             caller'[u] = "channel", caller[u] # "channel"
      PROVE  ~closed /\ open[conn] /\ connMu = None
  <2>1. PICK v \in Caller : CallerStep(v)
    BY <1>1 DEF Next, vars, closeVars, MonitorStep, CloseStep, ConnectionInv, TypeOK,
        MonitorEnds, ConnectionLost, ReconnectStops, AttemptBegins, GiveUp, DelayElapsed, DialStarts, DialFails,
        DialSucceeds, MarkConnected, CountReconnect, CloseNotified, BlockNotified, CloseCalled,
        CloseLocks, CloseConnection, CloseReturns, ConnectionDies, BrokerBlocks
  <2>2. OpenChannel(v) /\ v = u
    BY <1>1, <2>1 DEF CallerStep, RLock, TryRLockFails, OpenChannel, ConnectionInv, TypeOK
  <2> QED
    BY <1>1, <2>2 DEF OpenChannel, ConnectionInv, TypeOK, Exclusive
<1>2. ConnectionInv /\ [Next]_vars =>
        [\A u \in Caller : caller'[u] = "channel" /\ caller[u] # "channel" =>
            ~closed /\ open[conn] /\ connMu = None]_vars
  BY <1>1
<1> QED
  BY Always, <1>2, PTL DEF Spec, ChannelsWhileConnected
===============================================================================
