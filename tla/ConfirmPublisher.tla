--------------------------- MODULE ConfirmPublisher ---------------------------
(***************************************************************************)
(* The delivery-assured publisher of publisher.go: publishTracked and its  *)
(* retry loop, the confirm and return readers of each channel generation,  *)
(* the timers, the orphan sweep, automatic retries, the hot swap of a dead *)
(* channel (by a publish or by the keeper of publisher_health.go) and      *)
(* Close.  The pending map is pending_map.go's.                            *)
(*                                                                         *)
(* A process <<c, r>> runs publishWithDeliveryAssurance for call c: r = 0  *)
(* is the user's own call, r > 0 the goroutine of c's r-th automatic       *)
(* retry.  Each attempt of a process has a pendingMessage of its own.      *)
(* AutoReconnect is on and the client stays open.                          *)
(***************************************************************************)
EXTENDS Integers, Sequences, FiniteSets

CONSTANTS
    Call,                  \* calls of PublishWithDeliveryAssurance
    MsgId,                 \* message IDs
    IdOf,                  \* the message ID of each call
    Mandatory,             \* the calls published with the mandatory flag
    OwnCallback,           \* the calls with options.Callback (others: default)
    MaxRetryAttempts,      \* WithPublisherRetry; 0: automatic retries are off
    MaxConnectionRetries,  \* WithPublisherConnectionRetry; 0 (unlimited) is not modelled
    MaxGen,                \* bound: channel generations installed
    Expiring,              \* bound: the calls whose timers may expire
    LongTimeouts,          \* whether a delivery timeout outlasts storing its message
    Cancellable,           \* bound: the calls whose context may end
    MayClose,              \* bound: whether Close may be called
    Keeper,                \* the keeper goroutine
    None

ASSUME ConstantsOK ==
    /\ IdOf \in [Call -> MsgId]
    /\ Mandatory \subseteq Call
    /\ OwnCallback \subseteq Call
    /\ MaxRetryAttempts \in Nat
    /\ MaxConnectionRetries \in Nat \ {0}
    /\ MaxGen \in Nat \ {0}
    /\ MayClose \in BOOLEAN
    /\ LongTimeouts \in BOOLEAN
    /\ IsFiniteSet(Call)

ASSUME SentinelsOK ==
    /\ Keeper \notin Call \X Nat
    /\ None \notin (Call \X Nat) \X Nat
    /\ None \notin Call \X Nat
    /\ None # Keeper

Proc == Call \X (0 .. MaxRetryAttempts)
Refresher == Proc \cup {Keeper}
Attempt == 0 .. MaxConnectionRetries
Pending == Proc \X Attempt
Gen == 1 .. MaxGen

CallOf(o) == o[1][1]
RetryOf(o) == o[1][2]
IdOfMsg(o) == IdOf[CallOf(o)]

VARIABLES
    pend,       \* the pendingMessage of each attempt
    byId,       \* shardedPendingMap.byMessageID
    byTag,      \* the messages in shardedPendingMap.byDeliveryTag, each under its own key
    gens,       \* the confirmGenerations, each with the broker's side of its channel
    cur,        \* confirmGen (= genCounter: the last one installed is current)
    publishMu,  \* holder of publishMu, or None
    refreshMu,  \* holder of refreshMu, or None
    fresh,      \* the channel opened by refreshMu's holder: "none", "open", "shut"
    pc,         \* where each process, and the keeper, is
    attempt,    \* the attempt each process is making
    failed,     \* the generation each refresher wants replaced
    ctxDone,    \* calls whose context has ended
    callbacks,  \* how often each call's callback was invoked
    stats,      \* DeliveryStats' totals
    closed,     \* "no", "closing" (Close is running), "yes" (it has returned)
    closeChan   \* Close's barrier goroutine: "idle", "pending", "done"

msgVars == <<pend, byId, byTag>>
chanVars == <<gens, cur>>
lockVars == <<publishMu, refreshMu, fresh>>
procVars == <<pc, attempt, failed>>
userVars == <<ctxDone, callbacks>>
closeVars == <<closed, closeChan>>
vars == <<msgVars, chanVars, lockVars, procVars, userVars, stats, closeVars>>

-------------------------------------------------------------------------------
\* Types

TimerState == {"off", "armed", "firing"}
Counted == {"confirmed", "returned", "nacked", "timedOut", "orphaned"}
Outcome == Counted \cup {"none"}

PendingMessage ==
    [gen : 0 .. MaxGen, tag : Nat,
     inFlight : BOOLEAN, orphanDeferred : BOOLEAN, timeoutDeferred : BOOLEAN,
     Confirmed : BOOLEAN, Nacked : BOOLEAN, Returned : BOOLEAN,
     CallbackFired : BOOLEAN, FinalOutcome : Outcome,
     timer : TimerState, grace : TimerState,
     finish : {"no", "pending", "done"}]

Generation ==
    [open : BOOLEAN, published : Nat, sent : Seq(Call),
     verdicts : Seq(BOOLEAN), bounced : SUBSET Nat,
     handled : Nat, returns : Seq(MsgId), dead : BOOLEAN,
     confirmReader : {"none", "running", "marked", "done"},
     returnReader : {"none", "running", "done"},
     orphans : SUBSET Pending]

NewPending ==
    [gen |-> 0, tag |-> 0, inFlight |-> FALSE, orphanDeferred |-> FALSE,
     timeoutDeferred |-> FALSE, Confirmed |-> FALSE, Nacked |-> FALSE, Returned |-> FALSE,
     CallbackFired |-> FALSE, FinalOutcome |-> "none", timer |-> "off", grace |-> "off",
     finish |-> "no"]

NoGeneration ==
    [open |-> FALSE, published |-> 0, sent |-> <<>>, verdicts |-> <<>>, bounced |-> {},
     handled |-> 0, returns |-> <<>>, dead |-> FALSE, confirmReader |-> "none",
     returnReader |-> "none", orphans |-> {}]

InstalledGeneration(isOpen) ==
    [NoGeneration EXCEPT !.open = isOpen, !.confirmReader = "running", !.returnReader = "running"]

-------------------------------------------------------------------------------
\* Init is the state initDeliveryAssurance leaves: generation 1 installed, its readers and
\* the keeper started.

Init ==
    /\ pend = [o \in Pending |-> NewPending]
    /\ byId = [m \in MsgId |-> None]
    /\ byTag = {}
    /\ gens = [g \in Gen |-> IF g = 1 THEN InstalledGeneration(TRUE) ELSE NoGeneration]
    /\ cur = 1
    /\ publishMu = None
    /\ refreshMu = None
    /\ fresh = "none"
    /\ pc = [p \in Refresher |-> IF p = Keeper THEN "watch"
                                 ELSE IF p[2] = 0 THEN "publish" ELSE "idle"]
    /\ attempt = [p \in Proc |-> 0]
    /\ failed = [p \in Refresher |-> 0]
    /\ ctxDone = {}
    /\ callbacks = [c \in Call |-> 0]
    /\ stats = [s \in Counted \cup {"published"} |-> 0]
    /\ closed = "no"
    /\ closeChan = "idle"

-------------------------------------------------------------------------------
\* Operations on one message and on the pending map

\* deliveryKey: the broker's tag, qualified by the channel generation.
KeyOf(o) == <<pend[o].gen, pend[o].tag>>

\* Faulty: the broker's tag alone, which restarts at 1 on every channel.
AtKeyOfAnyGeneration(k) == {o \in byTag : pend[o].tag = k[2]}

\* shardedPendingMap.LoadByDeliveryTag: the entry under a key, if there is one.
AtKey(k) == {o \in byTag : KeyOf(o) = k}

\* The attempt process p is making.
Current(p) == <<p, attempt[p]>>

\* Timer.Stop on TimeoutTimer, which is the timeout's timer or, once it was replaced, the
\* grace timer: a timer whose function has already started is not stopped.
StopTimer(m) ==
    [m EXCEPT !.timer = IF @ = "armed" THEN "off" ELSE @,
              !.grace = IF @ = "armed" THEN "off" ELSE @]

\* shardedPendingMap.Delete: the ID's entry goes, whichever message it holds.
Delete(o) ==
    /\ byId' = [byId EXCEPT ![IdOfMsg(o)] = None]
    /\ byTag' = byTag \ AtKey(KeyOf(o))

\* Claim the message's outcome; finishAsync completes it.
Claim(m, outcome) ==
    [StopTimer(m) EXCEPT !.CallbackFired = TRUE, !.FinalOutcome = outcome, !.finish = "pending"]

\* Faulty: one retry more than there are.
RetriesOnceMore(o, m) == m.Nacked /\ RetryOf(o) <= MaxRetryAttempts

\* shouldRetry: a nacked message is published again while attempts are left.
Retries(o, m) == m.Nacked /\ RetryOf(o) < MaxRetryAttempts

\* tryFinalizeMessage on message o, whose fields are m: what it leaves in o, counts and starts.
\* "none": a mandatory message confirmed and not returned yet waits out the grace period.
FinalOutcome(o, m) ==
    CASE m.Nacked -> "nacked"
      [] ~m.Nacked /\ m.Returned -> "returned"
      [] ~m.Nacked /\ ~m.Returned /\ m.Confirmed /\ CallOf(o) \notin Mandatory -> "confirmed"
      [] OTHER -> "none"

\* Faulty: a confirmed mandatory message loses its timer and gets no grace period.
FinalizedWithoutGrace(o, m) ==
    IF m.CallbackFired THEN m
    ELSE IF FinalOutcome(o, m) = "none" THEN StopTimer(m)
    ELSE [Claim(m, FinalOutcome(o, m)) EXCEPT !.finish = IF Retries(o, m) THEN "no" ELSE "pending"]

Finalized(o, m) ==
    IF m.CallbackFired THEN m
    ELSE IF FinalOutcome(o, m) = "none" THEN [StopTimer(m) EXCEPT !.grace = "armed"]
    ELSE [Claim(m, FinalOutcome(o, m)) EXCEPT !.finish = IF Retries(o, m) THEN "no" ELSE "pending"]

Counting(outcome) == [stats EXCEPT ![outcome] = @ + 1]

\* Faulty: the statistics are updated before the look at CallbackFired.
TryFinalizeCountingFirst(o, m) ==
    /\ pend' = [pend EXCEPT ![o] = Finalized(o, m)]
    /\ stats' = IF FinalOutcome(o, m) = "none" THEN stats ELSE Counting(FinalOutcome(o, m))
    /\ pc' = IF ~m.CallbackFired /\ Retries(o, m)
             THEN [pc EXCEPT ![<<CallOf(o), RetryOf(o) + 1>>] = "backoff"]
             ELSE pc

TryFinalizeMessage(o, m) ==
    /\ pend' = [pend EXCEPT ![o] = Finalized(o, m)]
    /\ stats' = IF m.CallbackFired \/ FinalOutcome(o, m) = "none" THEN stats
                ELSE Counting(FinalOutcome(o, m))
    /\ pc' = IF ~m.CallbackFired /\ Retries(o, m)
             THEN [pc EXCEPT ![<<CallOf(o), RetryOf(o) + 1>>] = "backoff"]
             ELSE pc

-------------------------------------------------------------------------------
\* publishWithDeliveryAssurance and publishTracked

\* Faulty: the callback is told about the user's own call too.
FailTellingTwice(p) ==
    /\ pc' = [pc EXCEPT ![p] = "error"]
    /\ callbacks' = [callbacks EXCEPT ![p[1]] = @ + 1]

\* The call returns an error. The user's call just returns it; a retry reports it to
\* options.Callback, which is not set when the message used the default callback.
Fail(p) ==
    /\ pc' = [pc EXCEPT ![p] = "error"]
    /\ callbacks' = IF p[2] > 0 /\ p[1] \in OwnCallback
                    THEN [callbacks EXCEPT ![p[1]] = @ + 1] ELSE callbacks

\* An error isChannelError recognises: wait out the reconnect delay, then refresh.
ChannelError(p) ==
    /\ pc' = [pc EXCEPT ![p] = "delay"]
    /\ failed' = [failed EXCEPT ![p] = cur]
    /\ UNCHANGED callbacks

\* publishTracked finds the publisher closed, or the context ended on an open channel.
PublishRejected(p) ==
    /\ pc[p] = "publish"
    /\ publishMu = None
    /\ closed # "no" \/ (gens[cur].open /\ p[1] \in ctxDone)
    /\ Fail(p)
    /\ UNCHANGED <<msgVars, chanVars, lockVars, attempt, failed, ctxDone, stats, closeVars>>

PublishChannelClosed(p) ==
    /\ pc[p] = "publish"
    /\ publishMu = None
    /\ closed = "no"
    /\ ~gens[cur].open
    /\ ChannelError(p)
    /\ UNCHANGED <<msgVars, chanVars, lockVars, attempt, ctxDone, stats, closeVars>>

\* Past the checks: the attempt gets its key and its timer, and publishMu is held.
PublishEnter(p) ==
    /\ pc[p] = "publish"
    /\ publishMu = None
    /\ closed = "no"
    /\ gens[cur].open
    /\ p[1] \notin ctxDone
    /\ publishMu' = p
    /\ pend' = [pend EXCEPT ![Current(p)] =
                  [NewPending EXCEPT !.gen = cur, !.tag = gens[cur].published + 1,
                                     !.inFlight = TRUE, !.timer = "armed"]]
    /\ pc' = [pc EXCEPT ![p] = "entered"]
    /\ UNCHANGED <<byId, byTag, chanVars, refreshMu, fresh, attempt, failed, userVars,
                   stats, closeVars>>

\* Under gen.mu: refuse a dead generation, then Store refuses an ID that is pending.
RegisterRefused(p) ==
    /\ pc[p] = "entered"
    /\ gens[cur].dead \/ byId[IdOf[p[1]]] # None
    /\ IF gens[cur].dead THEN ChannelError(p) ELSE Fail(p) /\ UNCHANGED failed
    /\ pend' = [pend EXCEPT ![Current(p)] = StopTimer(@)]
    /\ publishMu' = None
    /\ UNCHANGED <<byId, byTag, chanVars, refreshMu, fresh, attempt, ctxDone, stats, closeVars>>

\* Faulty: registers without a look at dead.
RegisterOnDead(p) ==
    /\ pc[p] = "entered"
    /\ byId[IdOf[p[1]]] = None
    /\ byId' = [byId EXCEPT ![IdOf[p[1]]] = Current(p)]
    /\ byTag' = (byTag \ AtKey(KeyOf(Current(p)))) \cup {Current(p)}
    /\ stats' = Counting("published")
    /\ pc' = [pc EXCEPT ![p] = "sending"]
    /\ UNCHANGED <<pend, chanVars, lockVars, attempt, failed, userVars, closeVars>>

Register(p) ==
    /\ pc[p] = "entered"
    /\ ~gens[cur].dead
    /\ byId[IdOf[p[1]]] = None
    /\ byId' = [byId EXCEPT ![IdOf[p[1]]] = Current(p)]
    /\ byTag' = (byTag \ AtKey(KeyOf(Current(p)))) \cup {Current(p)}
    /\ stats' = Counting("published")
    /\ pc' = [pc EXCEPT ![p] = "sending"]
    /\ UNCHANGED <<pend, chanVars, lockVars, attempt, failed, userVars, closeVars>>

\* The frames reach the broker, which numbers the channel's publishes itself.
SendReachesBroker(p) ==
    /\ pc[p] = "sending"
    /\ gens[cur].open
    /\ gens' = [gens EXCEPT ![cur].sent = Append(@, p[1])]
    /\ pc' = [pc EXCEPT ![p] = "sent"]
    /\ UNCHANGED <<msgVars, cur, lockVars, attempt, failed, userVars, stats, closeVars>>

\* Nobody has decided the message's outcome yet.
Undecided(m) == ~(m.CallbackFired \/ m.Confirmed \/ m.Nacked \/ m.Returned)

\* Faulty: the publish does not use up its delivery tag.
SendSucceedsUncounted(p) ==
    LET o == Current(p)
    IN  /\ pc[p] = "sent" \/ (pc[p] = "sending" /\ ~gens[cur].open)
        /\ pend' = [pend EXCEPT ![o].inFlight = FALSE]
        /\ publishMu' = None
        /\ pc' = [pc EXCEPT ![p] = "nil"]
        /\ UNCHANGED <<byId, byTag, chanVars, refreshMu, fresh, attempt, failed, userVars,
                       stats, closeVars>>

\* basic.publish returned nil; on a channel that died meanwhile the message may be lost.
\* An orphan sweep or a timeout that was deferred to us is settled now (handleTimeout finds
\* the message by its key, settleOrphan has it at hand).
SendSucceeds(p) ==
    LET o == Current(p)
        m == [pend[o] EXCEPT !.inFlight = FALSE]
        orphan == m.orphanDeferred /\ Undecided(m)
        timeout == ~m.orphanDeferred /\ m.timeoutDeferred /\ Undecided(m) /\ o \in byTag
    IN  /\ pc[p] = "sent" \/ (pc[p] = "sending" /\ ~gens[cur].open)
        /\ pend' = [pend EXCEPT ![o] = IF orphan THEN Claim(m, "orphaned")
                                       ELSE IF timeout THEN Claim(m, "timedOut") ELSE m]
        /\ stats' = IF orphan THEN Counting("orphaned")
                    ELSE IF timeout THEN Counting("timedOut") ELSE stats
        /\ gens' = [gens EXCEPT ![cur].published = @ + 1]
        /\ publishMu' = None
        /\ pc' = [pc EXCEPT ![p] = "nil"]
        /\ UNCHANGED <<byId, byTag, cur, refreshMu, fresh, attempt, failed, userVars, closeVars>>

\* basic.publish returned an error and nothing was sent: on an open channel not a channel
\* error (bad headers), on a closed one ErrClosed or a bare socket error.
SendFails(p) ==
    /\ pc[p] = "sending"
    /\ \/ Fail(p) /\ UNCHANGED failed
       \/ ~gens[cur].open /\ ChannelError(p)
    /\ pend' = [pend EXCEPT ![Current(p)] =
                  [StopTimer(@) EXCEPT !.inFlight = FALSE, !.CallbackFired = TRUE]]
    /\ Delete(Current(p))
    /\ stats' = [stats EXCEPT !["published"] = @ - 1]
    /\ publishMu' = None
    /\ UNCHANGED <<chanVars, refreshMu, fresh, attempt, ctxDone, closeVars>>

\* During the delay the context ends, or ReconnectPolicy allows no further retry.
GiveUp(p) ==
    /\ pc[p] = "delay"
    /\ Fail(p)
    /\ UNCHANGED <<msgVars, chanVars, lockVars, attempt, failed, ctxDone, stats, closeVars>>

\* Faulty: one attempt too many.
NextAttemptTooMany(p) ==
    /\ pc[p] = "refreshed"
    /\ IF attempt[p] <= MaxConnectionRetries
       THEN /\ attempt' = [attempt EXCEPT ![p] = @ + 1]
            /\ pc' = [pc EXCEPT ![p] = "publish"]
            /\ UNCHANGED callbacks
       ELSE Fail(p) /\ UNCHANGED attempt
    /\ UNCHANGED <<msgVars, chanVars, lockVars, failed, ctxDone, stats, closeVars>>

\* The loop's next round, after the refresh succeeded or not.
NextAttempt(p) ==
    /\ pc[p] = "refreshed"
    /\ IF attempt[p] < MaxConnectionRetries
       THEN /\ attempt' = [attempt EXCEPT ![p] = @ + 1]
            /\ pc' = [pc EXCEPT ![p] = "publish"]
            /\ UNCHANGED callbacks
       ELSE Fail(p) /\ UNCHANGED attempt
    /\ UNCHANGED <<msgVars, chanVars, lockVars, failed, ctxDone, stats, closeVars>>

\* retryMessage after its delay: the nacked attempt's entry makes way for the republish.
RetryRepublish(p) ==
    /\ p[2] > 0
    /\ pc[p] = "backoff"
    /\ Delete(Current(<<p[1], p[2] - 1>>))
    /\ pc' = [pc EXCEPT ![p] = "publish"]
    /\ UNCHANGED <<pend, chanVars, lockVars, attempt, failed, userVars, stats, closeVars>>

-------------------------------------------------------------------------------
\* refreshConfirmChannelOpt, by a publish (blocking) or by the keeper (non-blocking)

\* Where a refresher goes on: a process with its next attempt, the keeper with its loop.
AfterRefresh(r) == IF r = Keeper THEN "watch" ELSE "refreshed"

\* Faulty: replaces whatever generation is current.
StillFailedAlways(r) == r \in Refresher

StillFailed(r) == cur = failed[r]

\* Faulty: does not look at closed again.
InstallableAfterClose(r) == StillFailed(r)

\* The checks made again under publishMu, when the new channel is ready.
Installable(r) == closed = "no" /\ StillFailed(r)

\* Publisher closed, or somebody has replaced the failed generation: nothing to do.
RefreshSkip(r) ==
    /\ pc[r] = "delay"
    /\ closed # "no" \/ ~StillFailed(r)
    /\ pc' = [pc EXCEPT ![r] = AfterRefresh(r)]
    /\ UNCHANGED <<msgVars, chanVars, lockVars, attempt, failed, userVars, stats, closeVars>>

RefreshLock(r) ==
    /\ pc[r] = "delay"
    /\ closed = "no"
    /\ StillFailed(r)
    /\ refreshMu = None
    /\ cur < MaxGen
    /\ refreshMu' = r
    /\ pc' = [pc EXCEPT ![r] = "opening"]
    /\ UNCHANGED <<msgVars, chanVars, publishMu, fresh, attempt, failed, userVars, stats, closeVars>>

RefreshOpen(r) ==
    /\ pc[r] = "opening"
    /\ closed = "no"
    /\ fresh' = "open"
    /\ pc' = [pc EXCEPT ![r] = "installing"]
    /\ UNCHANGED <<msgVars, chanVars, publishMu, refreshMu, attempt, failed, userVars, stats,
                   closeVars>>

\* getChannel or Confirm fails, or the publisher was closed meanwhile.
RefreshFails(r) ==
    /\ pc[r] = "opening"
    /\ refreshMu' = None
    /\ pc' = [pc EXCEPT ![r] = AfterRefresh(r)]
    /\ UNCHANGED <<msgVars, chanVars, publishMu, fresh, attempt, failed, userVars, stats, closeVars>>

\* installConfirmGenerationLocked, unless closed or replaced meanwhile: then the new channel
\* is closed again.
RefreshInstall(r) ==
    /\ pc[r] = "installing"
    /\ publishMu = None
    /\ IF Installable(r)
       THEN /\ cur' = cur + 1
            /\ gens' = [gens EXCEPT ![cur + 1] = InstalledGeneration(fresh = "open")]
            /\ pc' = [pc EXCEPT ![r] = "closeOld"]
       ELSE /\ pc' = [pc EXCEPT ![r] = AfterRefresh(r)]
            /\ UNCHANGED chanVars
    /\ refreshMu' = None
    /\ fresh' = "none"
    /\ UNCHANGED <<msgVars, publishMu, attempt, failed, userVars, stats, closeVars>>

RefreshCloseOld(r) ==
    /\ pc[r] = "closeOld"
    /\ gens' = [gens EXCEPT ![failed[r]].open = FALSE]
    /\ pc' = [pc EXCEPT ![r] = AfterRefresh(r)]
    /\ UNCHANGED <<msgVars, cur, lockVars, attempt, failed, userVars, stats, closeVars>>

\* runConfirmKeeper: the current generation's return reader has exited.
KeeperWakes ==
    /\ pc[Keeper] = "watch"
    /\ closed = "no"
    /\ gens[cur].returnReader = "done"
    /\ pc' = [pc EXCEPT ![Keeper] = "delay"]
    /\ failed' = [failed EXCEPT ![Keeper] = cur]
    /\ UNCHANGED <<msgVars, chanVars, lockVars, attempt, userVars, stats, closeVars>>

-------------------------------------------------------------------------------
\* The readers of generation g

HandleConfirmation(g) ==
    LET tag == gens[g].handled + 1
        ack == gens[g].verdicts[tag]
    IN  /\ gens[g].confirmReader = "running"
        /\ tag <= Len(gens[g].verdicts)
        /\ gens' = [gens EXCEPT ![g].handled = tag]
        /\ \/ AtKey(<<g, tag>>) = {} /\ UNCHANGED <<pend, stats, pc>>
           \/ \E o \in AtKey(<<g, tag>>) :
                TryFinalizeMessage(o, [pend[o] EXCEPT !.Confirmed = @ \/ ack, !.Nacked = @ \/ ~ack])
        /\ UNCHANGED <<byId, byTag, cur, lockVars, attempt, failed, userVars, closeVars>>

\* Returns carry no tag: the message is looked up by its ID.
HandleReturn(g) ==
    LET o == byId[Head(gens[g].returns)]
    IN  /\ gens[g].returnReader = "running"
        /\ gens[g].returns # <<>>
        /\ gens' = [gens EXCEPT ![g].returns = Tail(@)]
        /\ IF o = None THEN UNCHANGED <<pend, stats, pc>>
           ELSE IF pend[o].CallbackFired THEN UNCHANGED <<pend, stats, pc>>
           ELSE TryFinalizeMessage(o, [pend[o] EXCEPT !.Returned = TRUE])
        /\ UNCHANGED <<byId, byTag, cur, lockVars, attempt, failed, userVars, closeVars>>

\* runReturnReader ends: its channel closed and drained, or shutdown (with returns queued).
ReturnReaderExits(g) ==
    /\ gens[g].returnReader = "running"
    /\ closed # "no" \/ (~gens[g].open /\ gens[g].returns = <<>>)
    /\ gens' = [gens EXCEPT ![g].returnReader = "done"]
    /\ UNCHANGED <<msgVars, cur, lockVars, procVars, userVars, stats, closeVars>>

ConfirmReaderStops(g) ==
    /\ gens[g].confirmReader = "running"
    /\ closed # "no"
    /\ gens' = [gens EXCEPT ![g].confirmReader = "done"]
    /\ UNCHANGED <<msgVars, cur, lockVars, procVars, userVars, stats, closeVars>>

\* Faulty: does not drain the confirms that are queued.
MarkDeadEarly(g) ==
    /\ gens[g].confirmReader = "running"
    /\ ~gens[g].open
    /\ gens[g].returnReader = "done"
    /\ closed = "no"
    /\ gens' = [gens EXCEPT ![g].confirmReader = "marked", ![g].dead = TRUE]
    /\ UNCHANGED <<msgVars, cur, lockVars, procVars, userVars, stats, closeVars>>

\* failOrphans: the confirms are drained and the returns handled, so mark g dead ...
MarkDead(g) ==
    /\ gens[g].confirmReader = "running"
    /\ ~gens[g].open
    /\ gens[g].handled = Len(gens[g].verdicts)
    /\ gens[g].returnReader = "done"
    /\ closed = "no"
    /\ gens' = [gens EXCEPT ![g].confirmReader = "marked", ![g].dead = TRUE]
    /\ UNCHANGED <<msgVars, cur, lockVars, procVars, userVars, stats, closeVars>>

\* ... and collect what the pending map still holds of it ...
CollectOrphans(g) ==
    /\ gens[g].confirmReader = "marked"
    /\ gens' = [gens EXCEPT ![g].confirmReader = "done",
                  ![g].orphans = {o \in Pending : byId[IdOfMsg(o)] = o /\ pend[o].gen = g}]
    /\ UNCHANGED <<msgVars, cur, lockVars, procVars, userVars, stats, closeVars>>

\* Faulty: settles a message whose send has not returned.
SettleOrphanInFlight(g, o) ==
    LET m == pend[o]
    IN  /\ o \in gens[g].orphans
        /\ gens' = [gens EXCEPT ![g].orphans = @ \ {o}]
        /\ pend' = [pend EXCEPT ![o] = IF Undecided(m) THEN Claim(m, "orphaned") ELSE m]
        /\ stats' = IF Undecided(m) THEN Counting("orphaned") ELSE stats
        /\ UNCHANGED <<byId, byTag, cur, lockVars, procVars, userVars, closeVars>>

\* ... to settle it one by one, except what is decided, or left to its sender.
SettleOrphan(g, o) ==
    LET m == pend[o]
    IN  /\ o \in gens[g].orphans
        /\ gens' = [gens EXCEPT ![g].orphans = @ \ {o}]
        /\ pend' = [pend EXCEPT ![o] = IF ~Undecided(m) THEN m
                                       ELSE IF m.inFlight THEN [m EXCEPT !.orphanDeferred = TRUE]
                                       ELSE Claim(m, "orphaned")]
        /\ stats' = IF Undecided(m) /\ ~m.inFlight THEN Counting("orphaned") ELSE stats
        /\ UNCHANGED <<byId, byTag, cur, lockVars, procVars, userVars, closeVars>>

-------------------------------------------------------------------------------
\* Timers, each a step when it expires and a step when its function has run, and finishAsync

Expire(o) ==
    /\ CallOf(o) \in Expiring
    /\ \/ /\ pend[o].timer = "armed"
          /\ LongTimeouts => o # Current(o[1]) \/ pc[o[1]] # "entered"
          /\ pend' = [pend EXCEPT ![o].timer = "firing"]
       \/ /\ pend[o].grace = "armed"
          /\ pend' = [pend EXCEPT ![o].grace = "firing"]
    /\ UNCHANGED <<byId, byTag, chanVars, lockVars, procVars, userVars, stats, closeVars>>

\* handleTimeout for the key attempt o was given, which may hold another message by now.
HandleTimeout(o) ==
    LET ran == [pend EXCEPT ![o].timer = "off"]
    IN  /\ pend[o].timer = "firing"
        /\ \/ /\ \A t \in AtKey(KeyOf(o)) : pend[t].CallbackFired
              /\ pend' = ran
              /\ UNCHANGED stats
           \/ \E t \in AtKey(KeyOf(o)) :
                /\ ~pend[t].CallbackFired
                /\ pend[t].inFlight
                /\ pend' = [ran EXCEPT ![t].timeoutDeferred = TRUE]
                /\ UNCHANGED stats
           \/ \E t \in AtKey(KeyOf(o)) :
                /\ ~pend[t].CallbackFired
                /\ ~pend[t].inFlight
                /\ pend' = [ran EXCEPT ![t].CallbackFired = TRUE, ![t].FinalOutcome = "timedOut",
                                       ![t].finish = "pending"]
                /\ stats' = Counting("timedOut")
        /\ UNCHANGED <<byId, byTag, chanVars, lockVars, procVars, userVars, closeVars>>

\* handleMandatoryGracePeriodExpired: confirmed, and no return came.
HandleGraceExpired(o) ==
    LET ran == [pend EXCEPT ![o].grace = "off"]
        acts == o \in byTag /\ ~pend[o].CallbackFired /\ ~pend[o].Returned
    IN  /\ pend[o].grace = "firing"
        /\ pend' = IF acts THEN [ran EXCEPT ![o].CallbackFired = TRUE, ![o].FinalOutcome = "confirmed",
                                            ![o].finish = "pending"]
                   ELSE ran
        /\ stats' = IF acts THEN Counting("confirmed") ELSE stats
        /\ UNCHANGED <<byId, byTag, chanVars, lockVars, procVars, userVars, closeVars>>

\* finishAsync's goroutine: the entry goes first, then the callback runs.
Finish(o) ==
    /\ pend[o].finish = "pending"
    /\ pend' = [pend EXCEPT ![o].finish = "done"]
    /\ Delete(o)
    /\ callbacks' = [callbacks EXCEPT ![CallOf(o)] = @ + 1]
    /\ UNCHANGED <<chanVars, lockVars, procVars, ctxDone, stats, closeVars>>

-------------------------------------------------------------------------------
\* Close

CloseBegin ==
    /\ MayClose
    /\ closed = "no"
    /\ closed' = "closing"
    /\ closeChan' = "pending"
    /\ UNCHANGED <<msgVars, chanVars, lockVars, procVars, userVars, stats>>

\* The barrier: through publishMu, then close the channel that is current by then.
CloseConfirmChannel ==
    /\ closeChan = "pending"
    /\ publishMu = None
    /\ gens' = [gens EXCEPT ![cur].open = FALSE]
    /\ closeChan' = "done"
    /\ UNCHANGED <<msgVars, cur, lockVars, procVars, userVars, stats, closed>>

\* Both waits of Close are bounded, so it may go on before the barrier or the goroutines are
\* done. What is still in the map has its timer stopped and its callback dropped.
CloseReturns ==
    /\ closed = "closing"
    /\ closed' = "yes"
    /\ pend' = [o \in Pending |-> IF byId[IdOfMsg(o)] = o THEN StopTimer(pend[o]) ELSE pend[o]]
    /\ UNCHANGED <<byId, byTag, chanVars, lockVars, procVars, userVars, stats, closeChan>>

-------------------------------------------------------------------------------
\* The broker and the user

\* A channel dies alone or with its connection. (The last generation's does not: MaxGen.)
ChannelDies(g) ==
    /\ gens[g].open
    /\ cur < MaxGen
    /\ gens' = [gens EXCEPT ![g].open = FALSE]
    /\ UNCHANGED <<msgVars, cur, lockVars, procVars, userVars, stats, closeVars>>

FreshChannelDies ==
    /\ fresh = "open"
    /\ cur + 1 < MaxGen
    /\ fresh' = "shut"
    /\ UNCHANGED <<msgVars, chanVars, publishMu, refreshMu, procVars, userVars, stats, closeVars>>

NextTag(g) == Len(gens[g].verdicts) + 1

\* An unroutable mandatory message is returned, and acknowledged after that.
BrokerReturns(g) ==
    LET t == NextTag(g)
    IN  /\ gens[g].open
        /\ t <= Len(gens[g].sent)
        /\ gens[g].sent[t] \in Mandatory
        /\ t \notin gens[g].bounced
        /\ gens' = [gens EXCEPT ![g].bounced = @ \cup {t},
                                ![g].returns = Append(@, IdOf[gens[g].sent[t]])]
        /\ UNCHANGED <<msgVars, cur, lockVars, procVars, userVars, stats, closeVars>>

\* Listeners get the confirms in the order of their tags, whatever order the broker chose.
BrokerConfirms(g, ack) ==
    /\ gens[g].open
    /\ NextTag(g) <= Len(gens[g].sent)
    /\ NextTag(g) \in gens[g].bounced => ack
    /\ gens' = [gens EXCEPT ![g].verdicts = Append(@, ack)]
    /\ UNCHANGED <<msgVars, cur, lockVars, procVars, userVars, stats, closeVars>>

ContextEnds(c) ==
    /\ c \in Cancellable
    /\ c \notin ctxDone
    /\ ctxDone' = ctxDone \cup {c}
    /\ UNCHANGED <<msgVars, chanVars, lockVars, procVars, callbacks, stats, closeVars>>

-------------------------------------------------------------------------------
PublishStep(p) ==
    \/ PublishRejected(p) \/ PublishChannelClosed(p) \/ PublishEnter(p)
    \/ RegisterRefused(p) \/ Register(p)
    \/ SendReachesBroker(p) \/ SendSucceeds(p) \/ SendFails(p)
    \/ GiveUp(p) \/ NextAttempt(p)

RefreshStep(r) ==
    \/ RefreshSkip(r) \/ RefreshLock(r) \/ RefreshOpen(r) \/ RefreshFails(r)
    \/ RefreshInstall(r) \/ RefreshCloseOld(r)

ReaderStep(g) ==
    \/ HandleConfirmation(g) \/ HandleReturn(g)
    \/ ReturnReaderExits(g) \/ ConfirmReaderStops(g)
    \/ MarkDead(g) \/ CollectOrphans(g)
    \/ \E o \in Pending : SettleOrphan(g, o)

MessageStep(o) == Expire(o) \/ HandleTimeout(o) \/ HandleGraceExpired(o) \/ Finish(o)

BrokerStep(g) ==
    ChannelDies(g) \/ BrokerReturns(g) \/ \E ack \in BOOLEAN : BrokerConfirms(g, ack)

Next ==
    \/ \E p \in Proc : PublishStep(p) \/ RetryRepublish(p)
    \/ \E r \in Refresher : RefreshStep(r)
    \/ KeeperWakes
    \/ \E g \in Gen : ReaderStep(g) \/ BrokerStep(g)
    \/ \E o \in Pending : MessageStep(o)
    \/ CloseBegin \/ CloseConfirmChannel \/ CloseReturns
    \/ FreshChannelDies
    \/ \E c \in Call : ContextEnds(c)

Spec == Init /\ [][Next]_vars

\* The goroutines run and the clock goes on; the user, the broker and faults owe nothing.
FairSpec ==
    /\ Spec
    /\ \A p \in Proc : WF_vars(PublishStep(p)) /\ WF_vars(RetryRepublish(p))
    /\ \A r \in Refresher : WF_vars(RefreshStep(r))
    /\ WF_vars(KeeperWakes)
    /\ \A g \in Gen : WF_vars(ReaderStep(g))
    /\ \A o \in Pending : WF_vars(MessageStep(o))

-------------------------------------------------------------------------------
\* Properties

TypeOK ==
    /\ pend \in [Pending -> PendingMessage]
    /\ byId \in [MsgId -> Pending \cup {None}]
    /\ byTag \subseteq Pending
    /\ gens \in [Gen -> Generation]
    /\ cur \in Gen
    /\ publishMu \in Proc \cup {None}
    /\ refreshMu \in Refresher \cup {None}
    /\ fresh \in {"none", "open", "shut"}
    /\ pc \in [Refresher -> {"idle", "watch", "backoff", "publish", "entered", "sending", "sent",
                             "delay", "opening", "installing", "closeOld", "refreshed",
                             "nil", "error"}]
    /\ attempt \in [Proc -> Attempt]
    /\ failed \in [Refresher -> 0 .. MaxGen]
    /\ ctxDone \subseteq Call
    /\ callbacks \in [Call -> Nat]
    /\ stats \in [Counted \cup {"published"} -> Int]
    /\ closed \in {"no", "closing", "yes"}
    /\ closeChan \in {"idle", "pending", "done"}

\* A delivery tag finds the message the broker numbered with it: no failed, refused or lost
\* publish ever shifts the publisher's count against the broker's (publishTracked).
ConfirmsMatch ==
    \A o \in byTag :
        pend[o].tag <= Len(gens[pend[o].gen].sent) =>
            gens[pend[o].gen].sent[pend[o].tag] = CallOf(o)

\* Each outcome a callback reports is what the broker did with this very message: a success
\* was acked, a nack nacked, a return returned, and an orphan's answer was never received.
OutcomesTrue ==
    \A o \in Pending :
        LET g == gens[pend[o].gen]
            t == pend[o].tag
            is(outcome) == pend[o].FinalOutcome = outcome
        IN  /\ is("confirmed") => t <= Len(g.verdicts) /\ g.sent[t] = CallOf(o) /\ g.verdicts[t]
            /\ is("nacked") => t <= Len(g.verdicts) /\ g.sent[t] = CallOf(o) /\ ~g.verdicts[t]
            /\ is("returned") => t \in g.bounced /\ g.sent[t] = CallOf(o)
            /\ is("orphaned") => g.dead /\ t > Len(g.verdicts)

\* Once failOrphans has collected a dead generation, what is left of it undecided is still to
\* be settled by the sweep, by its own sender, or, confirmed, by its grace timer.
SweptClean ==
    \A o \in byTag :
        LET m == pend[o]
        IN  gens[m.gen].confirmReader = "done" /\ closed = "no" /\ ~m.CallbackFired =>
                \/ o \in gens[m.gen].orphans
                \/ m.inFlight /\ m.orphanDeferred
                \/ m.Confirmed /\ m.grace # "off"

\* DeliveryStats add up: published is the outcomes counted plus the messages undecided.
StatsConserved ==
    stats["published"] =
        stats["confirmed"] + stats["returned"] + stats["nacked"] + stats["timedOut"]
        + stats["orphaned"] + Cardinality({o \in byTag : ~pend[o].CallbackFired})

\* An accepted call that had no callback yet still has someone who will see to it: a
\* goroutine completing it, a retry, a timer, or the orphan sweep of its channel.
Watched(o) ==
    LET m == pend[o]
    IN  \/ m.finish = "pending"
        \/ /\ ~m.CallbackFired
           /\ \/ m.timer # "off"
              \/ m.grace # "off"
              \/ gens[m.gen].confirmReader \in {"running", "marked"}
              \/ o \in gens[m.gen].orphans

Accounted ==
    \A c \in Call :
        pc[<<c, 0>>] = "nil" /\ callbacks[c] = 0 /\ closed = "no" =>
            \/ \E o \in byTag : CallOf(o) = c /\ Watched(o)
            \/ \E r \in 1 .. MaxRetryAttempts : pc[<<c, r>>] \notin {"idle", "nil", "error"}

\* A hot swap never replaces a channel that works: refreshers of one failure are single-flight
\* and look again at what they were asked to replace (refreshConfirmChannelOpt).
SwapsOnlyDeadChannels == [][cur' # cur => ~gens[cur].open]_vars

\* "an old reader can never touch state that belongs to a newer channel" (confirmGeneration):
\* what the readers of g consume changes only messages published on g.
ReadersKeepToTheirGeneration ==
    [][\A g \in Gen :
         gens'[g].handled # gens[g].handled \/ Len(gens'[g].returns) < Len(gens[g].returns) =>
             \A o \in byTag : pend[o].gen # g => pend'[o] = pend[o]]_vars

\* Once Close's barrier has closed the confirm channel no channel is or gets open, and the
\* generation counter stands still: a refresh overtaken by Close installs nothing.
ClosedForGood ==
    closeChan = "done" => \A g \in Gen : ~gens[g].open

\* The promise of PublishWithDeliveryAssurance to its callers.
Contract ==
    INSTANCE DeliveryContract WITH
        returned <- [c \in Call |-> CASE pc[<<c, 0>>] = "nil" -> "nil"
                                      [] pc[<<c, 0>>] = "error" -> "error"
                                      [] OTHER -> "running"],
        called <- callbacks,
        shut <- closed # "no"

KeepsContract == Contract!SafeSpec

\* Every accepted call gets its callback, unless the publisher is closed first.
EveryCallAnswered == Contract!Spec
===============================================================================
