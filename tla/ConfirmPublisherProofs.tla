------------------------ MODULE ConfirmPublisherProofs ------------------------
(***************************************************************************)
(* Theorems of ConfirmPublisher, for every number of calls, retries and    *)
(* channel generations: its type invariant, that a delivery tag finds the  *)
(* message the broker numbered with it (ConfirmsMatch), that a hot swap    *)
(* never replaces a working channel (SwapsOnlyDeadChannels), and that a    *)
(* closed publisher opens no channel (ClosedForGood).  The promises to its *)
(* callers are in PublisherContractProofs.                                 *)
(***************************************************************************)
EXTENDS ConfirmPublisher, SequenceTheorems, TLAPS

-------------------------------------------------------------------------------
\* The inductive invariants

\* A refresher that holds refreshMu has a generation left to install.
RoomToInstall ==
    \A r \in Refresher : pc[r] \in {"opening", "installing"} => failed[r] < MaxGen

TypeInv == TypeOK /\ RoomToInstall

InPublishMu == {"entered", "sending", "sent"}

\* publishMu is held by exactly the process inside publishTracked.
Exclusive ==
    \A p \in Proc : pc[p] \in InPublishMu <=> publishMu = p

\* ... whose message has the next tag of the current channel.
HolderTagged ==
    \A p \in Proc : pc[p] \in InPublishMu =>
        /\ pend[Current(p)].gen = cur
        /\ pend[Current(p)].tag = gens[cur].published + 1

\* A publish whose frames the broker has and published does not count yet.
Ahead(g) == g = cur /\ \E p \in Proc : pc[p] = "sent"

\* The publisher's count is the broker's, as long as the channel is open; on a closed channel
\* a publish may be counted that never arrived.
CountsAgree ==
    \A g \in Gen :
        /\ Len(gens[g].sent) <= gens[g].published + (IF Ahead(g) THEN 1 ELSE 0)
        /\ g = cur /\ gens[g].open =>
               Len(gens[g].sent) = gens[g].published + (IF Ahead(g) THEN 1 ELSE 0)
        /\ Len(gens[g].verdicts) <= Len(gens[g].sent)

\* A stored message has a tag its channel has counted, or is being sent.
TagsCounted ==
    \A o \in byTag :
        /\ pend[o].gen \in 1 .. cur
        /\ pend[o].tag >= 1
        /\ pc[o[1]] = "nil" => pend[o].tag <= gens[pend[o].gen].published

\* It is its process's current attempt, and that has not failed.
EntriesCurrent ==
    \A o \in byTag : o = Current(o[1]) /\ pc[o[1]] \in {"sending", "sent", "nil"}

\* A nack decides a message at once, and a retry starts only after the nack of a message that
\* reached the broker.
NacksDecide == \A o \in Pending : pend[o].Nacked => pend[o].CallbackFired

RetriesFollowNacks ==
    \A p \in Proc : p[2] > 0 /\ pc[p] # "idle" =>
        LET before == <<p[1], p[2] - 1>>
        IN  pc[before] \in {"sent", "nil"} /\ pend[Current(before)].CallbackFired

IInv ==
    /\ TypeInv /\ Exclusive /\ HolderTagged /\ CountsAgree /\ TagsCounted
    /\ EntriesCurrent /\ NacksDecide /\ RetriesFollowNacks /\ ConfirmsMatch

\* A reader that has ended, or a generation marked dead, had its channel closed.
EndedMeansClosed ==
    \A g \in Gen :
        /\ gens[g].dead => ~gens[g].open
        /\ gens[g].returnReader = "done" /\ closed = "no" => ~gens[g].open

\* What a refresher wants replaced is an installed generation, and if current, a closed one.
FailedMeansClosed ==
    \A r \in Refresher :
        /\ failed[r] <= cur
        /\ pc[r] \in {"delay", "opening", "installing"} /\ failed[r] = cur => ~gens[cur].open

SwapInv == TypeInv /\ EndedMeansClosed /\ FailedMeansClosed
-------------------------------------------------------------------------------
\* Types

\* Stopping its timers leaves a message's key, verdict and claim alone.
LEMMA StopTimerFacts ==
    ASSUME NEW m \in PendingMessage
    PROVE  /\ StopTimer(m) \in PendingMessage
           /\ StopTimer(m).gen = m.gen
           /\ StopTimer(m).tag = m.tag
           /\ StopTimer(m).Nacked = m.Nacked
           /\ StopTimer(m).CallbackFired = m.CallbackFired
BY DEF StopTimer, PendingMessage, TimerState

\* Claiming a message's outcome keeps its key and verdict.
LEMMA ClaimFacts ==
    ASSUME NEW m \in PendingMessage, NEW outcome \in Outcome
    PROVE  /\ Claim(m, outcome) \in PendingMessage
           /\ Claim(m, outcome).gen = m.gen
           /\ Claim(m, outcome).tag = m.tag
           /\ Claim(m, outcome).Nacked = m.Nacked
           /\ Claim(m, outcome).CallbackFired
<1>1. StopTimer(m) \in PendingMessage
  BY StopTimerFacts
<1>2. QED
  BY <1>1, StopTimerFacts DEF Claim, PendingMessage

LEMMA FinalOutcomeType ==
    ASSUME NEW o, NEW m
    PROVE  FinalOutcome(o, m) \in {"nacked", "returned", "confirmed", "none"}
BY DEF FinalOutcome

\* tryFinalizeMessage keeps a message's key and verdict, and decides one that was nacked.
LEMMA FinalizedFacts ==
    ASSUME NEW o \in Pending, NEW m \in PendingMessage
    PROVE  /\ Finalized(o, m) \in PendingMessage
           /\ Finalized(o, m).gen = m.gen
           /\ Finalized(o, m).tag = m.tag
           /\ Finalized(o, m).Nacked = m.Nacked
           /\ m.CallbackFired => Finalized(o, m).CallbackFired
           /\ m.Nacked => Finalized(o, m).CallbackFired
<1>1. CASE m.CallbackFired
  BY <1>1 DEF Finalized
<1>2. CASE ~m.CallbackFired /\ FinalOutcome(o, m) = "none"
  <2>1. ~m.Nacked
    BY <1>2 DEF FinalOutcome
  <2>2. StopTimer(m) \in PendingMessage
    BY StopTimerFacts
  <2>3. Finalized(o, m) = [StopTimer(m) EXCEPT !.grace = "armed"]
    BY <1>2 DEF Finalized
  <2>4. QED
    BY <1>2, <2>1, <2>2, <2>3, StopTimerFacts DEF PendingMessage, TimerState
<1>3. CASE ~m.CallbackFired /\ FinalOutcome(o, m) # "none"
  <2> DEFINE c == Claim(m, FinalOutcome(o, m))
  <2>1. FinalOutcome(o, m) \in Outcome
    BY FinalOutcomeType DEF Outcome, Counted
  <2>2. /\ c \in PendingMessage /\ c.gen = m.gen /\ c.tag = m.tag
        /\ c.Nacked = m.Nacked /\ c.CallbackFired
    BY <2>1, ClaimFacts
  <2>3. Finalized(o, m) = [c EXCEPT !.finish = IF Retries(o, m) THEN "no" ELSE "pending"]
    BY <1>3 DEF Finalized
  <2> HIDE DEF c
  <2>4. QED
    BY <2>2, <2>3 DEF PendingMessage
<1>4. QED
  BY <1>1, <1>2, <1>3
\* The operations shared by several actions, on a state with the right types.

LEMMA InstalledGenerationType ==
    ASSUME NEW isOpen \in BOOLEAN
    PROVE  /\ InstalledGeneration(isOpen) \in Generation
           /\ InstalledGeneration(isOpen).open = isOpen
           /\ InstalledGeneration(isOpen).published = 0
           /\ InstalledGeneration(isOpen).sent = <<>>
           /\ InstalledGeneration(isOpen).verdicts = <<>>
           /\ InstalledGeneration(isOpen).dead = FALSE
           /\ InstalledGeneration(isOpen).returnReader = "running"
<1>1. NoGeneration \in Generation
  BY EmptySeq DEF NoGeneration, Generation
<1>2. QED
  BY <1>1 DEF InstalledGeneration, NoGeneration, Generation

LEMMA CurrentType ==
    ASSUME TypeOK, NEW p \in Proc
    PROVE  Current(p) \in Pending /\ p \in Refresher
BY DEF TypeOK, Current, Pending, Refresher

LEMMA DeleteType ==
    ASSUME TypeOK, NEW o, Delete(o)
    PROVE  byId' \in [MsgId -> Pending \cup {None}] /\ byTag' \subseteq Pending
BY DEF TypeOK, Delete

\* tryFinalizeMessage writes one message, may count an outcome and may start one retry.
LEMMA TryFinalizeType ==
    ASSUME TypeOK, NEW o \in Pending, NEW m \in PendingMessage, TryFinalizeMessage(o, m)
    PROVE  /\ pend' \in [Pending -> PendingMessage]
           /\ stats' \in [Counted \cup {"published"} -> Int]
           /\ \A r \in Refresher : pc'[r] = pc[r] \/ pc'[r] = "backoff"
           /\ pc' = [r \in Refresher |-> pc'[r]]
<1>1. pend' \in [Pending -> PendingMessage]
  BY FinalizedFacts DEF TypeOK, TryFinalizeMessage
<1>2. stats' \in [Counted \cup {"published"} -> Int]
  BY FinalOutcomeType DEF TypeOK, TryFinalizeMessage, Counting, Counted
<1>3. /\ \A r \in Refresher : pc'[r] = pc[r] \/ pc'[r] = "backoff"
      /\ pc' = [r \in Refresher |-> pc'[r]]
  BY DEF TypeOK, TryFinalizeMessage
<1>4. QED
  BY <1>1, <1>2, <1>3

\* An attempt that failed goes to its delay, with the generation to replace, or ends in error.
LEMMA FailTypes ==
    ASSUME TypeOK, NEW p \in Proc, ChannelError(p) \/ (Fail(p) /\ UNCHANGED failed)
    PROVE  /\ pc' = [pc EXCEPT ![p] = "delay"] \/ pc' = [pc EXCEPT ![p] = "error"]
           /\ failed' \in [Refresher -> 0 .. MaxGen]
           /\ \A r \in Refresher : failed'[r] = failed[r] \/ r = p
           /\ callbacks' \in [Call -> Nat]
<1>1. p \in Refresher /\ p[1] \in Call /\ cur \in 0 .. MaxGen
  BY ConstantsOK DEF TypeOK, Refresher, Proc, Gen
<1>2. CASE ChannelError(p)
  BY <1>1, <1>2 DEF ChannelError, TypeOK
<1>3. CASE Fail(p) /\ UNCHANGED failed
  BY <1>1, <1>3 DEF Fail, TypeOK
<1>4. QED
  BY <1>2, <1>3

\* A generation's fields keep their types one by one.
LEMMA GenerationTypes ==
    ASSUME NEW G \in Generation
    PROVE  /\ \A x \in BOOLEAN : [G EXCEPT !.open = x] \in Generation
           /\ \A x \in Nat : [G EXCEPT !.published = x] \in Generation
           /\ \A x \in Call : [G EXCEPT !.sent = Append(@, x)] \in Generation
           /\ \A x \in BOOLEAN : [G EXCEPT !.verdicts = Append(@, x)] \in Generation
           /\ \A t \in Nat, m \in MsgId :
                 [G EXCEPT !.bounced = @ \cup {t}, !.returns = Append(@, m)] \in Generation
           /\ \A x \in Nat : [G EXCEPT !.handled = x] \in Generation
           /\ G.returns # <<>> => [G EXCEPT !.returns = Tail(@)] \in Generation
           /\ \A x \in {"none", "running", "done"} : [G EXCEPT !.returnReader = x] \in Generation
           /\ [G EXCEPT !.confirmReader = "done"] \in Generation
           /\ [G EXCEPT !.confirmReader = "marked", !.dead = TRUE] \in Generation
           /\ \A S \in SUBSET Pending :
                 /\ [G EXCEPT !.confirmReader = "done", !.orphans = S] \in Generation
                 /\ [G EXCEPT !.orphans = S] \in Generation
<1>1. \A x \in BOOLEAN : [G EXCEPT !.open = x] \in Generation
  BY DEF Generation
<1>2. \A x \in Nat : [G EXCEPT !.published = x] \in Generation
  BY DEF Generation
<1>3. \A x \in Call : [G EXCEPT !.sent = Append(@, x)] \in Generation
  BY AppendProperties DEF Generation
<1>4. \A x \in BOOLEAN : [G EXCEPT !.verdicts = Append(@, x)] \in Generation
  BY AppendProperties DEF Generation
<1>5. \A t \in Nat, m \in MsgId :
          [G EXCEPT !.bounced = @ \cup {t}, !.returns = Append(@, m)] \in Generation
  BY AppendProperties DEF Generation
<1>6. \A x \in Nat : [G EXCEPT !.handled = x] \in Generation
  BY DEF Generation
<1>7. G.returns # <<>> => [G EXCEPT !.returns = Tail(@)] \in Generation
  BY HeadTailProperties DEF Generation
<1>8. /\ \A x \in {"none", "running", "done"} : [G EXCEPT !.returnReader = x] \in Generation
      /\ [G EXCEPT !.confirmReader = "done"] \in Generation
      /\ [G EXCEPT !.confirmReader = "marked", !.dead = TRUE] \in Generation
  BY DEF Generation
<1>9. \A S \in SUBSET Pending :
          /\ [G EXCEPT !.confirmReader = "done", !.orphans = S] \in Generation
          /\ [G EXCEPT !.orphans = S] \in Generation
  BY DEF Generation
<1>10. QED
  BY <1>1, <1>2, <1>3, <1>4, <1>5, <1>6, <1>7, <1>8, <1>9

LEMMA InitTypes == Init => TypeInv
<1> SUFFICES ASSUME Init PROVE TypeInv
  OBVIOUS
<1> USE ConstantsOK
<1>1. NewPending \in PendingMessage
  BY DEF NewPending, PendingMessage, TimerState, Outcome
<1>2. NoGeneration \in Generation
  BY DEF NoGeneration, Generation
<1>3. InstalledGeneration(TRUE) \in Generation
  BY InstalledGenerationType
<1>4. pend \in [Pending -> PendingMessage] /\ gens \in [Gen -> Generation]
  BY <1>1, <1>2, <1>3 DEF Init
<1>5. /\ byId \in [MsgId -> Pending \cup {None}]
      /\ byTag \subseteq Pending
      /\ cur \in Gen
      /\ publishMu \in Proc \cup {None}
      /\ refreshMu \in Refresher \cup {None}
      /\ fresh \in {"none", "open", "shut"}
  BY DEF Init, Gen
<1>6. /\ pc \in [Refresher -> {"watch", "publish", "idle"}]
      /\ attempt \in [Proc -> Attempt]
      /\ failed \in [Refresher -> 0 .. MaxGen]
  BY DEF Init, Attempt
<1>7. /\ ctxDone \subseteq Call
      /\ callbacks \in [Call -> Nat]
      /\ stats \in [Counted \cup {"published"} -> Int]
      /\ closed \in {"no", "closing", "yes"}
      /\ closeChan \in {"idle", "pending", "done"}
  BY DEF Init
<1>8. QED
  BY <1>4, <1>5, <1>6, <1>7 DEF TypeInv, TypeOK, RoomToInstall
\* Every step keeps the types: one step of the proof for each action.
LEMMA StepTypes == TypeInv /\ [Next]_vars => TypeInv'
<1> SUFFICES ASSUME TypeInv, [Next]_vars PROVE TypeInv'
  OBVIOUS
<1> USE ConstantsOK
<1>p. ASSUME NEW p \in Proc, PublishStep(p) \/ RetryRepublish(p) PROVE TypeInv'
  <2>0. /\ TypeOK /\ Current(p) \in Pending /\ p \in Refresher /\ pend[Current(p)] \in PendingMessage
        /\ StopTimer(pend[Current(p)]) \in PendingMessage /\ p[1] \in Call
        /\ cur \in Gen /\ gens[cur] \in Generation
    BY CurrentType, StopTimerFacts DEF TypeInv, TypeOK, Proc
  <2>1. CASE PublishRejected(p)
    BY <2>0, <2>1 DEF PublishRejected, Fail, TypeInv, TypeOK, RoomToInstall,
       msgVars, chanVars, lockVars, closeVars
  <2>2. CASE PublishChannelClosed(p)
    BY <2>0, <2>2 DEF PublishChannelClosed, ChannelError, TypeInv, TypeOK, RoomToInstall,
       msgVars, chanVars, lockVars, closeVars, Gen
  <2>3. CASE PublishEnter(p)
    <3>1. [NewPending EXCEPT !.gen = cur, !.tag = gens[cur].published + 1,
                             !.inFlight = TRUE, !.timer = "armed"] \in PendingMessage
      <4>1. NewPending \in PendingMessage /\ cur \in 0 .. MaxGen
        BY <2>0 DEF NewPending, PendingMessage, TimerState, Outcome, Gen
      <4>2. gens[cur].published + 1 \in Nat
        BY <2>0 DEF Generation
      <4>3. QED
        BY <4>1, <4>2 DEF PendingMessage, TimerState
    <3>2. pend' \in [Pending -> PendingMessage]
      BY <2>0, <2>3, <3>1 DEF PublishEnter, TypeOK
    <3>3. QED
      BY <2>0, <2>3, <3>2 DEF PublishEnter, TypeInv, TypeOK, RoomToInstall,
         chanVars, userVars, closeVars
  <2>4. CASE RegisterRefused(p)
    <3>1. pend' \in [Pending -> PendingMessage]
      BY <2>0, <2>4 DEF RegisterRefused, TypeOK
    <3>2. /\ pc' = [pc EXCEPT ![p] = "delay"] \/ pc' = [pc EXCEPT ![p] = "error"]
          /\ failed' \in [Refresher -> 0 .. MaxGen]
          /\ \A r \in Refresher : failed'[r] = failed[r] \/ r = p
          /\ callbacks' \in [Call -> Nat]
      BY <2>0, <2>4, FailTypes DEF RegisterRefused
    <3>3. QED
      BY <2>0, <2>4, <3>1, <3>2 DEF RegisterRefused, TypeInv, TypeOK, RoomToInstall,
         chanVars, closeVars
  <2>5. CASE Register(p)
    <3>1. byId' \in [MsgId -> Pending \cup {None}] /\ byTag' \subseteq Pending
      BY <2>0, <2>5 DEF Register, TypeOK
    <3>2. stats' \in [Counted \cup {"published"} -> Int]
      BY <2>0, <2>5 DEF Register, TypeOK, Counting, Counted
    <3>3. QED
      BY <2>0, <2>5, <3>1, <3>2 DEF Register, TypeInv, TypeOK, RoomToInstall,
         chanVars, lockVars, userVars, closeVars
  <2>6. CASE SendReachesBroker(p)
    <3>1. gens' \in [Gen -> Generation]
      BY <2>0, <2>6, GenerationTypes DEF SendReachesBroker, TypeOK
    <3>2. QED
      BY <2>0, <2>6, <3>1 DEF SendReachesBroker, TypeInv, TypeOK, RoomToInstall,
         msgVars, lockVars, userVars, closeVars
  <2>7. CASE SendSucceeds(p)
    <3> DEFINE m == [pend[Current(p)] EXCEPT !.inFlight = FALSE]
    <3>1. m \in PendingMessage
      BY <2>0 DEF PendingMessage
    <3>2. Claim(m, "orphaned") \in PendingMessage /\ Claim(m, "timedOut") \in PendingMessage
      BY <3>1, ClaimFacts DEF Outcome, Counted
    <3>3. pend'[Current(p)] \in {m, Claim(m, "orphaned"), Claim(m, "timedOut")}
          /\ pend' = [pend EXCEPT ![Current(p)] = pend'[Current(p)]]
      BY <2>0, <2>7 DEF SendSucceeds, TypeOK
    <3>4. pend' \in [Pending -> PendingMessage]
      BY <2>0, <3>1, <3>2, <3>3 DEF TypeOK
    <3>5. gens' \in [Gen -> Generation]
      <4>1. gens[cur].published + 1 \in Nat
        BY <2>0 DEF Generation
      <4>2. QED
        BY <2>0, <2>7, <4>1, GenerationTypes DEF SendSucceeds, TypeOK
    <3>6. stats' \in [Counted \cup {"published"} -> Int]
      BY <2>0, <2>7 DEF SendSucceeds, TypeOK, Counting, Counted
    <3>7. pc' = [pc EXCEPT ![p] = "nil"] /\ publishMu' = None
          /\ UNCHANGED <<byId, byTag, cur, refreshMu, fresh, attempt, failed, userVars, closeVars>>
      BY <2>7 DEF SendSucceeds
    <3>8. QED
      BY <2>0, <3>4, <3>5, <3>6, <3>7 DEF TypeInv, TypeOK, RoomToInstall, userVars, closeVars
  <2>8. CASE SendFails(p)
    <3>1. pend' \in [Pending -> PendingMessage]
      BY <2>0, <2>8 DEF SendFails, TypeOK, PendingMessage
    <3>2. byId' \in [MsgId -> Pending \cup {None}] /\ byTag' \subseteq Pending
      BY <2>0, <2>8, DeleteType DEF SendFails
    <3>3. /\ pc' = [pc EXCEPT ![p] = "delay"] \/ pc' = [pc EXCEPT ![p] = "error"]
          /\ failed' \in [Refresher -> 0 .. MaxGen]
          /\ \A r \in Refresher : failed'[r] = failed[r] \/ r = p
          /\ callbacks' \in [Call -> Nat]
      BY <2>0, <2>8, FailTypes DEF SendFails
    <3>4. stats' \in [Counted \cup {"published"} -> Int]
      BY <2>0, <2>8 DEF SendFails, TypeOK, Counted
    <3>5. QED
      BY <2>0, <2>8, <3>1, <3>2, <3>3, <3>4 DEF SendFails, TypeInv, TypeOK, RoomToInstall,
         chanVars, closeVars
  <2>9. CASE GiveUp(p)
    BY <2>0, <2>9 DEF GiveUp, Fail, TypeInv, TypeOK, RoomToInstall,
       msgVars, chanVars, lockVars, closeVars
  <2>10. CASE NextAttempt(p)
    BY <2>0, <2>10 DEF NextAttempt, Fail, TypeInv, TypeOK, RoomToInstall, Attempt,
       msgVars, chanVars, lockVars, closeVars
  <2>11. CASE RetryRepublish(p)
    <3>1. byId' \in [MsgId -> Pending \cup {None}] /\ byTag' \subseteq Pending
      BY <2>0, <2>11, DeleteType DEF RetryRepublish
    <3>2. QED
      BY <2>0, <2>11, <3>1 DEF RetryRepublish, TypeInv, TypeOK, RoomToInstall,
         chanVars, lockVars, userVars, closeVars
  <2>12. QED
    BY <1>p, <2>1, <2>2, <2>3, <2>4, <2>5, <2>6, <2>7, <2>8, <2>9, <2>10, <2>11 DEF PublishStep
<1>r. ASSUME NEW r \in Refresher, RefreshStep(r) PROVE TypeInv'
  <2> USE DEF AfterRefresh, TypeInv, TypeOK, RoomToInstall, msgVars, chanVars, lockVars, userVars,
              closeVars
  <2>1. CASE RefreshSkip(r)
    BY <2>1 DEF RefreshSkip
  <2>2. CASE RefreshLock(r)
    BY <2>2 DEF RefreshLock, StillFailed, Gen
  <2>3. CASE RefreshOpen(r)
    BY <2>3 DEF RefreshOpen
  <2>4. CASE RefreshFails(r)
    BY <2>4 DEF RefreshFails
  <2>5. CASE RefreshInstall(r)
    <3>1. CASE Installable(r)
      <4>1. cur + 1 \in Gen
        BY <2>5, <3>1 DEF RefreshInstall, Installable, StillFailed, Gen
      <4>2. gens' \in [Gen -> Generation]
        BY <2>5, <3>1, InstalledGenerationType DEF RefreshInstall
      <4>3. QED
        BY <2>5, <3>1, <4>1, <4>2 DEF RefreshInstall
    <3>2. CASE ~Installable(r)
      BY <2>5, <3>2 DEF RefreshInstall
    <3>3. QED
      BY <3>1, <3>2
  <2>6. CASE RefreshCloseOld(r)
    <3>1. gens' \in [Gen -> Generation]
      <4>1. \A g \in Gen : [gens[g] EXCEPT !.open = FALSE] \in Generation
        BY GenerationTypes
      <4>2. QED
        BY <2>6, <4>1 DEF RefreshCloseOld
    <3>2. QED
      BY <2>6, <3>1 DEF RefreshCloseOld
  <2>7. QED
    BY <1>r, <2>1, <2>2, <2>3, <2>4, <2>5, <2>6 DEF RefreshStep
<1>k. ASSUME KeeperWakes PROVE TypeInv'
  BY <1>k DEF KeeperWakes, TypeInv, TypeOK, RoomToInstall, Refresher, Gen, msgVars, chanVars,
     lockVars, userVars, closeVars
<1>g. ASSUME NEW g \in Gen, ReaderStep(g) \/ BrokerStep(g) PROVE TypeInv'
  <2>0. TypeOK /\ RoomToInstall /\ gens[g] \in Generation
    BY DEF TypeInv, TypeOK
  <2>1. CASE HandleConfirmation(g)
    <3> DEFINE tag == gens[g].handled + 1
               ack == gens[g].verdicts[tag]
               seen(o) == [pend[o] EXCEPT !.Confirmed = @ \/ ack, !.Nacked = @ \/ ~ack]
    <3>1. gens' \in [Gen -> Generation]
      <4>1. tag \in Nat
        BY <2>0 DEF Generation
      <4>2. QED
        BY <2>0, <2>1, <4>1, GenerationTypes DEF HandleConfirmation, TypeOK
    <3>2. UNCHANGED <<byId, byTag, cur, lockVars, attempt, failed, userVars, closeVars>>
      BY <2>1 DEF HandleConfirmation
    <3>3. CASE UNCHANGED <<pend, stats, pc>>
      BY <2>0, <3>1, <3>2, <3>3 DEF TypeInv, TypeOK, RoomToInstall, lockVars, userVars, closeVars
    <3>4. ASSUME NEW o \in AtKey(<<g, tag>>), TryFinalizeMessage(o, seen(o)) PROVE TypeInv'
      <4>1. o \in Pending /\ pend[o] \in PendingMessage
        BY <2>0 DEF AtKey, TypeOK
      <4>2. seen(o) \in PendingMessage
        BY <4>1 DEF PendingMessage
      <4>3. QED
        BY <2>0, <3>1, <3>2, <3>4, <4>1, <4>2, TryFinalizeType
        DEF TypeInv, TypeOK, RoomToInstall, lockVars, userVars, closeVars
    <3>5. QED
      BY <2>1, <3>3, <3>4 DEF HandleConfirmation
  <2>2. CASE HandleReturn(g)
    <3> DEFINE o == byId[Head(gens[g].returns)]
               seen == [pend[o] EXCEPT !.Returned = TRUE]
    <3>1. gens' \in [Gen -> Generation]
      BY <2>0, <2>2, GenerationTypes DEF HandleReturn, TypeOK
    <3>2. UNCHANGED <<byId, byTag, cur, lockVars, attempt, failed, userVars, closeVars>>
      BY <2>2 DEF HandleReturn
    <3>3. CASE UNCHANGED <<pend, stats, pc>>
      BY <2>0, <3>1, <3>2, <3>3 DEF TypeInv, TypeOK, RoomToInstall, lockVars, userVars, closeVars
    <3>4. CASE o # None /\ TryFinalizeMessage(o, seen)
      <4>1. Head(gens[g].returns) \in MsgId
        BY <2>0, <2>2 DEF HandleReturn, Generation
      <4>2. o \in Pending /\ pend[o] \in PendingMessage
        BY <2>0, <3>4, <4>1 DEF TypeOK
      <4>3. seen \in PendingMessage
        BY <4>2 DEF PendingMessage
      <4>4. QED
        BY <2>0, <3>1, <3>2, <3>4, <4>2, <4>3, TryFinalizeType
        DEF TypeInv, TypeOK, RoomToInstall, lockVars, userVars, closeVars
    <3>5. QED
      BY <2>2, <3>3, <3>4 DEF HandleReturn
  <2>3. CASE ReturnReaderExits(g) \/ ConfirmReaderStops(g) \/ MarkDead(g) \/ CollectOrphans(g)
    <3>1. gens' \in [Gen -> Generation]
      <4>1. CASE ReturnReaderExits(g)
        BY <2>0, <4>1, GenerationTypes DEF ReturnReaderExits, TypeOK
      <4>2. CASE ConfirmReaderStops(g)
        BY <2>0, <4>2, GenerationTypes DEF ConfirmReaderStops, TypeOK
      <4>3. CASE MarkDead(g)
        BY <2>0, <4>3, GenerationTypes DEF MarkDead, TypeOK
      <4>4. CASE CollectOrphans(g)
        <5> DEFINE S == {o \in Pending : byId[IdOfMsg(o)] = o /\ pend[o].gen = g}
        <5>1. [gens[g] EXCEPT !.confirmReader = "done", !.orphans = S] \in Generation
          BY <2>0, GenerationTypes
        <5>2. gens' = [gens EXCEPT ![g] = [gens[g] EXCEPT !.confirmReader = "done", !.orphans = S]]
          BY <4>4 DEF CollectOrphans
        <5> HIDE DEF S
        <5>3. QED
          BY <2>0, <5>1, <5>2 DEF TypeOK
      <4>5. QED
        BY <2>3, <4>1, <4>2, <4>3, <4>4
    <3>2. QED
      BY <2>0, <2>3, <3>1 DEF ReturnReaderExits, ConfirmReaderStops, MarkDead, CollectOrphans,
         TypeInv, TypeOK, RoomToInstall, msgVars, lockVars, procVars, userVars, closeVars
  <2>4. ASSUME NEW o \in Pending, SettleOrphan(g, o) PROVE TypeInv'
    <3>1. pend[o] \in PendingMessage
      BY <2>0 DEF TypeOK
    <3>2. [pend[o] EXCEPT !.orphanDeferred = TRUE] \in PendingMessage
      BY <3>1 DEF PendingMessage
    <3>3. Claim(pend[o], "orphaned") \in PendingMessage
      BY <3>1, ClaimFacts DEF Outcome, Counted
    <3>4. pend' \in [Pending -> PendingMessage]
      BY <2>0, <2>4, <3>1, <3>2, <3>3 DEF SettleOrphan, TypeOK
    <3>5. gens' \in [Gen -> Generation]
      <4>1. gens[g].orphans \ {o} \in SUBSET Pending
        BY <2>0 DEF Generation
      <4>2. QED
        BY <2>0, <2>4, <4>1, GenerationTypes DEF SettleOrphan, TypeOK
    <3>6. stats' \in [Counted \cup {"published"} -> Int]
      BY <2>0, <2>4 DEF SettleOrphan, TypeOK, Counting, Counted
    <3>7. QED
      BY <2>0, <2>4, <3>4, <3>5, <3>6 DEF SettleOrphan, TypeInv, TypeOK, RoomToInstall,
         lockVars, procVars, userVars, closeVars
  <2>5. CASE BrokerStep(g)
    <3>1. ASSUME NEW ack \in BOOLEAN, BrokerConfirms(g, ack) PROVE gens' \in [Gen -> Generation]
      BY <2>0, <3>1, GenerationTypes DEF BrokerConfirms, TypeOK
    <3>2. CASE ChannelDies(g)
      BY <2>0, <3>2 DEF ChannelDies, TypeOK, Generation, TypeInv, RoomToInstall,
         msgVars, lockVars, procVars, userVars, closeVars
    <3>3. CASE BrokerReturns(g)
      <4>1. NextTag(g) \in Nat /\ IdOf[gens[g].sent[NextTag(g)]] \in MsgId
        BY <2>0, <3>3 DEF BrokerReturns, NextTag, Generation
      <4>2. gens' \in [Gen -> Generation]
        BY <2>0, <3>3, <4>1, GenerationTypes DEF BrokerReturns, TypeOK
      <4>3. QED
        BY <2>0, <3>3, <4>2 DEF BrokerReturns, TypeInv, TypeOK, RoomToInstall,
           msgVars, lockVars, procVars, userVars, closeVars
    <3>4. ASSUME NEW ack \in BOOLEAN, BrokerConfirms(g, ack) PROVE TypeInv'
      BY <2>0, <3>1, <3>4 DEF BrokerConfirms, TypeInv, TypeOK, RoomToInstall,
         msgVars, lockVars, procVars, userVars, closeVars
    <3>5. QED
      BY <2>5, <3>2, <3>3, <3>4 DEF BrokerStep
  <2>6. QED
    BY <1>g, <2>1, <2>2, <2>3, <2>4, <2>5 DEF ReaderStep
<1>o. ASSUME NEW o \in Pending, MessageStep(o) PROVE TypeInv'
  <2>0. TypeOK /\ RoomToInstall /\ pend[o] \in PendingMessage
    BY DEF TypeInv, TypeOK
  <2>1. CASE Expire(o)
    <3>1. \/ pend' = [pend EXCEPT ![o].timer = "firing"]
          \/ pend' = [pend EXCEPT ![o].grace = "firing"]
      BY <2>1 DEF Expire
    <3>3. pend' \in [Pending -> PendingMessage]
      BY <2>0, <3>1 DEF TypeOK, PendingMessage, TimerState
    <3>2. QED
      BY <2>0, <2>1, <3>3 DEF Expire, TypeInv, TypeOK, RoomToInstall,
         chanVars, lockVars, procVars, userVars, closeVars
  <2>2. CASE HandleTimeout(o)
    <3> DEFINE ran == [pend EXCEPT ![o].timer = "off"]
    <3>1. ran \in [Pending -> PendingMessage]
      BY <2>0 DEF TypeOK, PendingMessage, TimerState
    <3>2. \A t \in byTag : t \in Pending /\ ran[t] \in PendingMessage
      BY <2>0, <3>1 DEF TypeOK
    <3>3. /\ pend' \in [Pending -> PendingMessage]
          /\ stats' \in [Counted \cup {"published"} -> Int]
      <4>1. CASE pend' = ran /\ UNCHANGED stats
        BY <2>0, <3>1, <4>1 DEF TypeOK
      <4>2. ASSUME NEW t \in AtKey(KeyOf(o)), pend' = [ran EXCEPT ![t].timeoutDeferred = TRUE],
                   UNCHANGED stats
            PROVE  /\ pend' \in [Pending -> PendingMessage]
                   /\ stats' \in [Counted \cup {"published"} -> Int]
        <5>1. t \in Pending /\ [ran[t] EXCEPT !.timeoutDeferred = TRUE] \in PendingMessage
          BY <3>2 DEF AtKey, PendingMessage
        <5> HIDE DEF ran
        <5>2. QED
          BY <2>0, <3>1, <4>2, <5>1 DEF TypeOK
      <4>3. ASSUME NEW t \in AtKey(KeyOf(o)),
                   pend' = [ran EXCEPT ![t].CallbackFired = TRUE, ![t].FinalOutcome = "timedOut",
                                       ![t].finish = "pending"],
                   stats' = Counting("timedOut")
            PROVE  /\ pend' \in [Pending -> PendingMessage]
                   /\ stats' \in [Counted \cup {"published"} -> Int]
        <5>1. t \in Pending /\ ran[t] \in PendingMessage
          BY <3>2 DEF AtKey
        <5> HIDE DEF ran
        <5>2. pend' \in [Pending -> PendingMessage]
          BY <3>1, <4>3, <5>1 DEF PendingMessage, Outcome, Counted
        <5>3. QED
          BY <2>0, <4>3, <5>2 DEF TypeOK, Counting, Counted
      <4>4. QED
        BY <2>2, <4>1, <4>2, <4>3 DEF HandleTimeout
    <3>4. QED
      BY <2>0, <2>2, <3>3 DEF HandleTimeout, TypeInv, TypeOK, RoomToInstall,
         chanVars, lockVars, procVars, userVars, closeVars
  <2>3. CASE HandleGraceExpired(o)
    <3>1. pend' \in [Pending -> PendingMessage]
      BY <2>0, <2>3 DEF HandleGraceExpired, TypeOK, PendingMessage, TimerState, Outcome, Counted
    <3>2. stats' \in [Counted \cup {"published"} -> Int]
      BY <2>0, <2>3 DEF HandleGraceExpired, TypeOK, Counting, Counted
    <3>3. QED
      BY <2>0, <2>3, <3>1, <3>2 DEF HandleGraceExpired, TypeInv, TypeOK, RoomToInstall,
         chanVars, lockVars, procVars, userVars, closeVars
  <2>4. CASE Finish(o)
    <3>1. pend' \in [Pending -> PendingMessage]
      BY <2>0, <2>4 DEF Finish, TypeOK, PendingMessage
    <3>2. byId' \in [MsgId -> Pending \cup {None}] /\ byTag' \subseteq Pending
      BY <2>0, <2>4, DeleteType DEF Finish
    <3>3. CallOf(o) \in Call
      BY DEF CallOf, Pending, Proc
    <3>4. QED
      BY <2>0, <2>4, <3>1, <3>2, <3>3 DEF Finish, TypeInv, TypeOK, RoomToInstall,
         chanVars, lockVars, procVars, closeVars
  <2>5. QED
    BY <1>o, <2>1, <2>2, <2>3, <2>4 DEF MessageStep
<1>c. ASSUME CloseBegin \/ CloseConfirmChannel \/ CloseReturns PROVE TypeInv'
  <2> USE DEF TypeInv, TypeOK, RoomToInstall, msgVars, chanVars, lockVars, procVars, userVars,
              closeVars
  <2>1. CASE CloseBegin
    BY <2>1 DEF CloseBegin
  <2>2. CASE CloseConfirmChannel
    <3>1. gens' \in [Gen -> Generation]
      BY <2>2, GenerationTypes DEF CloseConfirmChannel
    <3>2. QED
      BY <2>2, <3>1 DEF CloseConfirmChannel
  <2>3. CASE CloseReturns
    <3>1. \A o \in Pending : StopTimer(pend[o]) \in PendingMessage
      BY StopTimerFacts
    <3>2. pend' \in [Pending -> PendingMessage]
      BY <2>3, <3>1 DEF CloseReturns
    <3>3. QED
      BY <2>3, <3>2 DEF CloseReturns
  <2>4. QED
    BY <1>c, <2>1, <2>2, <2>3
<1>e. ASSUME FreshChannelDies \/ \E c \in Call : ContextEnds(c) PROVE TypeInv'
  BY <1>e DEF FreshChannelDies, ContextEnds, TypeInv, TypeOK, RoomToInstall, msgVars, chanVars,
     lockVars, procVars, userVars, closeVars
<1>s. ASSUME UNCHANGED vars PROVE TypeInv'
  BY <1>s DEF vars, TypeInv, TypeOK, RoomToInstall, msgVars, chanVars, lockVars, procVars,
     userVars, closeVars
<1>q. QED
  BY <1>p, <1>r, <1>k, <1>g, <1>o, <1>c, <1>e, <1>s DEF Next

\* Type correctness of the publisher, for every set of calls, retries and generations.
THEOREM TypeCorrect == Spec => []TypeOK
<1>1. TypeInv => TypeOK
  BY DEF TypeInv
<1>2. QED
  BY <1>1, InitTypes, StepTypes, PTL DEF Spec
-------------------------------------------------------------------------------
\* A hot swap never replaces a working channel

LEMMA InitSwap == Init => SwapInv
<1> SUFFICES ASSUME Init PROVE SwapInv
  OBVIOUS
<1>1. EndedMeansClosed
  BY InstalledGenerationType DEF Init, EndedMeansClosed, NoGeneration
<1>2. FailedMeansClosed
  BY ConstantsOK DEF Init, FailedMeansClosed
<1>3. QED
  BY <1>1, <1>2, InitTypes DEF SwapInv

LEMMA StepSwap == SwapInv /\ [Next]_vars => SwapInv'
<1> SUFFICES ASSUME SwapInv, [Next]_vars PROVE (EndedMeansClosed /\ FailedMeansClosed)'
  BY StepTypes DEF SwapInv
<1> USE DEF EndedMeansClosed, FailedMeansClosed
<1>0. /\ TypeOK /\ EndedMeansClosed /\ FailedMeansClosed
      /\ gens \in [Gen -> Generation] /\ cur \in Gen /\ cur \in Nat
      /\ failed \in [Refresher -> 0 .. MaxGen]
      /\ pc = [r \in Refresher |-> pc[r]]
      /\ Proc \subseteq Refresher
  BY ConstantsOK DEF SwapInv, TypeInv, TypeOK, Gen, Refresher
<1>p. ASSUME NEW p \in Proc, PublishStep(p) \/ RetryRepublish(p)
      PROVE  (EndedMeansClosed /\ FailedMeansClosed)'
  <2>1. CASE PublishRejected(p) \/ PublishEnter(p) \/ Register(p) \/ GiveUp(p)
             \/ NextAttempt(p) \/ RetryRepublish(p)
    BY <1>0, <2>1 DEF PublishRejected, PublishEnter, Register, GiveUp, NextAttempt,
       RetryRepublish, Fail, chanVars, closeVars
  <2>2. CASE PublishChannelClosed(p)
    BY <1>0, <2>2 DEF PublishChannelClosed, ChannelError, chanVars, closeVars
  <2>3. CASE RegisterRefused(p)
    <3>1. CASE gens[cur].dead
      BY <1>0, <2>3, <3>1 DEF RegisterRefused, ChannelError, chanVars, closeVars
    <3>2. CASE ~gens[cur].dead
      BY <1>0, <2>3, <3>2 DEF RegisterRefused, Fail, chanVars, closeVars
    <3>3. QED
      BY <3>1, <3>2
  <2>4. CASE SendReachesBroker(p)
    BY <1>0, <2>4 DEF SendReachesBroker, closeVars
  <2>5. CASE SendSucceeds(p)
    <3>1. /\ gens' = [gens EXCEPT ![cur].published = @ + 1]
          /\ pc' = [pc EXCEPT ![p] = "nil"]
          /\ UNCHANGED <<cur, failed, closed>>
      BY <2>5 DEF SendSucceeds, closeVars
    <3>2. QED
      BY <1>0, <3>1
  <2>6. CASE SendFails(p)
    <3>1. CASE Fail(p) /\ UNCHANGED failed
      BY <1>0, <2>6, <3>1 DEF SendFails, Fail, chanVars, closeVars
    <3>2. CASE ~gens[cur].open /\ ChannelError(p)
      BY <1>0, <2>6, <3>2 DEF SendFails, ChannelError, chanVars, closeVars
    <3>3. QED
      BY <2>6, <3>1, <3>2 DEF SendFails
  <2>7. QED
    BY <1>p, <2>1, <2>2, <2>3, <2>4, <2>5, <2>6 DEF PublishStep
<1>r. ASSUME NEW r \in Refresher, RefreshStep(r)
      PROVE  (EndedMeansClosed /\ FailedMeansClosed)'
  <2>1. CASE RefreshSkip(r) \/ RefreshLock(r) \/ RefreshOpen(r) \/ RefreshFails(r)
    BY <1>0, <2>1 DEF RefreshSkip, RefreshLock, RefreshOpen, RefreshFails, AfterRefresh,
       chanVars, closeVars
  <2>2. CASE RefreshInstall(r)
    <3>1. CASE Installable(r)
      <4>1. /\ cur' = cur + 1
            /\ gens' = [gens EXCEPT ![cur + 1] = InstalledGeneration(fresh = "open")]
            /\ pc' = [pc EXCEPT ![r] = "closeOld"]
            /\ UNCHANGED <<failed, closed>>
        BY <2>2, <3>1 DEF RefreshInstall, closeVars
      <4>2. EndedMeansClosed'
        BY <1>0, <4>1, InstalledGenerationType
      <4>3. FailedMeansClosed'
        <5>1. \A q \in Refresher : failed'[q] <= cur /\ failed'[q] # cur'
          BY <1>0, <4>1
        <5>2. QED
          BY <1>0, <4>1, <5>1
      <4>4. QED
        BY <4>2, <4>3
    <3>2. CASE ~Installable(r)
      BY <1>0, <2>2, <3>2 DEF RefreshInstall, AfterRefresh, chanVars, closeVars
    <3>3. QED
      BY <3>1, <3>2
  <2>3. CASE RefreshCloseOld(r)
    BY <1>0, <2>3 DEF RefreshCloseOld, AfterRefresh, closeVars
  <2>4. QED
    BY <1>r, <2>1, <2>2, <2>3 DEF RefreshStep
<1>k. ASSUME KeeperWakes PROVE (EndedMeansClosed /\ FailedMeansClosed)'
  <2>1. /\ UNCHANGED <<gens, cur, closed>> /\ ~gens[cur].open
        /\ failed' = [failed EXCEPT ![Keeper] = cur]
        /\ \A r \in Refresher : r # Keeper => pc'[r] = pc[r]
    BY <1>0, <1>k DEF KeeperWakes, chanVars, closeVars
  <2>2. QED
    BY <1>0, <2>1
<1>g. ASSUME NEW g \in Gen, ReaderStep(g) \/ BrokerStep(g)
      PROVE  (EndedMeansClosed /\ FailedMeansClosed)'
  <2>1. CASE HandleConfirmation(g)
    <3>1. /\ gens' = [gens EXCEPT ![g].handled = gens[g].handled + 1]
          /\ UNCHANGED <<cur, failed, closed>>
      BY <2>1 DEF HandleConfirmation, closeVars
    <3>2. \A r \in Refresher : pc'[r] = pc[r] \/ pc'[r] = "backoff"
      BY <1>0, <2>1 DEF HandleConfirmation, TryFinalizeMessage
    <3>3. QED
      BY <1>0, <3>1, <3>2
  <2>2. CASE HandleReturn(g)
    <3>1. /\ gens' = [gens EXCEPT ![g].returns = Tail(@)]
          /\ UNCHANGED <<cur, failed, closed>>
      BY <2>2 DEF HandleReturn, closeVars
    <3>2. \A r \in Refresher : pc'[r] = pc[r] \/ pc'[r] = "backoff"
      BY <1>0, <2>2 DEF HandleReturn, TryFinalizeMessage
    <3>3. QED
      BY <1>0, <3>1, <3>2
  <2>3. CASE ReturnReaderExits(g)
    BY <1>0, <2>3 DEF ReturnReaderExits, procVars, closeVars
  <2>4. CASE ConfirmReaderStops(g) \/ CollectOrphans(g) \/ \E o \in Pending : SettleOrphan(g, o)
    <3>1. /\ UNCHANGED <<cur, pc, failed, closed>>
          /\ \A h \in Gen : /\ gens'[h].open = gens[h].open
                            /\ gens'[h].dead = gens[h].dead
                            /\ gens'[h].returnReader = gens[h].returnReader
      <4>1. CASE ConfirmReaderStops(g)
        BY <1>0, <4>1 DEF ConfirmReaderStops, procVars, closeVars
      <4>2. CASE CollectOrphans(g)
        BY <1>0, <4>2 DEF CollectOrphans, procVars, closeVars
      <4>3. CASE \E o \in Pending : SettleOrphan(g, o)
        BY <1>0, <4>3 DEF SettleOrphan, procVars, closeVars
      <4>4. QED
        BY <2>4, <4>1, <4>2, <4>3
    <3>2. QED
      BY <1>0, <3>1
  <2>5. CASE MarkDead(g)
    BY <1>0, <2>5 DEF MarkDead, procVars, closeVars
  <2>6. CASE BrokerStep(g)
    <3>1. /\ UNCHANGED <<cur, pc, failed, closed>>
          /\ \A h \in Gen : /\ gens'[h].open => gens[h].open
                            /\ gens'[h].dead = gens[h].dead
                            /\ gens'[h].returnReader = gens[h].returnReader
      <4>1. CASE ChannelDies(g)
        BY <1>0, <4>1 DEF ChannelDies, procVars, closeVars
      <4>2. CASE BrokerReturns(g)
        BY <1>0, <4>2 DEF BrokerReturns, procVars, closeVars
      <4>3. CASE \E ack \in BOOLEAN : BrokerConfirms(g, ack)
        BY <1>0, <4>3 DEF BrokerConfirms, procVars, closeVars
      <4>4. QED
        BY <2>6, <4>1, <4>2, <4>3 DEF BrokerStep
    <3>2. QED
      BY <1>0, <3>1
  <2>7. QED
    BY <1>g, <2>1, <2>2, <2>3, <2>4, <2>5, <2>6 DEF ReaderStep
<1>o. ASSUME NEW o \in Pending, MessageStep(o) PROVE (EndedMeansClosed /\ FailedMeansClosed)'
  <2>1. UNCHANGED <<gens, cur, pc, failed, closed>>
    BY <1>o DEF MessageStep, Expire, HandleTimeout, HandleGraceExpired, Finish, chanVars,
       procVars, closeVars
  <2>2. QED
    BY <1>0, <2>1
<1>c. ASSUME CloseBegin \/ CloseConfirmChannel \/ CloseReturns
      PROVE  (EndedMeansClosed /\ FailedMeansClosed)'
  <2>1. CASE CloseBegin
    BY <1>0, <2>1 DEF CloseBegin, chanVars, procVars
  <2>2. CASE CloseConfirmChannel
    BY <1>0, <2>2 DEF CloseConfirmChannel, procVars
  <2>3. CASE CloseReturns
    BY <1>0, <2>3 DEF CloseReturns, chanVars, procVars
  <2>4. QED
    BY <1>c, <2>1, <2>2, <2>3
<1>e. ASSUME FreshChannelDies \/ (\E c \in Call : ContextEnds(c)) \/ UNCHANGED vars
      PROVE  (EndedMeansClosed /\ FailedMeansClosed)'
  <2>1. UNCHANGED <<gens, cur, pc, failed, closed>>
    BY <1>e DEF FreshChannelDies, ContextEnds, vars, chanVars, procVars, closeVars
  <2>2. QED
    BY <1>0, <2>1
<1>q. QED
  BY <1>p, <1>r, <1>k, <1>g, <1>o, <1>c, <1>e DEF Next

\* No step of the publisher leaves a generation whose channel is open: refreshers of one
\* failure replace it once, and what the keeper or a publish took for dead is dead
\* (refreshConfirmChannelOpt).
THEOREM SwapsCorrect == Spec => SwapsOnlyDeadChannels
<1>1. SwapInv /\ [Next]_vars => [cur' # cur => ~gens[cur].open]_vars
  <2> SUFFICES ASSUME SwapInv, Next, cur' # cur PROVE ~gens[cur].open
    OBVIOUS
  <2>1. PICK r \in Refresher : RefreshInstall(r)
    BY DEF Next, PublishStep, RetryRepublish, RefreshStep, KeeperWakes, ReaderStep, BrokerStep,
       MessageStep, CloseBegin, CloseConfirmChannel, CloseReturns, FreshChannelDies, ContextEnds,
       PublishRejected, PublishChannelClosed, PublishEnter, RegisterRefused, Register,
       SendReachesBroker, SendSucceeds, SendFails, GiveUp, NextAttempt, RefreshSkip, RefreshLock,
       RefreshOpen, RefreshFails, RefreshCloseOld, HandleConfirmation, HandleReturn,
       ReturnReaderExits, ConfirmReaderStops, MarkDead, CollectOrphans, SettleOrphan, Expire,
       HandleTimeout, HandleGraceExpired, Finish, ChannelDies, BrokerReturns, BrokerConfirms,
       chanVars
  <2>2. pc[r] = "installing" /\ failed[r] = cur
    BY <2>1 DEF RefreshInstall, Installable, StillFailed, chanVars
  <2>3. QED
    BY <2>2 DEF SwapInv, FailedMeansClosed
<1>2. QED
  BY <1>1, InitSwap, StepSwap, PTL DEF Spec, SwapsOnlyDeadChannels
-------------------------------------------------------------------------------
\* A closed publisher's channels stay closed

\* Only the current generation's channel can be open, and Close's barrier closes it.
OnlyCurrentOpen == \A g \in Gen : gens[g].open => g = cur
ShutClosed ==
    /\ closeChan # "idle" => closed # "no"
    /\ closeChan = "done" => ~gens[cur].open

CloseInv == SwapInv /\ OnlyCurrentOpen /\ ShutClosed

LEMMA InitClose == Init => CloseInv
<1> SUFFICES ASSUME Init PROVE OnlyCurrentOpen /\ ShutClosed
  BY InitSwap DEF CloseInv
<1>1. QED
  BY DEF Init, OnlyCurrentOpen, ShutClosed, NoGeneration

Opens(g) == gens'[g].open /\ ~gens[g].open

\* Channels only close, except the one a refresh installs in place of a failed one.
LEMMA ChannelsOnlyClose ==
    ASSUME SwapInv, [Next]_vars, ~ \E r \in Refresher : RefreshInstall(r) /\ Installable(r)
    PROVE  cur' = cur /\ \A g \in Gen : ~Opens(g)
<1>0. gens \in [Gen -> Generation] /\ cur \in Gen
  BY DEF SwapInv, TypeInv, TypeOK
<1>1. ASSUME NEW p \in Proc, PublishStep(p) \/ RetryRepublish(p)
      PROVE  cur' = cur /\ \A g \in Gen : ~Opens(g)
  <2>1. CASE SendReachesBroker(p)
    BY <1>0, <2>1 DEF SendReachesBroker, Opens
  <2>2. CASE SendSucceeds(p)
    <3>1. cur' = cur /\ gens' = [gens EXCEPT ![cur].published = @ + 1]
      BY <2>2 DEF SendSucceeds
    <3>2. QED
      BY <1>0, <3>1 DEF Opens
  <2>3. CASE ~SendReachesBroker(p) /\ ~SendSucceeds(p)
    BY <1>1, <2>3 DEF PublishStep, PublishRejected, PublishChannelClosed, PublishEnter,
       RegisterRefused, Register, SendFails, GiveUp, NextAttempt, RetryRepublish, chanVars, Opens
  <2>4. QED
    BY <2>1, <2>2, <2>3
<1>2. ASSUME NEW r \in Refresher, RefreshStep(r)
      PROVE  cur' = cur /\ \A g \in Gen : ~Opens(g)
  <2>1. CASE RefreshCloseOld(r)
    BY <1>0, <2>1 DEF RefreshCloseOld, Opens
  <2>2. CASE ~RefreshCloseOld(r)
    BY <1>2, <2>2 DEF RefreshStep, RefreshSkip, RefreshLock, RefreshOpen, RefreshFails,
       RefreshInstall, chanVars, Opens
  <2>3. QED
    BY <2>1, <2>2
<1>3. ASSUME NEW h \in Gen, ReaderStep(h) \/ BrokerStep(h)
      PROVE  cur' = cur /\ \A g \in Gen : ~Opens(g)
  <2>1. CASE HandleConfirmation(h)
    <3>1. cur' = cur /\ gens' = [gens EXCEPT ![h].handled = gens[h].handled + 1]
      BY <2>1 DEF HandleConfirmation
    <3>2. QED
      BY <1>0, <3>1 DEF Opens
  <2>2. CASE HandleReturn(h)
    <3>1. cur' = cur /\ gens' = [gens EXCEPT ![h].returns = Tail(@)]
      BY <2>2 DEF HandleReturn
    <3>2. QED
      BY <1>0, <3>1 DEF Opens
  <2>3. CASE ReturnReaderExits(h) \/ ConfirmReaderStops(h)
    <3>1. CASE ReturnReaderExits(h)
      BY <1>0, <3>1 DEF ReturnReaderExits, Opens
    <3>2. CASE ConfirmReaderStops(h)
      BY <1>0, <3>2 DEF ConfirmReaderStops, Opens
    <3>3. QED
      BY <2>3, <3>1, <3>2
  <2>4. CASE MarkDead(h)
    BY <1>0, <2>4 DEF MarkDead, Opens
  <2>5. CASE CollectOrphans(h)
    BY <1>0, <2>5 DEF CollectOrphans, Opens
  <2>6. CASE \E o \in Pending : SettleOrphan(h, o)
    BY <1>0, <2>6 DEF SettleOrphan, Opens
  <2>7. CASE ChannelDies(h)
    BY <1>0, <2>7 DEF ChannelDies, Opens
  <2>8. CASE BrokerReturns(h)
    BY <1>0, <2>8 DEF BrokerReturns, Opens
  <2>9. CASE \E ack \in BOOLEAN : BrokerConfirms(h, ack)
    BY <1>0, <2>9 DEF BrokerConfirms, Opens
  <2>10. QED
    BY <1>3, <2>1, <2>2, <2>3, <2>4, <2>5, <2>6, <2>7, <2>8, <2>9 DEF ReaderStep, BrokerStep
<1>4. CASE CloseConfirmChannel
  BY <1>0, <1>4 DEF CloseConfirmChannel, Opens
<1>5. CASE \/ \E o \in Pending : MessageStep(o)
           \/ KeeperWakes \/ CloseBegin \/ CloseReturns \/ FreshChannelDies
           \/ (\E c \in Call : ContextEnds(c)) \/ UNCHANGED vars
  BY <1>5 DEF MessageStep, Expire, HandleTimeout, HandleGraceExpired, Finish, KeeperWakes,
     CloseBegin, CloseReturns, FreshChannelDies, ContextEnds, vars, chanVars, Opens
<1>6. QED
  BY <1>1, <1>2, <1>3, <1>4, <1>5 DEF Next

\* Close's steps go on in order, and nobody else takes them.
LEMMA CloseMoves ==
    ASSUME [Next]_vars
    PROVE  \/ CloseBegin \/ CloseConfirmChannel \/ CloseReturns
           \/ UNCHANGED <<closed, closeChan>>
<1>1. CASE \E p \in Proc : PublishStep(p) \/ RetryRepublish(p)
  BY <1>1 DEF PublishStep, RetryRepublish, PublishRejected, PublishChannelClosed, PublishEnter,
     RegisterRefused, Register, SendReachesBroker, SendSucceeds, SendFails, GiveUp, NextAttempt,
     closeVars
<1>2. CASE \E r \in Refresher : RefreshStep(r)
  BY <1>2 DEF RefreshStep, RefreshSkip, RefreshLock, RefreshOpen, RefreshFails, RefreshInstall,
     RefreshCloseOld, closeVars
<1>3. CASE \E g \in Gen : ReaderStep(g) \/ BrokerStep(g)
  BY <1>3 DEF ReaderStep, BrokerStep, HandleConfirmation, HandleReturn, ReturnReaderExits,
     ConfirmReaderStops, MarkDead, CollectOrphans, SettleOrphan, ChannelDies, BrokerReturns,
     BrokerConfirms, closeVars
<1>4. CASE \E o \in Pending : MessageStep(o)
  BY <1>4 DEF MessageStep, Expire, HandleTimeout, HandleGraceExpired, Finish, closeVars
<1>5. CASE KeeperWakes \/ FreshChannelDies \/ (\E c \in Call : ContextEnds(c)) \/ UNCHANGED vars
  BY <1>5 DEF KeeperWakes, FreshChannelDies, ContextEnds, closeVars, vars
<1>6. QED
  BY <1>1, <1>2, <1>3, <1>4, <1>5 DEF Next

LEMMA StepClose == CloseInv /\ [Next]_vars => CloseInv'
<1> SUFFICES ASSUME CloseInv, [Next]_vars PROVE (OnlyCurrentOpen /\ ShutClosed)'
  BY StepSwap DEF CloseInv
<1> USE DEF OnlyCurrentOpen, ShutClosed
<1>0. /\ SwapInv /\ OnlyCurrentOpen /\ ShutClosed /\ FailedMeansClosed
      /\ gens \in [Gen -> Generation] /\ cur \in Gen /\ cur \in Nat /\ Gen \subseteq Nat
  BY ConstantsOK DEF CloseInv, SwapInv, TypeInv, TypeOK, Gen
<1>1. CASE \E r \in Refresher : RefreshInstall(r) /\ Installable(r)
  <2>1. PICK r \in Refresher : RefreshInstall(r) /\ Installable(r)
    BY <1>1
  <2>2. /\ pc[r] = "installing" /\ failed[r] = cur /\ closed = "no"
        /\ cur' = cur + 1 /\ UNCHANGED <<closed, closeChan>>
        /\ gens' = [gens EXCEPT ![cur + 1] = InstalledGeneration(fresh = "open")]
    BY <2>1 DEF RefreshInstall, Installable, StillFailed, closeVars
  <2>3. ~gens[cur].open
    BY <1>0, <2>2 DEF FailedMeansClosed
  <2>4. \A g \in Gen : g # cur + 1 => ~gens'[g].open
    BY <1>0, <2>2, <2>3
  <2>5. closeChan' = "idle"
    BY <1>0, <2>2
  <2>6. QED
    BY <2>2, <2>4, <2>5
<1>2. CASE ~ \E r \in Refresher : RefreshInstall(r) /\ Installable(r)
  <2>1. cur' = cur /\ \A g \in Gen : ~Opens(g)
    BY <1>0, <1>2, ChannelsOnlyClose
  <2>2. OnlyCurrentOpen' /\ (~gens[cur].open => ~gens'[cur].open)
    BY <1>0, <2>1 DEF Opens
  <2>3. CASE UNCHANGED <<closed, closeChan>>
    BY <1>0, <2>1, <2>2, <2>3
  <2>4. CASE CloseBegin
    BY <2>2, <2>4 DEF CloseBegin
  <2>5. CASE CloseConfirmChannel
    BY <1>0, <2>2, <2>5 DEF CloseConfirmChannel
  <2>6. CASE CloseReturns
    BY <1>0, <2>1, <2>2, <2>6 DEF CloseReturns
  <2>7. QED
    BY <2>3, <2>4, <2>5, <2>6, CloseMoves
<1>3. QED
  BY <1>1, <1>2

\* Once Close's barrier has closed the confirm channel no channel is or gets open: a refresh
\* that Close overtook installs nothing (refreshConfirmChannelOpt, Close).
THEOREM CloseCorrect == Spec => []ClosedForGood
<1>1. CloseInv => ClosedForGood
  BY DEF CloseInv, SwapInv, OnlyCurrentOpen, ShutClosed, ClosedForGood
<1>2. QED
  BY <1>1, InitClose, StepClose, PTL DEF Spec
-------------------------------------------------------------------------------
\* A delivery tag finds its own message

LEMMA InitMatch == Init => IInv
<1> SUFFICES ASSUME Init PROVE IInv
  OBVIOUS
<1>1. /\ \A p \in Proc : p # Keeper
      /\ Proc \subseteq Refresher
  BY SentinelsOK, ConstantsOK DEF Proc, Refresher
<1>2. \A p \in Proc : pc[p] = IF p[2] = 0 THEN "publish" ELSE "idle"
  BY <1>1 DEF Init
<1>3. Exclusive
  BY <1>2, SentinelsOK DEF Init, Exclusive, InPublishMu, Proc
<1>4. HolderTagged
  BY <1>2 DEF HolderTagged, InPublishMu
<1>5. CountsAgree
  <2>1. \A g \in Gen : Len(gens[g].sent) = 0 /\ Len(gens[g].verdicts) = 0 /\ gens[g].published = 0
    BY InstalledGenerationType DEF Init, NoGeneration
  <2>2. \A g \in Gen : ~Ahead(g)
    BY <1>2 DEF Ahead
  <2>3. QED
    BY <2>1, <2>2 DEF CountsAgree
<1>6. TagsCounted /\ EntriesCurrent /\ ConfirmsMatch
  BY DEF Init, TagsCounted, EntriesCurrent, ConfirmsMatch
<1>7. NacksDecide
  BY DEF Init, NacksDecide, NewPending
<1>8. RetriesFollowNacks
  BY <1>2 DEF RetriesFollowNacks
<1>9. QED
  BY <1>3, <1>4, <1>5, <1>6, <1>7, <1>8, InitTypes DEF IInv

\* Where a process has nothing in the pending map and does not hold publishMu.
Loose == {"publish", "backoff", "delay", "opening", "installing", "closeOld", "refreshed", "error"}

\* The retry of a message that reached the broker and has just been decided.
StartsRetry(p) ==
    LET before == <<p[1], p[2] - 1>>
    IN  /\ p[2] > 0 /\ before \in Proc
        /\ pc[p] = "idle" /\ pc'[p] = "backoff"
        /\ pc[before] \in {"sent", "nil"} /\ pend'[Current(before)].CallbackFired

\* Most steps publish nothing: they only remove entries, decide messages, move processes
\* that hold nothing, start retries and close channels.
QuietMessages ==
    /\ byTag' \subseteq byTag
    /\ \A o \in Pending :
          /\ pend'[o].gen = pend[o].gen
          /\ pend'[o].tag = pend[o].tag
          /\ pend[o].CallbackFired => pend'[o].CallbackFired
          /\ pend'[o].Nacked => pend'[o].CallbackFired

QuietProcesses ==
    /\ publishMu' = publishMu
    /\ \A p \in Proc : \/ pc'[p] = pc[p] /\ attempt'[p] = attempt[p]
                       \/ pc[p] \in Loose /\ pc'[p] \in Loose
                       \/ StartsRetry(p) /\ attempt'[p] = attempt[p]

QuietChannels ==
    /\ cur' = cur
    /\ \A g \in Gen : /\ gens'[g].sent = gens[g].sent
                      /\ gens'[g].published = gens[g].published
                      /\ gens'[g].open => gens[g].open
                      /\ Len(gens'[g].verdicts) <= Len(gens'[g].sent)

Quiet == QuietMessages /\ QuietProcesses /\ QuietChannels

LEMMA ProcFacts ==
    ASSUME NEW p \in Proc, p[2] > 0
    PROVE  <<p[1], p[2] - 1>> \in Proc /\ <<p[1], p[2] - 1>> # p
BY ConstantsOK DEF Proc

LEMMA QuietKeepsIInv == IInv /\ TypeInv' /\ Quiet => IInv'
<1> SUFFICES ASSUME IInv, TypeInv', Quiet PROVE IInv'
  OBVIOUS
<1>0. /\ byTag \subseteq Pending /\ cur \in Gen
      /\ \A o \in Pending : o[1] \in Proc
  BY DEF IInv, TypeInv, TypeOK, Pending
<1>1. \A p \in Proc : /\ pc'[p] \in InPublishMu <=> pc[p] \in InPublishMu
                      /\ pc'[p] = "sent" <=> pc[p] = "sent"
                      /\ pc[p] \in {"sending", "sent", "nil"} =>
                            pc'[p] = pc[p] /\ Current(p)' = Current(p)
                      /\ pc'[p] = "nil" => pc[p] = "nil"
  BY DEF Quiet, QuietProcesses, StartsRetry, Loose, InPublishMu, Current
<1>2. Exclusive'
  BY <1>1 DEF IInv, Exclusive, Quiet, QuietProcesses
<1>3. HolderTagged'
  <2> SUFFICES ASSUME NEW p \in Proc, pc'[p] \in InPublishMu
               PROVE  pend'[Current(p)'].gen = cur' /\ pend'[Current(p)'].tag = gens'[cur'].published + 1
    BY DEF HolderTagged
  <2>1. pc[p] \in InPublishMu /\ Current(p)' = Current(p) /\ Current(p) \in Pending
    BY <1>1, CurrentType DEF Quiet, QuietProcesses, StartsRetry, Loose, InPublishMu, Current, IInv, TypeInv
  <2>2. QED
    BY <1>0, <2>1 DEF Quiet, QuietMessages, QuietChannels, IInv, HolderTagged
<1>4. CountsAgree'
  <2>1. \A g \in Gen : Ahead(g)' = Ahead(g)
    BY <1>1 DEF Ahead, Quiet, QuietChannels
  <2>2. QED
    BY <2>1 DEF CountsAgree, IInv, Quiet, QuietChannels
<1>5. EntriesCurrent'
  BY <1>0, <1>1 DEF EntriesCurrent, IInv, Quiet, QuietMessages
<1>6. \A o \in byTag : pend[o].gen \in Gen
  BY <1>0, ConstantsOK DEF IInv, TagsCounted, Gen
<1>7. TagsCounted'
  BY <1>0, <1>1, <1>6 DEF TagsCounted, IInv, Quiet, QuietMessages, QuietChannels
<1>8. NacksDecide'
  BY DEF NacksDecide, Quiet, QuietMessages
<1>9. RetriesFollowNacks'
  <2> SUFFICES ASSUME NEW p \in Proc, p[2] > 0, pc'[p] # "idle"
               PROVE  LET before == <<p[1], p[2] - 1>>
                      IN  pc'[before] \in {"sent", "nil"} /\ pend'[Current(before)'].CallbackFired
    BY DEF RetriesFollowNacks
  <2> DEFINE before == <<p[1], p[2] - 1>>
  <2>1. before \in Proc /\ Current(before) \in Pending
    BY ProcFacts, CurrentType DEF IInv, TypeInv
  <2>2. pc[before] \in {"sent", "nil"} /\ pend'[Current(before)].CallbackFired
    BY <2>1 DEF Quiet, QuietMessages, QuietProcesses, StartsRetry, Loose, IInv, RetriesFollowNacks
  <2>3. QED
    BY <1>1, <2>1, <2>2
<1>10. ConfirmsMatch'
  BY <1>0, <1>6 DEF ConfirmsMatch, IInv, Quiet, QuietMessages, QuietChannels
<1>11. QED
  BY <1>2, <1>3, <1>4, <1>5, <1>7, <1>8, <1>9, <1>10 DEF IInv
\* The facts every step below starts from.
LEMMA StateFacts ==
    ASSUME IInv
    PROVE  /\ TypeOK
           /\ byTag \subseteq Pending /\ cur \in Gen /\ cur \in Nat
           /\ Proc \subseteq Refresher /\ Keeper \notin Proc /\ None \notin Proc
           /\ pend \in [Pending -> PendingMessage] /\ gens \in [Gen -> Generation]
           /\ pc \in [Refresher -> {"idle", "watch", "backoff", "publish", "entered", "sending",
                                    "sent", "delay", "opening", "installing", "closeOld",
                                    "refreshed", "nil", "error"}]
           /\ attempt \in [Proc -> Attempt]
           /\ \A o \in Pending : o[1] \in Proc
           /\ \A o \in Pending : pend[o].Nacked => pend[o].CallbackFired
           /\ \A g \in Gen : Len(gens[g].verdicts) <= Len(gens[g].sent)
<1>1. TypeOK /\ byTag \subseteq Pending /\ cur \in Gen
  BY DEF IInv, TypeInv, TypeOK
<1>2. cur \in Nat
  BY <1>1, ConstantsOK DEF Gen
<1>3. Proc \subseteq Refresher /\ Keeper \notin Proc /\ None \notin Proc
  BY SentinelsOK, ConstantsOK DEF Refresher, Proc
<1>4. /\ pend \in [Pending -> PendingMessage] /\ gens \in [Gen -> Generation]
      /\ pc \in [Refresher -> {"idle", "watch", "backoff", "publish", "entered", "sending",
                               "sent", "delay", "opening", "installing", "closeOld",
                               "refreshed", "nil", "error"}]
      /\ attempt \in [Proc -> Attempt]
  BY <1>1 DEF TypeOK
<1>5. \A o \in Pending : o[1] \in Proc
  BY DEF Pending
<1>6. \A o \in Pending : pend[o].Nacked => pend[o].CallbackFired
  BY DEF IInv, NacksDecide
<1>7. \A g \in Gen : Len(gens[g].verdicts) <= Len(gens[g].sent)
  BY DEF IInv, CountsAgree
<1>8. QED
  BY <1>1, <1>2, <1>3, <1>4, <1>5, <1>6, <1>7

\* Only a message that reached the broker is confirmed: its sender has sent it.
LEMMA ConfirmedWereSent ==
    ASSUME IInv, NEW g \in Gen, NEW t \in 1 .. Len(gens[g].verdicts), NEW o \in AtKey(<<g, t>>)
    PROVE  o \in byTag /\ o = Current(o[1]) /\ pc[o[1]] \in {"sent", "nil"}
<1>1. o \in byTag /\ pend[o].gen = g /\ pend[o].tag = t
  BY DEF AtKey, KeyOf
<1>2. o = Current(o[1]) /\ pc[o[1]] \in {"sending", "sent", "nil"} /\ o[1] \in Proc
  BY <1>1, StateFacts DEF IInv, EntriesCurrent
<1>3. ASSUME pc[o[1]] = "sending" PROVE FALSE
  <2>1. publishMu = o[1] /\ g = cur /\ t = gens[cur].published + 1
    BY <1>1, <1>2, <1>3 DEF IInv, Exclusive, HolderTagged, InPublishMu
  <2>2. ~Ahead(cur)
    BY <1>2, <1>3, <2>1 DEF Ahead, IInv, Exclusive, InPublishMu
  <2>3. /\ gens[cur].published \in Nat /\ Len(gens[cur].verdicts) \in Nat
        /\ Len(gens[cur].sent) \in Nat
    BY StateFacts DEF Generation
  <2>4. Len(gens[cur].verdicts) <= Len(gens[cur].sent) /\ Len(gens[cur].sent) <= gens[cur].published
    BY <2>1, <2>2, <2>3 DEF IInv, CountsAgree
  <2>5. QED
    BY <2>1, <2>3, <2>4
<1>4. QED
  BY <1>1, <1>2, <1>3

LEMMA MessagesUntouched ==
    ASSUME IInv, pend' = pend, byTag' \subseteq byTag
    PROVE  QuietMessages
BY StateFacts DEF QuietMessages

LEMMA ChannelsUntouched ==
    ASSUME IInv, cur' = cur,
           \A g \in Gen : /\ gens'[g].sent = gens[g].sent
                          /\ gens'[g].published = gens[g].published
                          /\ gens'[g].verdicts = gens[g].verdicts
                          /\ gens'[g].open => gens[g].open
    PROVE  QuietChannels
<1>1. \A g \in Gen : Len(gens[g].verdicts) <= Len(gens[g].sent)
  BY StateFacts
<1>2. QED
  BY <1>1 DEF QuietChannels

\* Closing a channel leaves what it has carried alone.
LEMMA ShuttingKeeps ==
    ASSUME gens \in [Gen -> Generation],
           \A g \in Gen : gens'[g] = gens[g] \/ gens'[g] = [gens[g] EXCEPT !.open = FALSE]
    PROVE  \A g \in Gen : /\ gens'[g].sent = gens[g].sent
                          /\ gens'[g].published = gens[g].published
                          /\ gens'[g].verdicts = gens[g].verdicts
                          /\ gens'[g].open => gens[g].open
<1>1. ASSUME NEW g \in Gen
      PROVE  /\ gens'[g].sent = gens[g].sent
             /\ gens'[g].published = gens[g].published
             /\ gens'[g].verdicts = gens[g].verdicts
             /\ gens'[g].open => gens[g].open
  <2>1. gens[g] \in Generation
    BY <1>1
  <2>2. CASE gens'[g] = gens[g]
    BY <2>2
  <2>3. CASE gens'[g] = [gens[g] EXCEPT !.open = FALSE]
    BY <2>1, <2>3 DEF Generation
  <2>4. QED
    BY <1>1, <2>2, <2>3
<1>2. QED
  BY <1>1

\* Any change to one message that keeps its key, and claims it if it is nacked.
LEMMA OneMessage ==
    ASSUME IInv, NEW o \in Pending, byTag' = byTag,
           \A q \in Pending : q # o => pend'[q] = pend[q],
           pend'[o].gen = pend[o].gen, pend'[o].tag = pend[o].tag,
           pend[o].CallbackFired => pend'[o].CallbackFired,
           pend'[o].Nacked => pend'[o].CallbackFired
    PROVE  QuietMessages
<1>1. \A q \in Pending : pend[q].Nacked => pend[q].CallbackFired
  BY StateFacts
<1>2. QED
  BY <1>1 DEF QuietMessages

LEMMA QuietPublishSteps ==
    ASSUME IInv, NEW p \in Proc,
           \/ PublishRejected(p) \/ PublishChannelClosed(p) \/ GiveUp(p) \/ NextAttempt(p)
           \/ RetryRepublish(p)
    PROVE  Quiet
<1>1. /\ \A q \in Proc : q # p => pc'[q] = pc[q] /\ attempt'[q] = attempt[q]
      /\ pc[p] \in Loose /\ pc'[p] \in Loose
      /\ byTag' \subseteq byTag
      /\ UNCHANGED <<pend, gens, publishMu, cur>>
  BY StateFacts DEF PublishRejected, PublishChannelClosed, GiveUp, NextAttempt, RetryRepublish,
     Fail, ChannelError, Delete, Loose, msgVars, chanVars, lockVars
<1>2. QuietMessages
  BY <1>1, MessagesUntouched
<1>3. QuietProcesses
  BY <1>1 DEF QuietProcesses
<1>4. QuietChannels
  BY <1>1, ChannelsUntouched
<1>5. QED
  BY <1>2, <1>3, <1>4 DEF Quiet

LEMMA QuietRefreshSteps ==
    ASSUME IInv, NEW r \in Refresher,
           \/ RefreshSkip(r) \/ RefreshLock(r) \/ RefreshOpen(r) \/ RefreshFails(r)
           \/ (RefreshInstall(r) /\ ~Installable(r))
           \/ RefreshCloseOld(r)
    PROVE  Quiet
<1>1. /\ \A q \in Refresher : q # r => pc'[q] = pc[q]
      /\ r \in Proc => pc[r] \in Loose /\ pc'[r] \in Loose
      /\ UNCHANGED <<pend, byTag, attempt, publishMu, cur>>
  BY StateFacts DEF RefreshSkip, RefreshLock, RefreshOpen, RefreshFails, RefreshInstall,
     RefreshCloseOld, AfterRefresh, Loose, msgVars, chanVars, lockVars
<1>2. gens' = gens \/ gens' = [gens EXCEPT ![failed[r]].open = FALSE]
  BY DEF RefreshSkip, RefreshLock, RefreshOpen, RefreshFails, RefreshInstall, RefreshCloseOld,
     chanVars
<1>3. QuietMessages
  BY <1>1, MessagesUntouched
<1>4. QuietProcesses
  BY <1>1, StateFacts DEF QuietProcesses
<1>5. QuietChannels
  <2>1. gens \in [Gen -> Generation]
    BY StateFacts
  <2>2. \A g \in Gen : /\ gens'[g].sent = gens[g].sent
                       /\ gens'[g].published = gens[g].published
                       /\ gens'[g].verdicts = gens[g].verdicts
                       /\ gens'[g].open => gens[g].open
    <3>1. CASE gens' = gens
      BY <3>1
    <3>2. CASE gens' = [gens EXCEPT ![failed[r]].open = FALSE]
      <4>1. \A g \in Gen : gens'[g] = gens[g] \/ gens'[g] = [gens[g] EXCEPT !.open = FALSE]
        BY <2>1, <3>2
      <4>2. QED
        BY <2>1, <4>1, ShuttingKeeps
    <3>3. QED
      BY <1>2, <3>1, <3>2
  <2>3. QED
    BY <1>1, <2>2, ChannelsUntouched
<1>6. QED
  BY <1>3, <1>4, <1>5 DEF Quiet

LEMMA QuietConfirmation ==
    ASSUME IInv, NEW g \in Gen, HandleConfirmation(g)
    PROVE  Quiet
<1> DEFINE tag == gens[g].handled + 1
           ack == gens[g].verdicts[tag]
           seen(o) == [pend[o] EXCEPT !.Confirmed = @ \/ ack, !.Nacked = @ \/ ~ack]
<1>1. gens \in [Gen -> Generation] /\ gens[g] \in Generation
  BY StateFacts
<1>2. /\ gens' = [gens EXCEPT ![g].handled = tag]
      /\ UNCHANGED <<publishMu, cur, attempt>>
      /\ byTag' = byTag
  BY DEF HandleConfirmation, lockVars
<1>3. QuietChannels
  <2>1. \A h \in Gen : /\ gens'[h].sent = gens[h].sent
                       /\ gens'[h].published = gens[h].published
                       /\ gens'[h].verdicts = gens[h].verdicts
                       /\ gens'[h].open = gens[h].open
    BY <1>1, <1>2 DEF Generation
  <2>2. QED
    BY <1>2, <2>1, ChannelsUntouched
<1>4. CASE UNCHANGED <<pend, stats, pc>>
  <2>1. QuietMessages
    BY <1>2, <1>4, MessagesUntouched
  <2>2. QuietProcesses
    BY <1>2, <1>4 DEF QuietProcesses
  <2>3. QED
    BY <1>3, <2>1, <2>2 DEF Quiet
<1>5. ASSUME NEW o \in AtKey(<<g, tag>>), TryFinalizeMessage(o, seen(o)) PROVE Quiet
  <2>1. tag \in 1 .. Len(gens[g].verdicts) /\ ack \in BOOLEAN
    <3>1. gens[g].handled \in Nat /\ gens[g].verdicts \in Seq(BOOLEAN)
      BY <1>1 DEF Generation
    <3>2. tag <= Len(gens[g].verdicts)
      BY DEF HandleConfirmation
    <3>3. QED
      BY <3>1, <3>2
  <2>2. o \in Pending /\ o = Current(o[1]) /\ pc[o[1]] \in {"sent", "nil"} /\ o[1] \in Proc
    BY <2>1, ConfirmedWereSent, StateFacts
  <2>3. pend[o] \in PendingMessage
    BY <2>2, StateFacts
  <2>4. /\ seen(o) \in PendingMessage
        /\ seen(o).gen = pend[o].gen /\ seen(o).tag = pend[o].tag
        /\ seen(o).CallbackFired = pend[o].CallbackFired
    <3>1. /\ (pend[o].Confirmed \/ ack) \in BOOLEAN
          /\ (pend[o].Nacked \/ ~ack) \in BOOLEAN
      OBVIOUS
    <3> HIDE DEF ack
    <3>2. QED
      BY <2>3, <3>1 DEF PendingMessage
  <2> DEFINE next == <<CallOf(o), RetryOf(o) + 1>>
             retried == ~pend[o].CallbackFired /\ Retries(o, seen(o))
             final == Finalized(o, seen(o))
  <2>5. /\ pend' = [pend EXCEPT ![o] = final]
        /\ pc' = IF retried THEN [pc EXCEPT ![next] = "backoff"] ELSE pc
    BY <1>5, <2>4 DEF TryFinalizeMessage
  <2>6. /\ final.gen = pend[o].gen /\ final.tag = pend[o].tag
        /\ pend[o].CallbackFired => final.CallbackFired
        /\ final.Nacked => final.CallbackFired
    <3> HIDE DEF seen
    <3>1. QED
      BY <2>2, <2>4, FinalizedFacts
  <2>7. pend'[o] = final /\ \A q \in Pending : q # o => pend'[q] = pend[q]
    BY <2>2, <2>5, StateFacts
  <2>8. QuietMessages
    <3> HIDE DEF final
    <3>1. QED
      BY <1>2, <2>2, <2>6, <2>7, OneMessage
  <2>9. ASSUME retried PROVE StartsRetry(next) /\ next \in Proc
    <3>1. next \in Proc /\ next[2] > 0 /\ <<next[1], next[2] - 1>> = o[1]
      BY <2>2, <2>9, ConstantsOK DEF Retries, RetryOf, CallOf, Proc
    <3>2. pc[next] = "idle"
      <4>1. ~pend[Current(<<next[1], next[2] - 1>>)].CallbackFired
        BY <2>2, <2>9, <3>1
      <4> HIDE DEF next
      <4>2. QED
        BY <3>1, <4>1 DEF IInv, RetriesFollowNacks
    <3>3. pend'[o].CallbackFired
      <4>1. seen(o).Nacked
        BY <2>9 DEF Retries
      <4> HIDE DEF seen
      <4>2. final.CallbackFired
        BY <2>2, <2>4, <4>1, FinalizedFacts
      <4>3. QED
        BY <2>7, <4>2
    <3>4. pc'[next] = "backoff"
      BY <2>5, <2>9, <3>1, StateFacts
    <3>5. QED
      BY <2>2, <3>1, <3>2, <3>3, <3>4 DEF StartsRetry
  <2>10. QuietProcesses
    <3>1. \A q \in Proc : pc'[q] = pc[q] \/ StartsRetry(q)
      BY <2>5, <2>9, StateFacts
    <3>2. QED
      BY <1>2, <3>1 DEF QuietProcesses
  <2>11. QED
    BY <1>3, <2>8, <2>10 DEF Quiet
<1>6. QED
  BY <1>4, <1>5 DEF HandleConfirmation

LEMMA QuietReturn ==
    ASSUME IInv, NEW g \in Gen, HandleReturn(g)
    PROVE  Quiet
<1> DEFINE o == byId[Head(gens[g].returns)]
           seen == [pend[o] EXCEPT !.Returned = TRUE]
           final == Finalized(o, seen)
<1>1. gens \in [Gen -> Generation] /\ gens[g] \in Generation
  BY StateFacts
<1>2. /\ gens' = [gens EXCEPT ![g].returns = Tail(@)]
      /\ UNCHANGED <<publishMu, cur, attempt>>
      /\ byTag' = byTag
  BY DEF HandleReturn, lockVars
<1>3. QuietChannels
  <2>1. \A h \in Gen : /\ gens'[h].sent = gens[h].sent
                       /\ gens'[h].published = gens[h].published
                       /\ gens'[h].verdicts = gens[h].verdicts
                       /\ gens'[h].open = gens[h].open
    BY <1>1, <1>2 DEF Generation
  <2>2. QED
    BY <1>2, <2>1, ChannelsUntouched
<1>4. CASE UNCHANGED <<pend, stats, pc>>
  <2>1. QuietMessages
    BY <1>2, <1>4, MessagesUntouched
  <2>2. QuietProcesses
    BY <1>2, <1>4 DEF QuietProcesses
  <2>3. QED
    BY <1>3, <2>1, <2>2 DEF Quiet
<1>5. CASE o # None /\ ~pend[o].CallbackFired /\ TryFinalizeMessage(o, seen)
  <2>1. Head(gens[g].returns) \in MsgId
    BY <1>1, HeadTailProperties DEF HandleReturn, Generation
  <2>2. o \in Pending
    BY <1>5, <2>1, StateFacts DEF TypeOK
  <2>3. pend[o] \in PendingMessage /\ ~pend[o].Nacked
    BY <1>5, <2>2, StateFacts
  <2>4. /\ seen \in PendingMessage /\ ~seen.Nacked
        /\ seen.gen = pend[o].gen /\ seen.tag = pend[o].tag
    BY <2>3 DEF PendingMessage
  <2>5. pend' = [pend EXCEPT ![o] = final] /\ pc' = pc
    BY <1>5, <2>4 DEF TryFinalizeMessage, Retries
  <2>6. final.gen = pend[o].gen /\ final.tag = pend[o].tag /\ ~final.Nacked
    <3> HIDE DEF seen
    <3>1. QED
      BY <2>2, <2>4, FinalizedFacts
  <2>7. pend'[o] = final /\ \A q \in Pending : q # o => pend'[q] = pend[q]
    <3> HIDE DEF o, final
    <3>1. QED
      BY <2>2, <2>5, StateFacts
  <2>8. QuietMessages
    <3> HIDE DEF o, final
    <3>1. QED
      BY <1>2, <1>5, <2>2, <2>6, <2>7, OneMessage
  <2>9. QED
    BY <1>2, <1>3, <2>5, <2>8 DEF Quiet, QuietProcesses
<1>6. QED
  BY <1>4, <1>5 DEF HandleReturn

LEMMA QuietSettle ==
    ASSUME IInv, NEW g \in Gen, NEW o \in Pending, SettleOrphan(g, o)
    PROVE  Quiet
<1>1. gens \in [Gen -> Generation] /\ pend[o] \in PendingMessage
  BY StateFacts
<1>2. /\ UNCHANGED <<byTag, publishMu, cur, pc, attempt>>
      /\ gens' = [gens EXCEPT ![g].orphans = @ \ {o}]
  BY DEF SettleOrphan, lockVars, procVars
<1>3. /\ Claim(pend[o], "orphaned").gen = pend[o].gen
      /\ Claim(pend[o], "orphaned").tag = pend[o].tag
      /\ Claim(pend[o], "orphaned").CallbackFired
  BY <1>1, ClaimFacts DEF Outcome, Counted
<1>4. /\ pend'[o] \in {pend[o], [pend[o] EXCEPT !.orphanDeferred = TRUE], Claim(pend[o], "orphaned")}
      /\ \A q \in Pending : q # o => pend'[q] = pend[q]
  BY StateFacts DEF SettleOrphan
<1>5. /\ pend'[o].gen = pend[o].gen /\ pend'[o].tag = pend[o].tag
      /\ pend[o].CallbackFired => pend'[o].CallbackFired
      /\ pend'[o].Nacked => pend'[o].CallbackFired
  BY <1>1, <1>3, <1>4, StateFacts DEF PendingMessage
<1>6. QuietMessages
  BY <1>2, <1>4, <1>5, OneMessage
<1>7. \A h \in Gen : /\ gens'[h].sent = gens[h].sent
                     /\ gens'[h].published = gens[h].published
                     /\ gens'[h].verdicts = gens[h].verdicts
                     /\ gens'[h].open = gens[h].open
  BY <1>1, <1>2 DEF Generation
<1>8. QED
  BY <1>2, <1>6, <1>7, ChannelsUntouched DEF Quiet, QuietProcesses
LEMMA QuietReaderSteps ==
    ASSUME IInv, NEW g \in Gen, ReaderStep(g) \/ BrokerStep(g)
    PROVE  Quiet
<1>0. gens \in [Gen -> Generation] /\ gens[g] \in Generation
  BY StateFacts
<1>1. CASE HandleConfirmation(g) \/ HandleReturn(g) \/ \E o \in Pending : SettleOrphan(g, o)
  BY <1>1, QuietConfirmation, QuietReturn, QuietSettle
<1>2. ASSUME UNCHANGED <<pend, byTag, publishMu, cur, pc, attempt>>,
             \A h \in Gen : /\ gens'[h].sent = gens[h].sent
                            /\ gens'[h].published = gens[h].published
                            /\ gens'[h].verdicts = gens[h].verdicts
                            /\ gens'[h].open => gens[h].open
      PROVE  Quiet
  BY <1>2, MessagesUntouched, ChannelsUntouched DEF Quiet, QuietProcesses
<1>3. CASE ReturnReaderExits(g)
  <2>1. UNCHANGED <<pend, byTag, publishMu, cur, pc, attempt>>
    BY <1>3 DEF ReturnReaderExits, msgVars, lockVars, procVars
  <2>2. \A h \in Gen : /\ gens'[h].sent = gens[h].sent
                       /\ gens'[h].published = gens[h].published
                       /\ gens'[h].verdicts = gens[h].verdicts
                       /\ gens'[h].open => gens[h].open
    BY <1>0, <1>3 DEF ReturnReaderExits, Generation
  <2>3. QED
    BY <1>2, <2>1, <2>2
<1>4. CASE ConfirmReaderStops(g)
  <2>1. UNCHANGED <<pend, byTag, publishMu, cur, pc, attempt>>
    BY <1>4 DEF ConfirmReaderStops, msgVars, lockVars, procVars
  <2>2. \A h \in Gen : /\ gens'[h].sent = gens[h].sent
                       /\ gens'[h].published = gens[h].published
                       /\ gens'[h].verdicts = gens[h].verdicts
                       /\ gens'[h].open => gens[h].open
    BY <1>0, <1>4 DEF ConfirmReaderStops, Generation
  <2>3. QED
    BY <1>2, <2>1, <2>2
<1>5. CASE MarkDead(g)
  <2>1. UNCHANGED <<pend, byTag, publishMu, cur, pc, attempt>>
    BY <1>5 DEF MarkDead, msgVars, lockVars, procVars
  <2>2. \A h \in Gen : /\ gens'[h].sent = gens[h].sent
                       /\ gens'[h].published = gens[h].published
                       /\ gens'[h].verdicts = gens[h].verdicts
                       /\ gens'[h].open => gens[h].open
    BY <1>0, <1>5 DEF MarkDead, Generation
  <2>3. QED
    BY <1>2, <2>1, <2>2
<1>6. CASE CollectOrphans(g)
  <2>1. UNCHANGED <<pend, byTag, publishMu, cur, pc, attempt>>
    BY <1>6 DEF CollectOrphans, msgVars, lockVars, procVars
  <2>2. \A h \in Gen : /\ gens'[h].sent = gens[h].sent
                       /\ gens'[h].published = gens[h].published
                       /\ gens'[h].verdicts = gens[h].verdicts
                       /\ gens'[h].open => gens[h].open
    BY <1>0, <1>6 DEF CollectOrphans, Generation
  <2>3. QED
    BY <1>2, <2>1, <2>2
<1>7. CASE ChannelDies(g)
  <2>1. UNCHANGED <<pend, byTag, publishMu, cur, pc, attempt>>
    BY <1>7 DEF ChannelDies, msgVars, lockVars, procVars
  <2>2. \A h \in Gen : /\ gens'[h].sent = gens[h].sent
                       /\ gens'[h].published = gens[h].published
                       /\ gens'[h].verdicts = gens[h].verdicts
                       /\ gens'[h].open => gens[h].open
    BY <1>0, <1>7 DEF ChannelDies, Generation
  <2>3. QED
    BY <1>2, <2>1, <2>2
<1>8. CASE BrokerReturns(g)
  <2>1. UNCHANGED <<pend, byTag, publishMu, cur, pc, attempt>>
    BY <1>8 DEF BrokerReturns, msgVars, lockVars, procVars
  <2>2. \A h \in Gen : /\ gens'[h].sent = gens[h].sent
                       /\ gens'[h].published = gens[h].published
                       /\ gens'[h].verdicts = gens[h].verdicts
                       /\ gens'[h].open => gens[h].open
    BY <1>0, <1>8 DEF BrokerReturns, Generation
  <2>3. QED
    BY <1>2, <2>1, <2>2
<1>9. ASSUME NEW ack \in BOOLEAN, BrokerConfirms(g, ack) PROVE Quiet
  <2>1. /\ UNCHANGED <<pend, byTag, publishMu, cur, pc, attempt>>
        /\ gens' = [gens EXCEPT ![g].verdicts = Append(@, ack)]
        /\ Len(gens[g].verdicts) + 1 <= Len(gens[g].sent)
    BY <1>9 DEF BrokerConfirms, NextTag, msgVars, lockVars, procVars
  <2>2. Len(Append(gens[g].verdicts, ack)) = Len(gens[g].verdicts) + 1
    BY <1>0, AppendProperties DEF Generation
  <2>3. /\ gens'[g].sent = gens[g].sent /\ gens'[g].published = gens[g].published
        /\ gens'[g].open = gens[g].open /\ Len(gens'[g].verdicts) <= Len(gens[g].sent)
        /\ \A h \in Gen : h # g => gens'[h] = gens[h]
    BY <1>0, <2>1, <2>2 DEF Generation
  <2>4. QuietChannels
    <3>1. \A h \in Gen : Len(gens[h].verdicts) <= Len(gens[h].sent)
      BY StateFacts
    <3>2. QED
      BY <2>1, <2>3, <3>1 DEF QuietChannels
  <2>5. QED
    BY <2>1, <2>4, MessagesUntouched DEF Quiet, QuietProcesses
<1>10. QED
  BY <1>1, <1>3, <1>4, <1>5, <1>6, <1>7, <1>8, <1>9 DEF ReaderStep, BrokerStep

LEMMA QuietMessageSteps ==
    ASSUME IInv, NEW o \in Pending, MessageStep(o)
    PROVE  Quiet
<1>0. pend \in [Pending -> PendingMessage] /\ byTag \subseteq Pending
  BY StateFacts
<1>1. UNCHANGED <<gens, cur, publishMu, pc, attempt>> /\ byTag' \subseteq byTag
  BY DEF MessageStep, Expire, HandleTimeout, HandleGraceExpired, Finish, Delete, chanVars, lockVars,
     procVars
<1>2. QuietChannels
  BY <1>1, ChannelsUntouched
<1>3. \A q \in Pending : /\ pend'[q].gen = pend[q].gen
                         /\ pend'[q].tag = pend[q].tag
                         /\ pend'[q].Nacked = pend[q].Nacked
                         /\ pend[q].CallbackFired => pend'[q].CallbackFired
  <2>1. CASE Expire(o)
    BY <1>0, <2>1 DEF Expire, PendingMessage
  <2>2. CASE HandleTimeout(o)
    <3> DEFINE ran == [pend EXCEPT ![o].timer = "off"]
    <3>1. ran \in [Pending -> PendingMessage]
      BY <1>0 DEF PendingMessage, TimerState
    <3>2. \A q \in Pending : /\ ran[q].gen = pend[q].gen
                             /\ ran[q].tag = pend[q].tag
                             /\ ran[q].Nacked = pend[q].Nacked
                             /\ ran[q].CallbackFired = pend[q].CallbackFired
      BY <1>0 DEF PendingMessage
    <3>3. \/ pend' = ran
          \/ \E t \in Pending : pend' = [ran EXCEPT ![t].timeoutDeferred = TRUE]
          \/ \E t \in Pending :
                pend' = [ran EXCEPT ![t].CallbackFired = TRUE, ![t].FinalOutcome = "timedOut",
                                    ![t].finish = "pending"]
      BY <1>0, <2>2 DEF HandleTimeout, AtKey
    <3> HIDE DEF ran
    <3>4. \A q \in Pending : /\ pend'[q].gen = ran[q].gen
                             /\ pend'[q].tag = ran[q].tag
                             /\ pend'[q].Nacked = ran[q].Nacked
                             /\ ran[q].CallbackFired => pend'[q].CallbackFired
      <4>1. CASE pend' = ran
        BY <4>1
      <4>2. ASSUME NEW t \in Pending, pend' = [ran EXCEPT ![t].timeoutDeferred = TRUE]
            PROVE  \A q \in Pending : /\ pend'[q].gen = ran[q].gen
                                      /\ pend'[q].tag = ran[q].tag
                                      /\ pend'[q].Nacked = ran[q].Nacked
                                      /\ ran[q].CallbackFired => pend'[q].CallbackFired
        BY <3>1, <4>2 DEF PendingMessage
      <4>3. ASSUME NEW t \in Pending,
                   pend' = [ran EXCEPT ![t].CallbackFired = TRUE, ![t].FinalOutcome = "timedOut",
                                       ![t].finish = "pending"]
            PROVE  \A q \in Pending : /\ pend'[q].gen = ran[q].gen
                                      /\ pend'[q].tag = ran[q].tag
                                      /\ pend'[q].Nacked = ran[q].Nacked
                                      /\ ran[q].CallbackFired => pend'[q].CallbackFired
        BY <3>1, <4>3 DEF PendingMessage
      <4>4. QED
        BY <3>3, <4>1, <4>2, <4>3
    <3>5. QED
      BY <3>2, <3>4
  <2>3. CASE HandleGraceExpired(o)
    BY <1>0, <2>3 DEF HandleGraceExpired, PendingMessage
  <2>4. CASE Finish(o)
    BY <1>0, <2>4 DEF Finish, PendingMessage
  <2>5. QED
    BY <2>1, <2>2, <2>3, <2>4 DEF MessageStep
<1>4. QuietMessages
  <2>1. \A q \in Pending : pend[q].Nacked => pend[q].CallbackFired
    BY StateFacts
  <2>2. QED
    BY <1>1, <1>3, <2>1 DEF QuietMessages
<1>5. QED
  BY <1>1, <1>2, <1>4 DEF Quiet, QuietProcesses

LEMMA QuietOtherSteps ==
    ASSUME IInv,
           \/ KeeperWakes \/ CloseBegin \/ CloseConfirmChannel \/ CloseReturns
           \/ FreshChannelDies \/ (\E c \in Call : ContextEnds(c)) \/ UNCHANGED vars
    PROVE  Quiet
<1>0. pend \in [Pending -> PendingMessage] /\ gens \in [Gen -> Generation]
  BY StateFacts
<1>1. UNCHANGED <<byTag, cur, publishMu, attempt>> /\ \A p \in Proc : pc'[p] = pc[p]
  BY StateFacts DEF KeeperWakes, CloseBegin, CloseConfirmChannel, CloseReturns, FreshChannelDies,
     ContextEnds, vars, msgVars, chanVars, lockVars, procVars
<1>2. QuietMessages
  <2>1. CASE CloseReturns
    <3>1. \A q \in Pending : pend'[q] \in {pend[q], StopTimer(pend[q])}
      BY <2>1 DEF CloseReturns
    <3>2. \A q \in Pending : pend[q].Nacked => pend[q].CallbackFired
      BY StateFacts
    <3>3. QED
      BY <1>0, <1>1, <3>1, <3>2, StopTimerFacts DEF QuietMessages
  <2>2. CASE ~CloseReturns
    <3>1. pend' = pend
      BY <2>2 DEF KeeperWakes, CloseBegin, CloseConfirmChannel, FreshChannelDies, ContextEnds, vars,
         msgVars
    <3>2. QED
      BY <1>1, <3>1, MessagesUntouched
  <2>3. QED
    BY <2>1, <2>2
<1>3. QuietChannels
  <2>1. gens' = gens \/ gens' = [gens EXCEPT ![cur].open = FALSE]
    BY DEF KeeperWakes, CloseBegin, CloseConfirmChannel, CloseReturns, FreshChannelDies, ContextEnds,
       vars, chanVars
  <2>2. \A g \in Gen : gens'[g] = gens[g] \/ gens'[g] = [gens[g] EXCEPT !.open = FALSE]
    BY <1>0, <2>1
  <2>3. QED
    BY <1>0, <1>1, <2>2, ShuttingKeeps, ChannelsUntouched
<1>4. QED
  BY <1>1, <1>2, <1>3 DEF Quiet, QuietProcesses
\* The steps that are not quiet: those inside publishTracked, and a hot swap.

\* Nobody else is inside publishTracked, so only the holder can have sent and not counted.
LEMMA HolderFacts ==
    ASSUME IInv, NEW p \in Proc, pc[p] \in InPublishMu
    PROVE  /\ publishMu = p
           /\ \A q \in Proc : q # p => pc[q] \notin InPublishMu
           /\ \A g : Ahead(g) <=> g = cur /\ pc[p] = "sent"
BY DEF IInv, Exclusive, Ahead, InPublishMu

LEMMA NobodyInside ==
    ASSUME IInv, publishMu = None
    PROVE  /\ \A q \in Proc : pc[q] \notin InPublishMu
           /\ \A g : ~Ahead(g)
BY StateFacts DEF IInv, Exclusive, Ahead, InPublishMu

\* Counts, as numbers.
LEMMA CountFacts ==
    ASSUME IInv
    PROVE  \A g \in Gen : /\ gens[g].published \in Nat
                          /\ gens[g].sent \in Seq(Call) /\ Len(gens[g].sent) \in Nat
                          /\ gens[g].verdicts \in Seq(BOOLEAN) /\ Len(gens[g].verdicts) \in Nat
BY StateFacts DEF Generation

LEMMA EnterKeepsIInv ==
    ASSUME IInv, TypeInv', NEW p \in Proc, PublishEnter(p)
    PROVE  IInv'
<1> DEFINE m == [NewPending EXCEPT !.gen = cur, !.tag = gens[cur].published + 1,
                                   !.inFlight = TRUE, !.timer = "armed"]
<1>1. /\ pc[p] = "publish" /\ publishMu = None
      /\ publishMu' = p
      /\ pend' = [pend EXCEPT ![Current(p)] = m]
      /\ pc' = [pc EXCEPT ![p] = "entered"]
      /\ UNCHANGED <<byTag, gens, cur, attempt>>
  BY DEF PublishEnter, chanVars
<1>2. m.gen = cur /\ m.tag = gens[cur].published + 1 /\ m.Nacked = FALSE
  BY DEF NewPending
<1> HIDE DEF m
<1>3. /\ Current(p) \in Pending /\ pend'[Current(p)] = m
      /\ \A o \in Pending : o[1] # p => pend'[o] = pend[o]
      /\ pc'[p] = "entered" /\ \A q \in Proc : q # p => pc'[q] = pc[q]
      /\ \A q \in Proc : Current(q)' = Current(q) /\ Current(q) \in Pending /\ Current(q)[1] = q
  BY <1>1, StateFacts, CurrentType DEF Current
<1>4. \A q \in Proc : pc[q] \notin InPublishMu
  BY <1>1, NobodyInside
<1>5. \A o \in byTag : o[1] # p /\ o \in Pending /\ o[1] \in Proc
  BY <1>1, StateFacts DEF IInv, EntriesCurrent
<1>6. Exclusive'
  BY <1>1, <1>3, <1>4, StateFacts DEF Exclusive, InPublishMu
<1>7. HolderTagged'
  BY <1>1, <1>2, <1>3, <1>4 DEF HolderTagged
<1>8. CountsAgree'
  <2>1. \A g : ~Ahead(g)' /\ ~Ahead(g)
    BY <1>1, <1>3, <1>4, NobodyInside DEF Ahead, InPublishMu
  <2>2. QED
    BY <1>1, <2>1 DEF IInv, CountsAgree
<1>9. TagsCounted' /\ ConfirmsMatch'
  BY <1>1, <1>3, <1>5 DEF IInv, TagsCounted, ConfirmsMatch
<1>10. EntriesCurrent'
  BY <1>1, <1>3, <1>5 DEF IInv, EntriesCurrent
<1>11. NacksDecide'
  BY <1>1, <1>2, <1>3, StateFacts DEF IInv, NacksDecide
<1>12. RetriesFollowNacks'
  <2> SUFFICES ASSUME NEW q \in Proc, q[2] > 0, pc'[q] # "idle"
               PROVE  LET before == <<q[1], q[2] - 1>>
                      IN  pc'[before] \in {"sent", "nil"} /\ pend'[Current(before)'].CallbackFired
    BY DEF RetriesFollowNacks
  <2> DEFINE before == <<q[1], q[2] - 1>>
  <2>1. before \in Proc
    BY ProcFacts
  <2>2. pc[before] \in {"sent", "nil"} /\ pend[Current(before)].CallbackFired
    BY <1>1, <1>3 DEF IInv, RetriesFollowNacks
  <2> HIDE DEF before
  <2>3. before # p
    BY <1>1, <2>2
  <2>4. pc'[before] \in {"sent", "nil"} /\ pend'[Current(before)'].CallbackFired
    BY <1>3, <2>1, <2>2, <2>3
  <2>5. QED
    BY <2>4 DEF before
<1>13. QED
  BY <1>6, <1>7, <1>8, <1>9, <1>10, <1>11, <1>12 DEF IInv

LEMMA InstallKeepsIInv ==
    ASSUME IInv, TypeInv', NEW r \in Refresher, RefreshInstall(r), Installable(r)
    PROVE  IInv'
<1>1. /\ pc[r] = "installing" /\ publishMu = None /\ publishMu' = None
      /\ cur' = cur + 1
      /\ gens' = [gens EXCEPT ![cur + 1] = InstalledGeneration(fresh = "open")]
      /\ pc' = [pc EXCEPT ![r] = "closeOld"]
      /\ UNCHANGED <<pend, byTag, attempt>>
  BY DEF RefreshInstall, msgVars
<1>2. \A q \in Proc : /\ pc[q] \notin InPublishMu
                      /\ pc'[q] = pc[q] \/ (pc[q] = "installing" /\ pc'[q] = "closeOld")
                      /\ Current(q)' = Current(q)
  BY <1>1, NobodyInside, StateFacts DEF Current
<1>3. \A o \in byTag : o[1] \in Proc /\ pend[o].gen \in 1 .. cur /\ pend[o].gen \in Gen
  BY StateFacts, ConstantsOK DEF IInv, TagsCounted, Gen
<1>4. /\ cur \in Nat
      /\ \A g \in Gen : g # cur + 1 => gens'[g] = gens[g]
      /\ cur + 1 \in Gen =>
            /\ gens'[cur + 1].published = 0
            /\ gens'[cur + 1].sent = <<>>
            /\ gens'[cur + 1].verdicts = <<>>
  BY <1>1, StateFacts, InstalledGenerationType
<1>5. Exclusive'
  BY <1>1, <1>2, StateFacts DEF Exclusive, InPublishMu
<1>6. HolderTagged'
  BY <1>2 DEF HolderTagged, InPublishMu
<1>7. CountsAgree'
  <2>1. \A g : ~Ahead(g)' /\ ~Ahead(g)
    BY <1>1, <1>2, NobodyInside DEF Ahead, InPublishMu
  <2> SUFFICES ASSUME NEW g \in Gen
               PROVE  /\ Len(gens'[g].sent) <= gens'[g].published
                      /\ g = cur' => Len(gens'[g].sent) = gens'[g].published
                      /\ Len(gens'[g].verdicts) <= Len(gens'[g].sent)
    BY <2>1, CountFacts, <1>4 DEF CountsAgree
  <2>2. CASE g = cur + 1
    BY <1>4, <2>2
  <2>3. CASE g # cur + 1
    BY <1>1, <1>4, <2>1, <2>3, CountFacts DEF IInv, CountsAgree
  <2>4. QED
    BY <2>2, <2>3
<1>8. TagsCounted' /\ ConfirmsMatch' /\ EntriesCurrent'
  <2>1. \A o \in byTag : pc'[o[1]] = pc[o[1]] /\ gens'[pend[o].gen] = gens[pend[o].gen]
    BY <1>2, <1>3, <1>4 DEF IInv, EntriesCurrent
  <2>2. TagsCounted'
    BY <1>1, <1>3, <1>4, <2>1 DEF IInv, TagsCounted
  <2>3. ConfirmsMatch' /\ EntriesCurrent'
    BY <1>1, <1>2, <1>3, <2>1 DEF IInv, ConfirmsMatch, EntriesCurrent
  <2>4. QED
    BY <2>2, <2>3
<1>9. NacksDecide'
  BY <1>1 DEF IInv, NacksDecide
<1>10. RetriesFollowNacks'
  <2>1. \A q \in Proc : q[2] > 0 => <<q[1], q[2] - 1>> \in Proc
    BY ProcFacts
  <2>2. QED
    BY <1>1, <1>2, <2>1 DEF IInv, RetriesFollowNacks
<1>11. QED
  BY <1>5, <1>6, <1>7, <1>8, <1>9, <1>10 DEF IInv
\* An attempt that fails before its frames reached the broker leaves no entry and takes no tag.
LEMMA FailureKeepsIInv ==
    ASSUME IInv, TypeInv', NEW p \in Proc,
           pc[p] \in {"entered", "sending"}, pc'[p] \in {"delay", "error"},
           \A q \in Proc : q # p => pc'[q] = pc[q],
           publishMu' = None, UNCHANGED <<gens, cur, attempt>>,
           byTag' \subseteq byTag, \A o \in byTag' : o[1] # p,
           \A o \in Pending : o # Current(p) => pend'[o] = pend[o],
           pend'[Current(p)].Nacked => pend'[Current(p)].CallbackFired
    PROVE  IInv'
<1>1. /\ publishMu = p
      /\ \A q \in Proc : q # p => pc[q] \notin InPublishMu
      /\ \A g : ~Ahead(g)
  BY HolderFacts DEF InPublishMu
<1>2. \A q \in Proc : pc'[q] \notin InPublishMu
  BY <1>1 DEF InPublishMu
<1>3. \A g : ~Ahead(g)'
  BY <1>2 DEF Ahead, InPublishMu
<1>4. \A q \in Proc : Current(q)' = Current(q) /\ Current(q) \in Pending /\ Current(q)[1] = q
  BY StateFacts, CurrentType DEF Current
<1>5. \A o \in byTag' : o \in byTag /\ o \in Pending /\ o[1] \in Proc /\ pc'[o[1]] = pc[o[1]]
                      /\ pend'[o] = pend[o]
  BY <1>4, StateFacts
<1>6. Exclusive' /\ HolderTagged'
  BY <1>2, StateFacts DEF Exclusive, HolderTagged
<1>7. CountsAgree'
  BY <1>1, <1>3 DEF IInv, CountsAgree
<1>8. TagsCounted' /\ EntriesCurrent' /\ ConfirmsMatch'
  BY <1>4, <1>5 DEF IInv, TagsCounted, EntriesCurrent, ConfirmsMatch
<1>9. NacksDecide'
  BY StateFacts DEF NacksDecide
<1>10. RetriesFollowNacks'
  <2> SUFFICES ASSUME NEW q \in Proc, q[2] > 0, pc'[q] # "idle"
               PROVE  LET before == <<q[1], q[2] - 1>>
                      IN  pc'[before] \in {"sent", "nil"} /\ pend'[Current(before)'].CallbackFired
    BY DEF RetriesFollowNacks
  <2> DEFINE before == <<q[1], q[2] - 1>>
  <2>1. before \in Proc
    BY ProcFacts
  <2>2. pc[before] \in {"sent", "nil"} /\ pend[Current(before)].CallbackFired
    BY DEF IInv, RetriesFollowNacks
  <2> HIDE DEF before
  <2>3. before # p
    BY <2>2
  <2>4. pc'[before] \in {"sent", "nil"} /\ pend'[Current(before)'].CallbackFired
    BY <1>4, <2>1, <2>2, <2>3
  <2>5. QED
    BY <2>4 DEF before
<1>11. QED
  BY <1>6, <1>7, <1>8, <1>9, <1>10 DEF IInv

LEMMA RefusedKeepsIInv ==
    ASSUME IInv, TypeInv', NEW p \in Proc, RegisterRefused(p)
    PROVE  IInv'
<1>1. pend[Current(p)] \in PendingMessage /\ Current(p) \in Pending
  BY StateFacts, CurrentType
<1>2. /\ pc[p] = "entered" /\ publishMu' = None
      /\ pend' = [pend EXCEPT ![Current(p)] = StopTimer(@)]
      /\ UNCHANGED <<byTag, gens, cur, attempt>>
  BY DEF RegisterRefused, chanVars
<1>3. pc'[p] \in {"delay", "error"} /\ \A q \in Proc : q # p => pc'[q] = pc[q]
  BY StateFacts DEF RegisterRefused, ChannelError, Fail
<1>4. \A o \in byTag : o[1] # p
  BY <1>2 DEF IInv, EntriesCurrent
<1>5. pend'[Current(p)].Nacked => pend'[Current(p)].CallbackFired
  BY <1>1, <1>2, StateFacts, StopTimerFacts
<1>6. \A o \in Pending : o # Current(p) => pend'[o] = pend[o]
  BY <1>2, StateFacts
<1>7. QED
  BY <1>2, <1>3, <1>4, <1>5, <1>6, FailureKeepsIInv

LEMMA SendFailsKeepsIInv ==
    ASSUME IInv, TypeInv', NEW p \in Proc, SendFails(p)
    PROVE  IInv'
<1>1. Current(p) \in Pending /\ pend \in [Pending -> PendingMessage]
  BY StateFacts, CurrentType
<1>2. /\ pc[p] = "sending" /\ publishMu' = None
      /\ pend' = [pend EXCEPT ![Current(p)] =
                     [StopTimer(@) EXCEPT !.inFlight = FALSE, !.CallbackFired = TRUE]]
      /\ byTag' = byTag \ AtKey(KeyOf(Current(p)))
      /\ UNCHANGED <<gens, cur, attempt>>
  BY DEF SendFails, Delete, chanVars
<1>3. pc'[p] \in {"delay", "error"} /\ \A q \in Proc : q # p => pc'[q] = pc[q]
  BY StateFacts DEF SendFails, ChannelError, Fail
<1>4. \A o \in byTag' : o[1] # p
  BY <1>2 DEF IInv, EntriesCurrent, AtKey
<1>5. pend'[Current(p)].CallbackFired
  BY <1>1, <1>2, StopTimerFacts DEF PendingMessage
<1>6. \A o \in Pending : o # Current(p) => pend'[o] = pend[o]
  BY <1>1, <1>2
<1>7. QED
  BY <1>2, <1>3, <1>4, <1>5, <1>6, FailureKeepsIInv

LEMMA RegisterKeepsIInv ==
    ASSUME IInv, TypeInv', NEW p \in Proc, Register(p)
    PROVE  IInv'
<1>1. /\ pc[p] = "entered" /\ pc' = [pc EXCEPT ![p] = "sending"]
      /\ byTag' \subseteq byTag \cup {Current(p)}
      /\ UNCHANGED <<pend, gens, cur, publishMu, attempt>>
  BY DEF Register, chanVars, lockVars
<1>2. /\ publishMu = p
      /\ \A q \in Proc : q # p => pc[q] \notin InPublishMu
      /\ \A g : ~Ahead(g)
  BY <1>1, HolderFacts DEF InPublishMu
<1>3. pc'[p] = "sending" /\ \A q \in Proc : q # p => pc'[q] = pc[q]
  BY <1>1, StateFacts
<1>4. \A q \in Proc : Current(q)' = Current(q) /\ Current(q) \in Pending /\ Current(q)[1] = q
  BY <1>1, StateFacts, CurrentType DEF Current
<1>5. \A g : ~Ahead(g)'
  BY <1>1, <1>2, <1>3 DEF Ahead, InPublishMu
<1>6. /\ pend[Current(p)].gen = cur
      /\ pend[Current(p)].tag = gens[cur].published + 1
  BY <1>1 DEF IInv, HolderTagged, InPublishMu
<1>7. \A o \in byTag : o[1] # p /\ o[1] \in Proc
  BY <1>1, StateFacts DEF IInv, EntriesCurrent
<1>8. Exclusive' /\ HolderTagged'
  BY <1>1, <1>2, <1>3, <1>4, <1>6 DEF Exclusive, HolderTagged, InPublishMu
<1>9. CountsAgree'
  BY <1>1, <1>2, <1>5 DEF IInv, CountsAgree
<1>10. TagsCounted'
  <2> SUFFICES ASSUME NEW o \in byTag'
               PROVE  /\ pend[o].gen \in 1 .. cur /\ pend[o].tag >= 1
                      /\ pc'[o[1]] = "nil" => pend[o].tag <= gens[pend[o].gen].published
    BY <1>1 DEF TagsCounted
  <2>1. CASE o = Current(p)
    BY <1>3, <1>4, <1>6, <2>1, StateFacts, CountFacts, ConstantsOK DEF Gen
  <2>2. CASE o \in byTag
    BY <1>3, <1>7, <2>2 DEF IInv, TagsCounted
  <2>3. QED
    BY <1>1, <2>1, <2>2
<1>11. EntriesCurrent'
  BY <1>1, <1>3, <1>4, <1>7 DEF IInv, EntriesCurrent
<1>12. ConfirmsMatch'
  <2>1. pend[Current(p)].tag > Len(gens[cur].sent)
    <3>1. Len(gens[cur].sent) <= gens[cur].published
      BY <1>2, StateFacts, CountFacts DEF IInv, CountsAgree
    <3>2. QED
      BY <1>6, <3>1, StateFacts, CountFacts
  <2> SUFFICES ASSUME NEW o \in byTag', pend[o].tag <= Len(gens[pend[o].gen].sent)
               PROVE  gens[pend[o].gen].sent[pend[o].tag] = CallOf(o)
    BY <1>1 DEF ConfirmsMatch
  <2>2. o # Current(p)
    BY <1>6, <2>1, StateFacts, CountFacts
  <2>3. QED
    BY <1>1, <2>2 DEF IInv, ConfirmsMatch
<1>13. NacksDecide'
  BY <1>1 DEF IInv, NacksDecide
<1>14. RetriesFollowNacks'
  <2>1. \A q \in Proc : q[2] > 0 => <<q[1], q[2] - 1>> \in Proc
    BY ProcFacts
  <2>2. QED
    BY <1>1, <1>3, <1>4, <2>1 DEF IInv, RetriesFollowNacks
<1>15. QED
  BY <1>8, <1>9, <1>10, <1>11, <1>12, <1>13, <1>14 DEF IInv

LEMMA ReachKeepsIInv ==
    ASSUME IInv, TypeInv', NEW p \in Proc, SendReachesBroker(p)
    PROVE  IInv'
<1>1. /\ pc[p] = "sending" /\ gens[cur].open /\ pc' = [pc EXCEPT ![p] = "sent"]
      /\ gens' = [gens EXCEPT ![cur].sent = Append(@, p[1])]
      /\ UNCHANGED <<pend, byTag, cur, publishMu, attempt>>
  BY DEF SendReachesBroker, msgVars, lockVars
<1>2. /\ publishMu = p
      /\ \A q \in Proc : q # p => pc[q] \notin InPublishMu
      /\ \A g : ~Ahead(g)
  BY <1>1, HolderFacts DEF InPublishMu
<1>3. pc'[p] = "sent" /\ \A q \in Proc : q # p => pc'[q] = pc[q]
  BY <1>1, StateFacts
<1>4. \A q \in Proc : Current(q)' = Current(q) /\ Current(q) \in Pending /\ Current(q)[1] = q
  BY <1>1, StateFacts, CurrentType DEF Current
<1>5. \A g : Ahead(g)' <=> g = cur
  BY <1>1, <1>3 DEF Ahead
<1>6. /\ \A g \in Gen : g # cur => gens'[g] = gens[g]
      /\ \A g \in Gen : /\ gens'[g].published = gens[g].published
                        /\ gens'[g].verdicts = gens[g].verdicts
                        /\ gens'[g].open = gens[g].open
      /\ gens'[cur].sent = Append(gens[cur].sent, p[1])
  BY <1>1, StateFacts DEF Generation
<1>7. /\ p[1] \in Call
      /\ Len(gens'[cur].sent) = Len(gens[cur].sent) + 1
      /\ \A i \in 1 .. Len(gens[cur].sent) : gens'[cur].sent[i] = gens[cur].sent[i]
      /\ gens'[cur].sent[Len(gens[cur].sent) + 1] = p[1]
  <2>1. p[1] \in Call
    BY DEF Proc
  <2>2. QED
    BY <1>6, <2>1, AppendProperties, StateFacts, CountFacts
<1>8. Len(gens[cur].sent) = gens[cur].published
  BY <1>1, <1>2, StateFacts, CountFacts DEF IInv, CountsAgree
<1>9. Exclusive' /\ HolderTagged'
  BY <1>1, <1>2, <1>3, <1>4, <1>6, StateFacts DEF IInv, Exclusive, HolderTagged, InPublishMu
<1>10. CountsAgree'
  <2> SUFFICES ASSUME NEW g \in Gen
               PROVE  /\ g # cur => Len(gens'[g].sent) <= gens'[g].published
                      /\ g = cur => Len(gens'[g].sent) = gens'[g].published + 1
                      /\ Len(gens'[g].verdicts) <= Len(gens'[g].sent)
    BY <1>1, <1>5, <1>6, <1>7, CountFacts DEF CountsAgree
  <2>1. CASE g = cur
    <3>1. Len(gens[cur].verdicts) <= Len(gens[cur].sent)
      BY StateFacts
    <3>2. gens'[cur].published = gens[cur].published /\ gens'[cur].verdicts = gens[cur].verdicts
      BY <1>6, StateFacts
    <3>3. /\ Len(gens[cur].sent) \in Nat /\ gens[cur].published \in Nat
          /\ Len(gens[cur].verdicts) \in Nat
      BY StateFacts, CountFacts
    <3>4. QED
      BY <1>7, <1>8, <2>1, <3>1, <3>2, <3>3
  <2>2. CASE g # cur
    BY <1>2, <1>6, <2>2, CountFacts DEF IInv, CountsAgree
  <2>3. QED
    BY <2>1, <2>2
<1>11. \A o \in byTag : /\ o[1] \in Proc /\ o \in Pending
                        /\ pend[o].gen \in Gen /\ pend[o].tag \in Nat /\ pend[o].tag >= 1
                        /\ pc'[o[1]] = "nil" => pc[o[1]] = "nil"
  <2>1. \A o \in byTag : o[1] \in Proc /\ o \in Pending /\ pend[o] \in PendingMessage
    BY StateFacts DEF Pending
  <2>2. \A o \in byTag : pend[o].gen \in Gen /\ pend[o].tag >= 1
    BY StateFacts, ConstantsOK DEF IInv, TagsCounted, Gen
  <2>3. \A o \in byTag : pend[o].tag \in Nat
    BY <2>1 DEF PendingMessage
  <2>4. \A o \in byTag : pc'[o[1]] = "nil" => pc[o[1]] = "nil"
    BY <1>3, <2>1
  <2>5. QED
    BY <2>1, <2>2, <2>3, <2>4
<1>12. TagsCounted'
  BY <1>1, <1>6, <1>11 DEF IInv, TagsCounted
<1>13. EntriesCurrent'
  BY <1>1, <1>3, <1>4, <1>11 DEF IInv, EntriesCurrent
<1>14. ConfirmsMatch'
  <2> SUFFICES ASSUME NEW o \in byTag, pend[o].tag <= Len(gens'[pend[o].gen].sent)
               PROVE  gens'[pend[o].gen].sent[pend[o].tag] = CallOf(o)
    BY <1>1 DEF ConfirmsMatch
  <2>1. CASE pend[o].gen # cur
    BY <1>6, <1>11, <2>1 DEF IInv, ConfirmsMatch
  <2>2. CASE pend[o].gen = cur /\ pend[o].tag <= Len(gens[cur].sent)
    <3>1. Len(gens[cur].sent) \in Nat
      BY StateFacts, CountFacts
    <3>2. pend[o].tag \in 1 .. Len(gens[cur].sent)
      BY <1>11, <2>2, <3>1
    <3>3. gens[cur].sent[pend[o].tag] = CallOf(o)
      BY <2>2 DEF IInv, ConfirmsMatch
    <3>4. QED
      BY <1>7, <2>2, <3>2, <3>3
  <2>3. CASE pend[o].gen = cur /\ pend[o].tag > Len(gens[cur].sent)
    <3>1. pend[o].tag = Len(gens[cur].sent) + 1
      BY <1>7, <1>11, <2>3, StateFacts, CountFacts
    <3>2. pc[o[1]] # "nil"
      BY <1>8, <1>11, <2>3, StateFacts, CountFacts DEF IInv, TagsCounted
    <3>3. o[1] = p
      BY <1>2, <1>11, <3>2 DEF IInv, EntriesCurrent, InPublishMu
    <3>4. QED
      BY <1>7, <2>3, <3>1, <3>3 DEF CallOf
  <2>4. QED
    BY <1>11, <2>1, <2>2, <2>3, StateFacts, CountFacts
<1>15. NacksDecide'
  BY <1>1 DEF IInv, NacksDecide
<1>16. RetriesFollowNacks'
  <2>1. \A q \in Proc : q[2] > 0 => <<q[1], q[2] - 1>> \in Proc
    BY ProcFacts
  <2>2. QED
    BY <1>1, <1>3, <1>4, <2>1 DEF IInv, RetriesFollowNacks
<1>17. QED
  BY <1>9, <1>10, <1>12, <1>13, <1>14, <1>15, <1>16 DEF IInv

LEMMA SucceedKeepsIInv ==
    ASSUME IInv, TypeInv', NEW p \in Proc, SendSucceeds(p)
    PROVE  IInv'
<1> DEFINE m == [pend[Current(p)] EXCEPT !.inFlight = FALSE]
<1>1. /\ pc[p] = "sent" \/ (pc[p] = "sending" /\ ~gens[cur].open)
      /\ pc' = [pc EXCEPT ![p] = "nil"] /\ publishMu' = None
      /\ gens' = [gens EXCEPT ![cur].published = @ + 1]
      /\ UNCHANGED <<byTag, cur, attempt>>
  BY DEF SendSucceeds
<1>2. /\ pend' = [pend EXCEPT ![Current(p)] = pend'[Current(p)]]
      /\ pend'[Current(p)] \in {m, Claim(m, "orphaned"), Claim(m, "timedOut")}
      /\ Current(p) \in Pending
  BY StateFacts, CurrentType DEF SendSucceeds
<1>3. /\ m \in PendingMessage
      /\ m.gen = pend[Current(p)].gen /\ m.tag = pend[Current(p)].tag
      /\ m.Nacked = pend[Current(p)].Nacked
      /\ m.CallbackFired = pend[Current(p)].CallbackFired
  <2>1. pend[Current(p)] \in PendingMessage
    BY <1>2, StateFacts
  <2>2. QED
    BY <2>1 DEF PendingMessage
<1>4. \A o \in Pending : /\ pend'[o].gen = pend[o].gen
                         /\ pend'[o].tag = pend[o].tag
                         /\ pend[o].CallbackFired => pend'[o].CallbackFired
                         /\ pend'[o].Nacked => pend'[o].CallbackFired
  <2> HIDE DEF m
  <2>1. "orphaned" \in Outcome /\ "timedOut" \in Outcome
    BY DEF Outcome, Counted
  <2>2. /\ pend'[Current(p)].gen = pend[Current(p)].gen
        /\ pend'[Current(p)].tag = pend[Current(p)].tag
        /\ pend[Current(p)].CallbackFired => pend'[Current(p)].CallbackFired
        /\ pend'[Current(p)].Nacked => pend'[Current(p)].CallbackFired
    BY <1>2, <1>3, <2>1, ClaimFacts, StateFacts
  <2>3. QED
    BY <1>2, <2>2, StateFacts
<1>5. /\ publishMu = p
      /\ \A q \in Proc : q # p => pc[q] \notin InPublishMu
      /\ \A g : Ahead(g) <=> g = cur /\ pc[p] = "sent"
  BY <1>1, HolderFacts DEF InPublishMu
<1>6. pc'[p] = "nil" /\ \A q \in Proc : q # p => pc'[q] = pc[q]
  BY <1>1, StateFacts
<1>7. \A q \in Proc : pc'[q] \notin InPublishMu /\ Current(q)' = Current(q) /\ Current(q) \in Pending
  BY <1>1, <1>5, <1>6, CurrentType, StateFacts DEF Current, InPublishMu
<1>8. \A g : ~Ahead(g)'
  BY <1>7 DEF Ahead, InPublishMu
<1>9. /\ gens'[cur].published = gens[cur].published + 1
      /\ \A g \in Gen : g # cur => gens'[g] = gens[g]
      /\ \A g \in Gen : /\ gens'[g].sent = gens[g].sent
                        /\ gens'[g].verdicts = gens[g].verdicts
                        /\ gens'[g].open = gens[g].open
  BY <1>1, StateFacts DEF Generation
<1>10. Exclusive' /\ HolderTagged'
  BY <1>1, <1>7, StateFacts DEF Exclusive, HolderTagged
<1>11. CountsAgree'
  <2> SUFFICES ASSUME NEW g \in Gen
               PROVE  /\ Len(gens'[g].sent) <= gens'[g].published
                      /\ g = cur /\ gens'[g].open => Len(gens'[g].sent) = gens'[g].published
                      /\ Len(gens'[g].verdicts) <= Len(gens'[g].sent)
    BY <1>1, <1>8, <1>9, CountFacts, StateFacts DEF CountsAgree
  <2>1. CASE g = cur
    BY <1>1, <1>5, <1>9, <2>1, CountFacts DEF IInv, CountsAgree
  <2>2. CASE g # cur
    BY <1>5, <1>9, <2>2, CountFacts DEF IInv, CountsAgree
  <2>3. QED
    BY <2>1, <2>2
<1>12. \A o \in byTag : /\ o[1] \in Proc /\ o \in Pending
                        /\ pend[o].gen \in Gen /\ pend[o].gen \in 1 .. cur
                        /\ pend[o].tag \in Nat /\ pend[o].tag >= 1
  BY StateFacts, ConstantsOK DEF IInv, TagsCounted, Gen, PendingMessage
<1>13. TagsCounted'
  <2> SUFFICES ASSUME NEW o \in byTag, pc'[o[1]] = "nil"
               PROVE  pend[o].tag <= gens'[pend[o].gen].published
    BY <1>1, <1>4, <1>12 DEF TagsCounted
  <2>1. CASE o[1] = p
    <3>1. pend[o].gen = cur /\ pend[o].tag = gens[cur].published + 1
      BY <1>1, <2>1 DEF IInv, EntriesCurrent, HolderTagged, InPublishMu
    <3>2. QED
      BY <1>9, <3>1, StateFacts, CountFacts
  <2>2. CASE o[1] # p
    <3>1. pend[o].tag <= gens[pend[o].gen].published
      BY <1>6, <1>12, <2>2 DEF IInv, TagsCounted
    <3>2. QED
      BY <1>9, <1>12, <3>1, StateFacts, CountFacts
  <2>3. QED
    BY <2>1, <2>2
<1>14. EntriesCurrent'
  BY <1>1, <1>6, <1>7, <1>12 DEF IInv, EntriesCurrent
<1>15. ConfirmsMatch'
  BY <1>1, <1>4, <1>9, <1>12 DEF IInv, ConfirmsMatch
<1>16. NacksDecide'
  BY <1>4 DEF NacksDecide
<1>17. RetriesFollowNacks'
  <2> SUFFICES ASSUME NEW q \in Proc, q[2] > 0, pc'[q] # "idle"
               PROVE  LET before == <<q[1], q[2] - 1>>
                      IN  pc'[before] \in {"sent", "nil"} /\ pend'[Current(before)'].CallbackFired
    BY DEF RetriesFollowNacks
  <2> DEFINE before == <<q[1], q[2] - 1>>
  <2>1. before \in Proc
    BY ProcFacts
  <2>2. pc[q] # "idle"
    BY <1>1, <1>6
  <2>3. pc[before] \in {"sent", "nil"} /\ pend[Current(before)].CallbackFired
    BY <2>2 DEF IInv, RetriesFollowNacks
  <2> HIDE DEF before
  <2>4. pc'[before] \in {"sent", "nil"} /\ pend'[Current(before)'].CallbackFired
    BY <1>4, <1>6, <1>7, <2>1, <2>3
  <2>5. QED
    BY <2>4 DEF before
<1>18. QED
  BY <1>10, <1>11, <1>13, <1>14, <1>15, <1>16, <1>17 DEF IInv

LEMMA StepMatch == IInv /\ [Next]_vars => IInv'
<1> SUFFICES ASSUME IInv, [Next]_vars PROVE IInv'
  OBVIOUS
<1>1. TypeInv'
  BY StepTypes DEF IInv
<1>2. ASSUME Quiet PROVE IInv'
  BY <1>1, <1>2, QuietKeepsIInv
<1>3. ASSUME NEW p \in Proc, PublishStep(p) \/ RetryRepublish(p) PROVE IInv'
  BY <1>1, <1>2, <1>3, QuietPublishSteps, EnterKeepsIInv, RefusedKeepsIInv, RegisterKeepsIInv,
     ReachKeepsIInv, SucceedKeepsIInv, SendFailsKeepsIInv DEF PublishStep
<1>4. ASSUME NEW r \in Refresher, RefreshStep(r) PROVE IInv'
  BY <1>1, <1>2, <1>4, QuietRefreshSteps, InstallKeepsIInv DEF RefreshStep
<1>5. ASSUME NEW g \in Gen, ReaderStep(g) \/ BrokerStep(g) PROVE IInv'
  BY <1>2, <1>5, QuietReaderSteps
<1>6. ASSUME NEW o \in Pending, MessageStep(o) PROVE IInv'
  BY <1>2, <1>6, QuietMessageSteps
<1>7. CASE \/ KeeperWakes \/ CloseBegin \/ CloseConfirmChannel \/ CloseReturns
           \/ FreshChannelDies \/ (\E c \in Call : ContextEnds(c)) \/ UNCHANGED vars
  BY <1>2, <1>7, QuietOtherSteps
<1>8. QED
  BY <1>3, <1>4, <1>5, <1>6, <1>7 DEF Next

\* Whatever fails, is refused, retried or lost on however many channels: a delivery tag finds
\* the message the broker numbered with it (publishTracked's tag allocation).
THEOREM TagsCorrect == Spec => []ConfirmsMatch
<1>1. IInv => ConfirmsMatch
  BY DEF IInv
<1>2. QED
  BY <1>1, InitMatch, StepMatch, PTL DEF Spec
===============================================================================
