------------------------ MODULE PublisherContractProofs ------------------------
(***************************************************************************)
(* What the publisher promises its callers, for every number of calls,     *)
(* retries and channel generations: each outcome is what the broker did    *)
(* (OutcomesTrue), the sweep of a dead channel leaves nothing unclaimed    *)
(* (SweptClean), the statistics add up (StatsConserved), a call that is    *)
(* owed its callback has someone who will see to it (Accounted), and the   *)
(* publisher implements DeliveryContract (KeepsContract).                  *)
(*                                                                         *)
(* The theorems are for calls with message IDs of their own (DistinctIds): *)
(* the pending map has one entry for each ID, and calls that share an ID   *)
(* break the promise.                                                      *)
(***************************************************************************)
EXTENDS ConfirmPublisherProofs, FiniteSetTheorems

DistinctIds == \A c, d \in Call : IdOf[c] = IdOf[d] => c = d

-------------------------------------------------------------------------------
\* The inductive invariant: keys and positions

Live == {"sending", "sent", "nil"}
Sent == {"sent", "nil"}

\* The message of the present attempt, and its generation.
Mine(p) == pend[Current(p)]
GenOf(p) == gens[Mine(p).gen]

\* An attempt that has not begun has no generation.
Unborn(o) == \/ o[2] > attempt[o[1]]
             \/ o[2] = attempt[o[1]] /\ pc[o[1]] \in {"idle", "backoff", "publish"}
Fresh == \A o \in Pending : Unborn(o) => pend[o].gen = 0

\* A publish that is over used up a tag of its channel, and no two have the same.
TagUsed ==
    \A p \in Proc : pc[p] = "nil" =>
        Mine(p).gen \in 1 .. cur /\ Mine(p).tag \in 1 .. GenOf(p).published
KeysUnique ==
    \A p, q \in Proc : pc[p] \in Live /\ pc[q] \in Live /\ KeyOf(Current(p)) = KeyOf(Current(q))
                         => p = q

\* What the broker has at a message's tag is that message, sent by a live attempt.
SentMatch ==
    \A p \in Proc :
        /\ pc[p] = "sent" => Mine(p).tag <= Len(GenOf(p).sent)
        /\ pc[p] \in Sent /\ Mine(p).tag <= Len(GenOf(p).sent) =>
               GenOf(p).sent[Mine(p).tag] = p[1]
SentBy ==
    \A g \in Gen : \A t \in 1 .. Len(gens[g].sent) :
        \E p \in Proc : p[1] = gens[g].sent[t] /\ pc[p] \in Sent /\ KeyOf(Current(p)) = <<g, t>>

Positions == Fresh /\ TagUsed /\ KeysUnique /\ SentMatch /\ SentBy

-------------------------------------------------------------------------------
\* The inductive invariant: channel generations

\* The broker returns a message before it acks it; a reader handles what is there; a
\* generation is dead when its reader has handled everything.
SoundGeneration(G, g, current, shut) ==
    /\ G.handled <= Len(G.verdicts)
    /\ \A t \in G.bounced : t \in 1 .. Len(G.sent) /\ (t <= Len(G.verdicts) => G.verdicts[t])
    /\ \A i \in 1 .. Len(G.returns) : \E t \in G.bounced : IdOf[G.sent[t]] = G.returns[i]
    /\ G.dead => ~G.open /\ G.handled = Len(G.verdicts) /\ G.confirmReader \in {"marked", "done"}
    /\ G.confirmReader = "marked" => G.dead
    /\ G.confirmReader = "done" /\ shut = "no" => G.dead
    /\ G.confirmReader = "none" <=> g > current
Generations == \A g \in Gen : SoundGeneration(gens[g], g, cur, closed)

-------------------------------------------------------------------------------
\* The inductive invariant: messages

\* Only a live message has an outcome; it is claimed once it is nacked or returned.
MessageSound(o) ==
    LET m == pend[o]
    IN  /\ m.finish # "no" \/ m.FinalOutcome # "none" =>
               m.CallbackFired /\ o = Current(o[1]) /\ pc[o[1]] \in Sent
        /\ m.Confirmed \/ m.Nacked \/ m.Returned => o = Current(o[1]) /\ pc[o[1]] \in Sent
        /\ ~m.CallbackFired => ~m.Nacked /\ ~m.Returned
        /\ o \in byTag => (m.inFlight <=> pc[o[1]] \in {"sending", "sent"})
        /\ o = Current(o[1]) /\ pc[o[1]] \in {"entered", "sending"} => ~m.CallbackFired /\ m.inFlight

\* What was decided, and by whom; the broker's answers reach a message in order.
Truth(o) ==
    LET m == pend[o]
        G == gens[m.gen]
    IN  /\ m.Confirmed => m.tag <= G.handled /\ G.verdicts[m.tag]
        /\ m.Nacked => m.tag <= G.handled /\ ~G.verdicts[m.tag]
        /\ m.Returned => m.tag \in G.bounced
        /\ m.FinalOutcome = "confirmed" => m.Confirmed
        /\ m.FinalOutcome = "nacked" => m.Nacked
        /\ m.FinalOutcome = "returned" => m.Returned
        /\ m.FinalOutcome = "orphaned" => G.dead /\ m.tag > Len(G.verdicts)
        /\ m.orphanDeferred => m.gen \in 1 .. cur /\ G.dead
        /\ m.grace # "off" => m.Confirmed
        /\ o = Current(o[1]) /\ pc[o[1]] \in Sent /\ ~m.CallbackFired /\ m.tag <= G.handled =>
               m.Confirmed

\* A message that is undecided, or not finished, is under both its indexes.
Unsettled(o) == /\ o = Current(o[1]) /\ pc[o[1]] \in Live
                /\ ~pend[o].CallbackFired \/ pend[o].finish = "pending"
Stored(o) == Unsettled(o) => o \in byTag /\ byId[IdOfMsg(o)] = o

\* A confirmed message waits out its grace period.
Graced(o) == pend[o].Confirmed /\ ~pend[o].CallbackFired => pend[o].grace # "off" \/ closed = "yes"

\* What the sweep left is known, and its sender settles what was left to it.
Swept(o) ==
    o \in byTag /\ ~pend[o].CallbackFired /\ gens[pend[o].gen].confirmReader = "done" /\ closed = "no"
        => o \in gens[pend[o].gen].orphans \/ pend[o].orphanDeferred \/ pend[o].Confirmed
Deferred(o) == o \in byTag /\ pend[o].orphanDeferred /\ ~pend[o].inFlight =>
                   pend[o].CallbackFired \/ pend[o].Confirmed

MessageInv(o) ==
    MessageSound(o) /\ Truth(o) /\ Stored(o) /\ Graced(o) /\ Swept(o) /\ Deferred(o)
Messages == \A o \in Pending : MessageInv(o)

\* The index by ID holds messages of the index by tag.
Index == \A i \in MsgId : byId[i] # None => byId[i] \in byTag /\ IdOfMsg(byId[i]) = i

\* The sweep's orphans are of its generation, and undecided only while they are stored.
Orphans ==
    \A g \in Gen : \A o \in gens[g].orphans :
        gens[g].dead /\ pend[o].gen = g /\ (~pend[o].CallbackFired => o \in byTag)

-------------------------------------------------------------------------------
\* The inductive invariant: a call's processes

\* An attempt whose outcome was passed on to the next retry.
Spent(p) == pc[p] \in Sent /\ Mine(p).Nacked /\ Mine(p).CallbackFired /\ Mine(p).finish = "no"

\* All attempts before a running retry are spent, and a spent one has a retry.
Chain ==
    \A p, q \in Proc : p[1] = q[1] /\ p[2] < q[2] /\ pc[q] # "idle" => Spent(p)
Relayed ==
    \A p \in Proc : pc[p] \in Sent /\ Mine(p).CallbackFired /\ Mine(p).finish = "no" =>
        p[2] < MaxRetryAttempts /\ pc[<<p[1], p[2] + 1>>] # "idle"

\* The callback of a call comes from its last process, and once.
Waiting == {"backoff", "publish", "entered", "sending", "delay", "opening", "installing",
            "closeOld", "refreshed"}
CallbackSound(p) ==
    LET m == Mine(p)
        n == callbacks[p[1]]
    IN  /\ pc[p] \in Waiting => n = 0
        /\ pc[p] \in Sent /\ (~m.CallbackFired \/ m.finish = "pending") => n = 0
        /\ pc[p] \in Sent /\ m.finish = "done" => n = 1
        /\ pc[p] = "error" => n = IF p[2] > 0 /\ p[1] \in OwnCallback THEN 1 ELSE 0
Callbacks == \A p \in Proc : CallbackSound(p)
Started == \A c \in Call : pc[<<c, 0>>] # "idle"

Calls == Chain /\ Relayed /\ Callbacks /\ Started

CInv == /\ IInv /\ Positions /\ Generations /\ Messages /\ Index /\ Orphans /\ Calls
        /\ StatsConserved

-------------------------------------------------------------------------------
\* Channel generations

\* A generation only grows: its broker answers, its reader handles the answers, it dies.
Grows(g) ==
    /\ gens[g].dead => gens'[g].dead /\ Len(gens'[g].verdicts) = Len(gens[g].verdicts)
    /\ Len(gens[g].verdicts) <= Len(gens'[g].verdicts)
    /\ \A t \in 1 .. Len(gens[g].verdicts) : gens'[g].verdicts[t] = gens[g].verdicts[t]
    /\ gens[g].bounced \subseteq gens'[g].bounced

\* The step handles no confirm of g, and neither ends its reader nor sweeps it.
Idle(g) ==
    /\ gens'[g].handled = gens[g].handled
    /\ gens'[g].orphans = gens[g].orphans
    /\ gens'[g].confirmReader = "done" /\ closed' = "no" =>
           gens[g].confirmReader = "done" /\ closed = "no"

Kept(g) == Grows(g) /\ Idle(g)
SoundNow(g) == SoundGeneration(gens[g], g, cur, closed)
SoundNext(g) == SoundGeneration(gens'[g], g, cur', closed')
ChannelsKept == (\A g \in Gen : SoundNext(g)) /\ \A g \in 1 .. cur : Kept(g)

\* The generations, as records.
LEMMA GenerationFacts ==
    ASSUME TypeInv
    PROVE  /\ gens \in [Gen -> Generation] /\ cur \in Gen /\ cur \in Nat /\ 1 .. cur \subseteq Gen
           /\ MaxGen \in Nat /\ Gen = 1 .. MaxGen
           /\ \A g \in Gen : /\ gens[g].handled \in Nat
                             /\ gens[g].verdicts \in Seq(BOOLEAN) /\ Len(gens[g].verdicts) \in Nat
                             /\ gens[g].sent \in Seq(Call) /\ Len(gens[g].sent) \in Nat
                             /\ gens[g].returns \in Seq(MsgId) /\ Len(gens[g].returns) \in Nat
                             /\ gens[g].bounced \subseteq Nat /\ gens[g].orphans \subseteq Pending
<1>1. /\ gens \in [Gen -> Generation] /\ cur \in Gen /\ MaxGen \in Nat /\ Gen = 1 .. MaxGen
  BY ConstantsOK DEF TypeInv, TypeOK, Gen
<1>2. \A g \in Gen : /\ gens[g].handled \in Nat
                     /\ gens[g].verdicts \in Seq(BOOLEAN)
                     /\ gens[g].sent \in Seq(Call)
                     /\ gens[g].returns \in Seq(MsgId)
                     /\ gens[g].bounced \subseteq Nat /\ gens[g].orphans \subseteq Pending
  BY <1>1 DEF Generation
<1>3. QED
  BY <1>1, <1>2

LEMMA InitGenerations == Init => Generations
<1> SUFFICES ASSUME Init, NEW g \in Gen PROVE SoundGeneration(gens[g], g, cur, closed)
  BY DEF Generations
<1>1. TypeInv
  BY InitTypes
<1>2. gens[g] = IF g = 1 THEN InstalledGeneration(TRUE) ELSE NoGeneration
  BY DEF Init
<1>3. /\ gens[g].handled = 0 /\ gens[g].bounced = {} /\ gens[g].returns = <<>> /\ ~gens[g].dead
      /\ gens[g].confirmReader = IF g = 1 THEN "running" ELSE "none"
  BY <1>2 DEF InstalledGeneration, NoGeneration
<1>4. cur = 1 /\ closed = "no"
  BY DEF Init
<1>5. QED
  BY <1>1, <1>3, <1>4, GenerationFacts DEF SoundGeneration, SoundNow, SoundNext

\* A generation the step does not touch.
LEMMA OtherGeneration ==
    ASSUME TypeInv, Generations, NEW g \in Gen, gens'[g] = gens[g],
           cur' = cur \/ (cur' = cur + 1 /\ g # cur + 1), closed' = "no" => closed = "no"
    PROVE  SoundNext(g) /\ Kept(g)
<1>1. g \in Nat /\ cur \in Nat /\ SoundNow(g)
  BY GenerationFacts DEF Generations, SoundNow
<1>2. g > cur' <=> g > cur
  BY <1>1
<1>3. SoundNext(g)
  BY <1>1, <1>2 DEF SoundGeneration, SoundNow, SoundNext
<1>4. Kept(g)
  BY <1>1, GenerationFacts DEF Kept, Grows, Idle
<1>5. QED
  BY <1>3, <1>4

\* A step that touches no channel, or one.
LEMMA NoChannel ==
    ASSUME TypeInv, Generations, gens' = gens, cur' = cur, closed' = "no" => closed = "no"
    PROVE  ChannelsKept
BY OtherGeneration, GenerationFacts DEF ChannelsKept, Generations, SoundNow

LEMMA OneChannel ==
    ASSUME TypeInv, Generations, NEW g \in Gen, NEW H, gens' = [gens EXCEPT ![g] = H],
           cur' = cur, closed' = "no" => closed = "no",
           gens'[g] = H /\ SoundNow(g) => SoundNext(g) /\ Kept(g)
    PROVE  ChannelsKept
<1>1. gens'[g] = H /\ \A h \in Gen : h # g => gens'[h] = gens[h]
  BY GenerationFacts
<1>2. \A h \in Gen : SoundNext(h) /\ Kept(h)
  BY <1>1, OtherGeneration DEF Generations, SoundNow
<1>3. QED
  BY <1>2, GenerationFacts DEF ChannelsKept, Generations, SoundNow

\* A channel that only closes, or whose publisher counts.
LEMMA SameAnswers ==
    ASSUME TypeInv, Generations, NEW g \in Gen, cur' = cur, closed' = "no" => closed = "no",
           gens'[g].open => gens[g].open,
           gens'[g].sent = gens[g].sent, gens'[g].handled = gens[g].handled,
           gens'[g].verdicts = gens[g].verdicts, gens'[g].bounced = gens[g].bounced,
           gens'[g].returns = gens[g].returns, gens'[g].dead = gens[g].dead,
           gens'[g].confirmReader = gens[g].confirmReader, gens'[g].orphans = gens[g].orphans
    PROVE  SoundNext(g) /\ Kept(g)
<1>1. SoundGeneration(gens[g], g, cur, closed)
  BY DEF Generations
<1>2. SoundNext(g)
  BY <1>1 DEF SoundGeneration, SoundNext
<1>3. Kept(g)
  BY GenerationFacts DEF Kept, Grows, Idle
<1>4. QED
  BY <1>2, <1>3

LEMMA PublishKeepsChannels ==
    ASSUME TypeInv, Generations, NEW p \in Proc, PublishStep(p) \/ RetryRepublish(p)
    PROVE  ChannelsKept
<1>0. cur \in Gen /\ gens[cur] \in Generation /\ p[1] \in Call
  BY GenerationFacts DEF Proc
<1>1. CASE SendReachesBroker(p)
  <2> DEFINE H == [gens[cur] EXCEPT !.sent = Append(gens[cur].sent, p[1])]
  <2>1. gens' = [gens EXCEPT ![cur] = H] /\ cur' = cur /\ closed' = closed
    BY <1>1 DEF SendReachesBroker, closeVars
  <2>2. /\ H.sent = Append(gens[cur].sent, p[1]) /\ H.handled = gens[cur].handled
        /\ H.verdicts = gens[cur].verdicts /\ H.bounced = gens[cur].bounced
        /\ H.returns = gens[cur].returns /\ H.dead = gens[cur].dead /\ H.open = gens[cur].open
        /\ H.confirmReader = gens[cur].confirmReader /\ H.orphans = gens[cur].orphans
    BY <1>0 DEF Generation
  <2>3. /\ Len(H.sent) = Len(gens[cur].sent) + 1
        /\ \A t \in 1 .. Len(gens[cur].sent) : H.sent[t] = gens[cur].sent[t]
    BY <1>0, <2>2, AppendProperties, GenerationFacts
  <2> HIDE DEF H
  <2>4. ASSUME gens'[cur] = H, SoundNow(cur) PROVE SoundNext(cur) /\ Kept(cur)
    <3>1. Kept(cur)
      BY <2>1, <2>2, <2>4, GenerationFacts DEF Kept, Grows, Idle
    <3>2. \A t \in gens[cur].bounced : t \in 1 .. Len(gens[cur].sent)
      BY <2>4 DEF SoundGeneration, SoundNow, SoundNext
    <3>3. \A t \in H.bounced : /\ t \in 1 .. Len(H.sent) /\ H.sent[t] = gens[cur].sent[t]
                               /\ (t <= Len(H.verdicts) => H.verdicts[t])
      BY <2>2, <2>3, <2>4, <3>2, GenerationFacts DEF SoundGeneration, SoundNow, SoundNext
    <3>4. \A i \in 1 .. Len(H.returns) : \E t \in H.bounced : IdOf[H.sent[t]] = H.returns[i]
      <4>1. \A i \in 1 .. Len(gens[cur].returns) :
               \E t \in gens[cur].bounced : IdOf[gens[cur].sent[t]] = gens[cur].returns[i]
        BY <2>4 DEF SoundGeneration, SoundNow
      <4>2. QED
        BY <2>2, <3>3, <4>1
    <3>5. /\ H.handled <= Len(H.verdicts)
          /\ H.dead => ~H.open /\ H.handled = Len(H.verdicts) /\ H.confirmReader \in {"marked", "done"}
          /\ H.confirmReader = "marked" => H.dead
          /\ H.confirmReader = "done" /\ closed' = "no" => H.dead
          /\ H.confirmReader = "none" <=> cur > cur'
      BY <2>1, <2>2, <2>4 DEF SoundGeneration, SoundNow
    <3>6. SoundNext(cur)
      BY <2>4, <3>3, <3>4, <3>5 DEF SoundGeneration, SoundNext
    <3>7. QED
      BY <3>1, <3>6
  <2>5. QED
    BY <1>0, <2>1, <2>4, OneChannel
<1>2. CASE SendSucceeds(p)
  <2> DEFINE H == [gens[cur] EXCEPT !.published = gens[cur].published + 1]
  <2>1. gens' = [gens EXCEPT ![cur] = H] /\ cur' = cur /\ closed' = closed
    BY <1>2 DEF SendSucceeds, closeVars
  <2>2. /\ H.sent = gens[cur].sent /\ H.handled = gens[cur].handled
        /\ H.verdicts = gens[cur].verdicts /\ H.bounced = gens[cur].bounced
        /\ H.returns = gens[cur].returns /\ H.dead = gens[cur].dead /\ H.open = gens[cur].open
        /\ H.confirmReader = gens[cur].confirmReader /\ H.orphans = gens[cur].orphans
    BY <1>0 DEF Generation
  <2> HIDE DEF H
  <2>3. ASSUME gens'[cur] = H, SoundNow(cur) PROVE SoundNext(cur) /\ Kept(cur)
    BY <1>0, <2>1, <2>2, <2>3, SameAnswers
  <2>4. QED
    BY <1>0, <2>1, <2>3, OneChannel
<1>3. CASE ~SendReachesBroker(p) /\ ~SendSucceeds(p)
  <2>1. gens' = gens /\ cur' = cur /\ closed' = closed
    BY <1>3 DEF PublishStep, PublishRejected, PublishChannelClosed, PublishEnter, RegisterRefused,
       Register, SendFails, GiveUp, NextAttempt, RetryRepublish, chanVars, closeVars
  <2>2. QED
    BY <2>1, NoChannel
<1>4. QED
  BY <1>1, <1>2, <1>3

LEMMA RefreshKeepsChannels ==
    ASSUME TypeInv, Generations, NEW r \in Refresher, RefreshStep(r)
    PROVE  ChannelsKept
<1>1. CASE RefreshInstall(r) /\ Installable(r)
  <2>1. /\ gens' = [gens EXCEPT ![cur + 1] = InstalledGeneration(fresh = "open")]
        /\ cur' = cur + 1 /\ closed' = closed
    BY <1>1 DEF RefreshInstall, closeVars
  <2>2. \A g \in Gen : g # cur + 1 => gens'[g] = gens[g]
    BY <2>1, GenerationFacts
  <2>3. \A g \in Gen : g # cur + 1 => SoundNext(g) /\ Kept(g)
    BY <2>1, <2>2, OtherGeneration
  <2>4. ASSUME cur + 1 \in Gen PROVE SoundNext(cur + 1)
    <3>1. gens'[cur + 1] = InstalledGeneration(fresh = "open")
      BY <2>1, <2>4, GenerationFacts
    <3>2. /\ gens'[cur + 1].handled = 0 /\ gens'[cur + 1].bounced = {}
          /\ gens'[cur + 1].returns = <<>> /\ ~gens'[cur + 1].dead
          /\ gens'[cur + 1].verdicts = <<>> /\ gens'[cur + 1].confirmReader = "running"
      BY <3>1 DEF InstalledGeneration, NoGeneration
    <3>3. QED
      BY <2>1, <3>2, GenerationFacts DEF SoundGeneration, SoundNow, SoundNext
  <2>5. \A g \in 1 .. cur : g \in Gen /\ g # cur + 1
    BY GenerationFacts
  <2>6. QED
    BY <2>3, <2>4, <2>5 DEF ChannelsKept, Generations, SoundNow
<1>2. CASE RefreshCloseOld(r)
  <2> DEFINE g == failed[r]
             H == [gens[g] EXCEPT !.open = FALSE]
  <2>1. gens' = [gens EXCEPT ![g] = H] /\ cur' = cur /\ closed' = closed
    BY <1>2 DEF RefreshCloseOld, closeVars
  <2>2. CASE g \notin Gen
    <3>1. gens' = gens
      BY <2>1, <2>2, GenerationFacts
    <3>2. QED
      BY <2>1, <3>1, NoChannel
  <2>3. CASE g \in Gen
    <3>0. gens[g] \in Generation
      BY <2>3, GenerationFacts
    <3>1. /\ H.sent = gens[g].sent /\ H.handled = gens[g].handled
          /\ H.verdicts = gens[g].verdicts /\ H.bounced = gens[g].bounced
          /\ H.returns = gens[g].returns /\ H.dead = gens[g].dead /\ ~H.open
          /\ H.confirmReader = gens[g].confirmReader /\ H.orphans = gens[g].orphans
      BY <3>0 DEF Generation
    <3> HIDE DEF g, H
    <3>2. ASSUME gens'[g] = H, SoundNow(g) PROVE SoundNext(g) /\ Kept(g)
      BY <2>1, <2>3, <3>1, <3>2, SameAnswers
    <3>3. QED
      BY <2>1, <2>3, <3>2, OneChannel
  <2>4. QED
    BY <2>2, <2>3
<1>3. CASE ~(RefreshInstall(r) /\ Installable(r)) /\ ~RefreshCloseOld(r)
  <2>1. gens' = gens /\ cur' = cur /\ closed' = closed
    BY <1>3 DEF RefreshStep, RefreshSkip, RefreshLock, RefreshOpen, RefreshFails, RefreshInstall,
       chanVars, closeVars
  <2>2. QED
    BY <2>1, NoChannel
<1>4. QED
  BY <1>1, <1>2, <1>3

\* The readers' steps that handle no confirm and sweep nothing.
LEMMA ReaderKeepsChannels ==
    ASSUME TypeInv, Generations, NEW g \in Gen,
           HandleReturn(g) \/ ReturnReaderExits(g) \/ ConfirmReaderStops(g) \/ MarkDead(g)
    PROVE  ChannelsKept
<1>0. gens[g] \in Generation /\ SoundNow(g)
  BY GenerationFacts DEF Generations, SoundNow
<1>1. CASE HandleReturn(g)
  <2> DEFINE H == [gens[g] EXCEPT !.returns = Tail(gens[g].returns)]
  <2>1. gens' = [gens EXCEPT ![g] = H] /\ cur' = cur /\ closed' = closed
    BY <1>1 DEF HandleReturn, closeVars
  <2>2. /\ H.sent = gens[g].sent /\ H.handled = gens[g].handled
        /\ H.verdicts = gens[g].verdicts /\ H.bounced = gens[g].bounced
        /\ H.returns = Tail(gens[g].returns) /\ H.dead = gens[g].dead /\ H.open = gens[g].open
        /\ H.confirmReader = gens[g].confirmReader /\ H.orphans = gens[g].orphans
    BY <1>0 DEF Generation
  <2>3. \A i \in 1 .. Len(H.returns) : /\ H.returns[i] = gens[g].returns[i + 1]
                                       /\ i + 1 \in 1 .. Len(gens[g].returns)
    <3>1. gens[g].returns # <<>>
      BY <1>1 DEF HandleReturn
    <3>2. QED
      BY <2>2, <3>1, HeadTailProperties, GenerationFacts
  <2> HIDE DEF H
  <2>4. ASSUME gens'[g] = H PROVE SoundNext(g) /\ Kept(g)
    <3>1. Kept(g)
      BY <2>1, <2>2, <2>4, GenerationFacts DEF Kept, Grows, Idle
    <3>2. \A i \in 1 .. Len(H.returns) : \E t \in H.bounced : IdOf[H.sent[t]] = H.returns[i]
      BY <1>0, <2>2, <2>3 DEF SoundNow, SoundGeneration
    <3>3. /\ H.handled <= Len(H.verdicts)
          /\ H.dead => ~H.open /\ H.handled = Len(H.verdicts) /\ H.confirmReader \in {"marked", "done"}
          /\ H.confirmReader = "marked" => H.dead
          /\ H.confirmReader = "done" /\ closed' = "no" => H.dead
          /\ H.confirmReader = "none" <=> g > cur'
      BY <1>0, <2>1, <2>2 DEF SoundNow, SoundGeneration
    <3>4. \A t \in H.bounced : t \in 1 .. Len(H.sent) /\ (t <= Len(H.verdicts) => H.verdicts[t])
      BY <1>0, <2>2 DEF SoundNow, SoundGeneration
    <3>5. SoundNext(g)
      BY <2>4, <3>2, <3>3, <3>4 DEF SoundNext, SoundGeneration
    <3>6. QED
      BY <3>1, <3>5
  <2>5. QED
    BY <2>1, <2>4, OneChannel
<1>2. CASE ReturnReaderExits(g)
  <2> DEFINE H == [gens[g] EXCEPT !.returnReader = "done"]
  <2>1. gens' = [gens EXCEPT ![g] = H] /\ cur' = cur /\ closed' = closed
    BY <1>2 DEF ReturnReaderExits, closeVars
  <2>2. /\ H.sent = gens[g].sent /\ H.handled = gens[g].handled
        /\ H.verdicts = gens[g].verdicts /\ H.bounced = gens[g].bounced
        /\ H.returns = gens[g].returns /\ H.dead = gens[g].dead /\ H.open = gens[g].open
        /\ H.confirmReader = gens[g].confirmReader /\ H.orphans = gens[g].orphans
    BY <1>0 DEF Generation
  <2> HIDE DEF H
  <2>3. ASSUME gens'[g] = H PROVE SoundNext(g) /\ Kept(g)
    BY <2>1, <2>2, <2>3, SameAnswers
  <2>4. QED
    BY <2>1, <2>3, OneChannel
<1>3. CASE ConfirmReaderStops(g)
  <2> DEFINE H == [gens[g] EXCEPT !.confirmReader = "done"]
  <2>1. /\ gens' = [gens EXCEPT ![g] = H] /\ cur' = cur /\ closed' = closed
        /\ closed # "no" /\ gens[g].confirmReader = "running"
    BY <1>3 DEF ConfirmReaderStops, closeVars
  <2>2. /\ H.sent = gens[g].sent /\ H.handled = gens[g].handled
        /\ H.verdicts = gens[g].verdicts /\ H.bounced = gens[g].bounced
        /\ H.returns = gens[g].returns /\ H.dead = gens[g].dead /\ H.open = gens[g].open
        /\ H.confirmReader = "done" /\ H.orphans = gens[g].orphans
    BY <1>0 DEF Generation
  <2> HIDE DEF H
  <2>3. ASSUME gens'[g] = H PROVE SoundNext(g) /\ Kept(g)
    <3>1. Kept(g)
      BY <2>1, <2>2, <2>3, GenerationFacts DEF Kept, Grows, Idle
    <3>2. ~gens[g].dead /\ ~(g > cur)
      BY <1>0, <2>1 DEF SoundNow, SoundGeneration
    <3>3. SoundNext(g)
      <4>1. /\ \A t \in H.bounced : t \in 1 .. Len(H.sent) /\ (t <= Len(H.verdicts) => H.verdicts[t])
            /\ \A i \in 1 .. Len(H.returns) : \E t \in H.bounced : IdOf[H.sent[t]] = H.returns[i]
        BY <1>0, <2>2 DEF SoundNow, SoundGeneration
      <4>2. H.handled <= Len(H.verdicts)
        BY <1>0, <2>2 DEF SoundNow, SoundGeneration
      <4>3. /\ H.dead => ~H.open /\ H.handled = Len(H.verdicts) /\ H.confirmReader \in {"marked", "done"}
            /\ H.confirmReader = "marked" => H.dead
            /\ H.confirmReader = "done" /\ closed' = "no" => H.dead
            /\ H.confirmReader = "none" <=> g > cur'
        BY <2>1, <2>2, <3>2
      <4>4. QED
        BY <2>3, <4>1, <4>2, <4>3 DEF SoundNext, SoundGeneration
    <3>4. QED
      BY <3>1, <3>3
  <2>4. QED
    BY <2>1, <2>3, OneChannel
<1>4. CASE MarkDead(g)
  <2> DEFINE H == [gens[g] EXCEPT !.confirmReader = "marked", !.dead = TRUE]
  <2>1. /\ gens' = [gens EXCEPT ![g] = H] /\ cur' = cur /\ closed' = closed
        /\ gens[g].confirmReader = "running" /\ ~gens[g].open
        /\ gens[g].handled = Len(gens[g].verdicts)
    BY <1>4 DEF MarkDead, closeVars
  <2>2. /\ H.sent = gens[g].sent /\ H.handled = gens[g].handled
        /\ H.verdicts = gens[g].verdicts /\ H.bounced = gens[g].bounced
        /\ H.returns = gens[g].returns /\ H.dead = TRUE /\ H.open = gens[g].open
        /\ H.confirmReader = "marked" /\ H.orphans = gens[g].orphans
    BY <1>0 DEF Generation
  <2> HIDE DEF H
  <2>3. ASSUME gens'[g] = H PROVE SoundNext(g) /\ Kept(g)
    <3>1. Kept(g)
      BY <2>1, <2>2, <2>3, GenerationFacts DEF Kept, Grows, Idle
    <3>2. ~(g > cur)
      <4>1. gens[g].confirmReader = "none" <=> g > cur
        BY <1>0 DEF SoundNow, SoundGeneration
      <4>2. QED
        BY <2>1, <4>1
    <3>3. SoundNext(g)
      <4>1. /\ \A t \in H.bounced : t \in 1 .. Len(H.sent) /\ (t <= Len(H.verdicts) => H.verdicts[t])
            /\ \A i \in 1 .. Len(H.returns) : \E t \in H.bounced : IdOf[H.sent[t]] = H.returns[i]
        BY <1>0, <2>2 DEF SoundNow, SoundGeneration
      <4>2. H.handled <= Len(H.verdicts)
        BY <1>0, <2>2 DEF SoundNow, SoundGeneration
      <4>3. /\ H.dead => ~H.open /\ H.handled = Len(H.verdicts) /\ H.confirmReader \in {"marked", "done"}
            /\ H.confirmReader = "marked" => H.dead
            /\ H.confirmReader = "done" /\ closed' = "no" => H.dead
            /\ H.confirmReader = "none" <=> g > cur'
        BY <2>1, <2>2, <3>2
      <4>4. QED
        BY <2>3, <4>1, <4>2, <4>3 DEF SoundNext, SoundGeneration
    <3>4. QED
      BY <3>1, <3>3
  <2>4. QED
    BY <2>1, <2>3, OneChannel
<1>5. QED
  BY <1>1, <1>2, <1>3, <1>4

LEMMA BrokerKeepsChannels ==
    ASSUME TypeInv, Generations, NEW g \in Gen, BrokerStep(g)
    PROVE  ChannelsKept
<1>0. gens[g] \in Generation /\ SoundNow(g)
  BY GenerationFacts DEF Generations, SoundNow
<1>1. CASE ChannelDies(g)
  <2> DEFINE H == [gens[g] EXCEPT !.open = FALSE]
  <2>1. gens' = [gens EXCEPT ![g] = H] /\ cur' = cur /\ closed' = closed
    BY <1>1 DEF ChannelDies, closeVars
  <2>2. /\ H.sent = gens[g].sent /\ H.handled = gens[g].handled
        /\ H.verdicts = gens[g].verdicts /\ H.bounced = gens[g].bounced
        /\ H.returns = gens[g].returns /\ H.dead = gens[g].dead /\ ~H.open
        /\ H.confirmReader = gens[g].confirmReader /\ H.orphans = gens[g].orphans
    BY <1>0 DEF Generation
  <2> HIDE DEF H
  <2>3. ASSUME gens'[g] = H PROVE SoundNext(g) /\ Kept(g)
    BY <2>1, <2>2, <2>3, SameAnswers
  <2>4. QED
    BY <2>1, <2>3, OneChannel
<1>2. CASE BrokerReturns(g)
  <2> DEFINE t0 == NextTag(g)
             H == [gens[g] EXCEPT !.bounced = gens[g].bounced \cup {t0},
                                  !.returns = Append(gens[g].returns, IdOf[gens[g].sent[t0]])]
  <2>1. /\ gens' = [gens EXCEPT ![g] = H] /\ cur' = cur /\ closed' = closed
        /\ gens[g].open /\ t0 <= Len(gens[g].sent)
    BY <1>2 DEF BrokerReturns, closeVars
  <2>2. t0 = Len(gens[g].verdicts) + 1
    BY DEF NextTag
  <2> HIDE DEF t0
  <2>3. /\ H.sent = gens[g].sent /\ H.handled = gens[g].handled
        /\ H.verdicts = gens[g].verdicts /\ H.bounced = gens[g].bounced \cup {t0}
        /\ H.returns = Append(gens[g].returns, IdOf[gens[g].sent[t0]])
        /\ H.dead = gens[g].dead /\ H.open = gens[g].open
        /\ H.confirmReader = gens[g].confirmReader /\ H.orphans = gens[g].orphans
    BY <1>0 DEF Generation
  <2>4. IdOf[gens[g].sent[t0]] \in MsgId /\ t0 \in 1 .. Len(gens[g].sent)
    BY <2>1, <2>2, GenerationFacts, ConstantsOK
  <2>5. \A i \in 1 .. Len(H.returns) :
            \/ i \in 1 .. Len(gens[g].returns) /\ H.returns[i] = gens[g].returns[i]
            \/ H.returns[i] = IdOf[H.sent[t0]]
    BY <2>3, <2>4, AppendProperties, GenerationFacts
  <2> HIDE DEF H
  <2>6. ASSUME gens'[g] = H PROVE SoundNext(g) /\ Kept(g)
    <3>1. Kept(g)
      BY <2>1, <2>3, <2>6, GenerationFacts DEF Kept, Grows, Idle
    <3>2. \A i \in 1 .. Len(H.returns) : \E t \in H.bounced : IdOf[H.sent[t]] = H.returns[i]
      BY <1>0, <2>3, <2>5 DEF SoundNow, SoundGeneration
    <3>3. \A t \in H.bounced : t \in 1 .. Len(H.sent) /\ (t <= Len(H.verdicts) => H.verdicts[t])
      BY <1>0, <2>2, <2>3, <2>4, GenerationFacts DEF SoundNow, SoundGeneration
    <3>4. /\ H.handled <= Len(H.verdicts)
          /\ H.dead => ~H.open /\ H.handled = Len(H.verdicts) /\ H.confirmReader \in {"marked", "done"}
          /\ H.confirmReader = "marked" => H.dead
          /\ H.confirmReader = "done" /\ closed' = "no" => H.dead
          /\ H.confirmReader = "none" <=> g > cur'
      BY <1>0, <2>1, <2>3 DEF SoundNow, SoundGeneration
    <3>5. SoundNext(g)
      BY <2>6, <3>2, <3>3, <3>4 DEF SoundNext, SoundGeneration
    <3>6. QED
      BY <3>1, <3>5
  <2>7. QED
    BY <2>1, <2>6, OneChannel
<1>3. ASSUME NEW ack \in BOOLEAN, BrokerConfirms(g, ack) PROVE ChannelsKept
  <2> DEFINE H == [gens[g] EXCEPT !.verdicts = Append(gens[g].verdicts, ack)]
  <2>1. /\ gens' = [gens EXCEPT ![g] = H] /\ cur' = cur /\ closed' = closed
        /\ gens[g].open /\ (Len(gens[g].verdicts) + 1 \in gens[g].bounced => ack)
    BY <1>3 DEF BrokerConfirms, closeVars, NextTag
  <2>2. /\ H.sent = gens[g].sent /\ H.handled = gens[g].handled
        /\ H.verdicts = Append(gens[g].verdicts, ack) /\ H.bounced = gens[g].bounced
        /\ H.returns = gens[g].returns /\ H.dead = gens[g].dead /\ H.open = gens[g].open
        /\ H.confirmReader = gens[g].confirmReader /\ H.orphans = gens[g].orphans
    BY <1>0 DEF Generation
  <2>3. /\ Len(H.verdicts) = Len(gens[g].verdicts) + 1
        /\ H.verdicts[Len(gens[g].verdicts) + 1] = ack
        /\ \A t \in 1 .. Len(gens[g].verdicts) : H.verdicts[t] = gens[g].verdicts[t]
    BY <2>2, AppendProperties, GenerationFacts
  <2>4. ~gens[g].dead
    BY <1>0, <2>1 DEF SoundNow, SoundGeneration
  <2> HIDE DEF H
  <2>5. ASSUME gens'[g] = H PROVE SoundNext(g) /\ Kept(g)
    <3>1. Kept(g)
      <4>1. Grows(g)
        <5>1. Len(gens[g].verdicts) \in Nat
          BY GenerationFacts
        <5>2. /\ Len(gens[g].verdicts) <= Len(H.verdicts)
              /\ \A t \in 1 .. Len(gens[g].verdicts) : H.verdicts[t] = gens[g].verdicts[t]
          BY <2>3, <5>1
        <5>3. QED
          BY <2>2, <2>4, <2>5, <5>2 DEF Grows
      <4>2. Idle(g)
        BY <2>1, <2>2, <2>5 DEF Idle
      <4>3. QED
        BY <4>1, <4>2 DEF Kept
    <3>2. \A t \in H.bounced : t \in 1 .. Len(H.sent) /\ (t <= Len(H.verdicts) => H.verdicts[t])
      <4>1. \A t \in H.bounced : /\ t \in 1 .. Len(H.sent)
                                 /\ t <= Len(gens[g].verdicts) => gens[g].verdicts[t]
        BY <1>0, <2>2 DEF SoundNow, SoundGeneration
      <4>2. QED
        BY <2>1, <2>2, <2>3, <4>1, GenerationFacts
    <3>3. /\ H.handled <= Len(H.verdicts)
          /\ H.dead => ~H.open /\ H.handled = Len(H.verdicts) /\ H.confirmReader \in {"marked", "done"}
          /\ H.confirmReader = "marked" => H.dead
          /\ H.confirmReader = "done" /\ closed' = "no" => H.dead
          /\ H.confirmReader = "none" <=> g > cur'
      BY <1>0, <2>1, <2>2, <2>3, <2>4, GenerationFacts DEF SoundNow, SoundGeneration
    <3>4. \A i \in 1 .. Len(H.returns) : \E t \in H.bounced : IdOf[H.sent[t]] = H.returns[i]
      BY <1>0, <2>2 DEF SoundNow, SoundGeneration
    <3>5. SoundNext(g)
      BY <2>5, <3>2, <3>3, <3>4 DEF SoundNext, SoundGeneration
    <3>6. QED
      BY <3>1, <3>5
  <2>6. QED
    BY <2>1, <2>5, OneChannel
<1>4. QED
  BY <1>1, <1>2, <1>3 DEF BrokerStep

LEMMA OtherKeepsChannels ==
    ASSUME TypeInv, Generations,
           \/ \E o \in Pending : MessageStep(o)
           \/ KeeperWakes \/ CloseBegin \/ CloseConfirmChannel \/ CloseReturns
           \/ FreshChannelDies \/ (\E c \in Call : ContextEnds(c)) \/ UNCHANGED vars
    PROVE  ChannelsKept
<1>1. CASE CloseConfirmChannel
  <2> DEFINE H == [gens[cur] EXCEPT !.open = FALSE]
  <2>1. gens' = [gens EXCEPT ![cur] = H] /\ cur' = cur /\ closed' = closed
    BY <1>1 DEF CloseConfirmChannel
  <2>2. gens[cur] \in Generation /\ cur \in Gen
    BY GenerationFacts
  <2>3. /\ H.sent = gens[cur].sent /\ H.handled = gens[cur].handled
        /\ H.verdicts = gens[cur].verdicts /\ H.bounced = gens[cur].bounced
        /\ H.returns = gens[cur].returns /\ H.dead = gens[cur].dead /\ ~H.open
        /\ H.confirmReader = gens[cur].confirmReader /\ H.orphans = gens[cur].orphans
    BY <2>2 DEF Generation
  <2> HIDE DEF H
  <2>4. ASSUME gens'[cur] = H PROVE SoundNext(cur) /\ Kept(cur)
    BY <2>1, <2>2, <2>3, <2>4, SameAnswers
  <2>5. QED
    BY <2>1, <2>2, <2>4, OneChannel
<1>2. CASE ~CloseConfirmChannel
  <2>1. gens' = gens /\ cur' = cur /\ (closed' = "no" => closed = "no")
    BY <1>2 DEF MessageStep, Expire, HandleTimeout, HandleGraceExpired, Finish, KeeperWakes,
       CloseBegin, CloseReturns, FreshChannelDies, ContextEnds, vars, chanVars, closeVars
  <2>2. QED
    BY <2>1, NoChannel
<1>3. QED
  BY <1>1, <1>2

\* A step that keeps what the broker sent of g.
LEMMA SameContents ==
    ASSUME TypeInv, Generations, NEW g \in Gen,
           gens'[g].sent = gens[g].sent, gens'[g].verdicts = gens[g].verdicts,
           gens'[g].bounced = gens[g].bounced, gens'[g].returns = gens[g].returns,
           gens'[g].handled <= Len(gens[g].verdicts),
           gens'[g].dead => /\ ~gens'[g].open /\ gens'[g].handled = Len(gens[g].verdicts)
                            /\ gens'[g].confirmReader \in {"marked", "done"},
           gens'[g].confirmReader = "marked" => gens'[g].dead,
           gens'[g].confirmReader = "done" /\ closed' = "no" => gens'[g].dead,
           gens'[g].confirmReader = "none" <=> g > cur'
    PROVE  SoundNext(g)
<1>1. SoundGeneration(gens[g], g, cur, closed)
  BY DEF Generations
<1>2. /\ \A t \in gens[g].bounced : /\ t \in 1 .. Len(gens[g].sent)
                                    /\ t <= Len(gens[g].verdicts) => gens[g].verdicts[t]
      /\ \A i \in 1 .. Len(gens[g].returns) :
             \E t \in gens[g].bounced : IdOf[gens[g].sent[t]] = gens[g].returns[i]
  BY <1>1 DEF SoundGeneration
<1>3. QED
  BY <1>2 DEF SoundNext, SoundGeneration

\* The reader handles a confirm.
LEMMA ConfirmationChannels ==
    ASSUME TypeInv, Generations, NEW g \in Gen, HandleConfirmation(g)
    PROVE  /\ \A h \in Gen : SoundNext(h)
           /\ \A h \in 1 .. cur : Grows(h) /\ (h # g => Kept(h))
           /\ g \in 1 .. cur /\ gens'[g].handled = gens[g].handled + 1
           /\ gens[g].handled + 1 \in 1 .. Len(gens[g].verdicts)
           /\ gens'[g].orphans = gens[g].orphans /\ gens'[g].confirmReader = "running"
           /\ gens'[g].verdicts = gens[g].verdicts
<1>0. gens[g] \in Generation /\ SoundNow(g)
  BY GenerationFacts DEF Generations, SoundNow
<1> DEFINE H == [gens[g] EXCEPT !.handled = gens[g].handled + 1]
<1>1. /\ gens' = [gens EXCEPT ![g] = H] /\ cur' = cur /\ closed' = closed
      /\ gens[g].confirmReader = "running" /\ gens[g].handled + 1 <= Len(gens[g].verdicts)
  BY DEF HandleConfirmation, closeVars
<1>2. /\ H.sent = gens[g].sent /\ H.handled = gens[g].handled + 1
      /\ H.verdicts = gens[g].verdicts /\ H.bounced = gens[g].bounced
      /\ H.returns = gens[g].returns /\ H.dead = gens[g].dead /\ H.open = gens[g].open
      /\ H.confirmReader = gens[g].confirmReader /\ H.orphans = gens[g].orphans
  BY <1>0 DEF Generation
<1> HIDE DEF H
<1>3. gens'[g] = H /\ \A h \in Gen : h # g => gens'[h] = gens[h]
  BY <1>1, GenerationFacts
<1>4. ~gens[g].dead /\ ~(g > cur)
  BY <1>0, <1>1 DEF SoundNow, SoundGeneration
<1>5. Grows(g)
  BY <1>2, <1>3, <1>4, GenerationFacts DEF Grows
<1>6. SoundNext(g)
  <2>1. H.handled <= Len(H.verdicts)
    BY <1>1, <1>2
  <2>2. QED
    BY <1>1, <1>2, <1>3, <1>4, <2>1, SameContents
<1>7. \A h \in Gen : h # g => SoundNext(h) /\ Kept(h)
  BY <1>1, <1>3, OtherGeneration
<1>8. g \in 1 .. cur /\ gens[g].handled + 1 \in 1 .. Len(gens[g].verdicts)
  BY <1>1, <1>4, GenerationFacts
<1>9. \A h \in 1 .. cur : Grows(h) /\ (h # g => Kept(h))
  BY <1>5, <1>7, GenerationFacts DEF Kept
<1>10. QED
  BY <1>1, <1>2, <1>3, <1>6, <1>7, <1>8, <1>9

\* The sweep collects the orphans of a dead generation, or settles one of them.
LEMMA SweepChannels ==
    ASSUME TypeInv, Generations, NEW g \in Gen,
           CollectOrphans(g) \/ \E o \in Pending : SettleOrphan(g, o)
    PROVE  /\ \A h \in Gen : SoundNext(h)
           /\ \A h \in 1 .. cur : Grows(h) /\ (h # g => Kept(h))
           /\ gens'[g].handled = gens[g].handled /\ gens'[g].dead = gens[g].dead
           /\ gens'[g].confirmReader = gens[g].confirmReader \/ CollectOrphans(g)
<1>0. gens[g] \in Generation /\ SoundNow(g)
  BY GenerationFacts DEF Generations, SoundNow
<1>1. PICK reader \in {gens[g].confirmReader, "done"}, S \in SUBSET Pending :
         /\ gens' = [gens EXCEPT ![g].confirmReader = reader, ![g].orphans = S]
         /\ cur' = cur /\ closed' = closed
         /\ reader = gens[g].confirmReader \/ gens[g].confirmReader = "marked"
         /\ reader = gens[g].confirmReader \/ CollectOrphans(g)
  <2>1. CASE CollectOrphans(g)
    BY <2>1 DEF CollectOrphans, closeVars
  <2>2. ASSUME NEW o \in Pending, SettleOrphan(g, o)
        PROVE  /\ gens' = [gens EXCEPT ![g].confirmReader = gens[g].confirmReader,
                                       ![g].orphans = gens[g].orphans \ {o}]
               /\ gens[g].orphans \ {o} \in SUBSET Pending
               /\ cur' = cur /\ closed' = closed
    <3>1. gens' = [gens EXCEPT ![g].orphans = @ \ {o}] /\ cur' = cur /\ closed' = closed
      BY <2>2 DEF SettleOrphan, closeVars
    <3>2. [gens[g] EXCEPT !.confirmReader = gens[g].confirmReader, !.orphans = gens[g].orphans \ {o}]
             = [gens[g] EXCEPT !.orphans = gens[g].orphans \ {o}]
      BY <1>0 DEF Generation
    <3>3. QED
      BY <3>1, <3>2, GenerationFacts
  <2>3. QED
    BY <2>1, <2>2
<1> DEFINE H == [gens[g] EXCEPT !.confirmReader = reader, !.orphans = S]
<1>2. /\ H.sent = gens[g].sent /\ H.handled = gens[g].handled
      /\ H.verdicts = gens[g].verdicts /\ H.bounced = gens[g].bounced
      /\ H.returns = gens[g].returns /\ H.dead = gens[g].dead /\ H.open = gens[g].open
      /\ H.confirmReader = reader
  BY <1>0 DEF Generation
<1>3. gens'[g] = H /\ \A h \in Gen : h # g => gens'[h] = gens[h]
  BY <1>1, GenerationFacts
<1> HIDE DEF H
<1>4. Grows(g)
  BY <1>2, <1>3, GenerationFacts DEF Grows
<1>5. SoundNext(g)
  <2>1. \/ reader \in {"marked", "done"} /\ gens[g].dead /\ gens[g].confirmReader = "marked"
        \/ reader = gens[g].confirmReader
    BY <1>0, <1>1 DEF SoundNow, SoundGeneration
  <2>2. /\ gens[g].handled <= Len(gens[g].verdicts)
        /\ gens[g].dead => /\ ~gens[g].open /\ gens[g].handled = Len(gens[g].verdicts)
                           /\ gens[g].confirmReader \in {"marked", "done"}
        /\ gens[g].confirmReader = "marked" => gens[g].dead
        /\ gens[g].confirmReader = "done" /\ closed = "no" => gens[g].dead
        /\ gens[g].confirmReader = "none" <=> g > cur
    BY <1>0 DEF SoundNow, SoundGeneration
  <2>3. QED
    BY <1>1, <1>2, <1>3, <2>1, <2>2, SameContents
<1>6. \A h \in Gen : h # g => SoundNext(h) /\ Kept(h)
  BY <1>1, <1>3, OtherGeneration
<1>7. QED
  BY <1>1, <1>2, <1>3, <1>4, <1>5, <1>6, GenerationFacts DEF Kept

-------------------------------------------------------------------------------
\* Keys and positions

\* A live attempt's message has a key of an installed generation.
LEMMA LiveFacts ==
    ASSUME IInv, TagUsed, NEW p \in Proc, pc[p] \in Live
    PROVE  /\ Current(p) \in Pending /\ Mine(p) \in PendingMessage
           /\ Mine(p).gen \in 1 .. cur /\ Mine(p).gen \in Gen
           /\ Mine(p).tag \in Nat /\ Mine(p).tag >= 1
           /\ pc[p] = "nil" => Mine(p).tag <= gens[Mine(p).gen].published
           /\ pc[p] \in {"sending", "sent"} =>
                  Mine(p).gen = cur /\ Mine(p).tag = gens[cur].published + 1
<1>1. /\ Current(p) \in Pending /\ Mine(p) \in PendingMessage
      /\ cur \in Gen /\ 1 .. cur \subseteq Gen /\ cur \in 1 .. cur
  BY StateFacts, CurrentType, GenerationFacts, ConstantsOK DEF Mine, IInv, Gen
<1>2. CASE pc[p] = "nil"
  BY <1>1, <1>2, CountFacts DEF TagUsed, Mine, GenOf
<1>3. CASE pc[p] \in {"sending", "sent"}
  BY <1>1, <1>3, CountFacts DEF IInv, HolderTagged, InPublishMu, Mine
<1>4. QED
  BY <1>2, <1>3 DEF Live

LEMMA InitPositions == Init => Positions
<1> SUFFICES ASSUME Init PROVE Positions
  OBVIOUS
<1>1. \A p \in Proc : pc[p] \in {"publish", "idle"}
  BY SentinelsOK DEF Init, Proc, Refresher
<1>2. Fresh
  BY DEF Init, Fresh, NewPending
<1>3. TagUsed /\ KeysUnique /\ SentMatch
  BY <1>1 DEF TagUsed, KeysUnique, SentMatch, Live, Sent
<1>4. SentBy
  <2>1. \A g \in Gen : Len(gens[g].sent) = 0
    BY InstalledGenerationType DEF Init, NoGeneration
  <2>2. QED
    BY <2>1 DEF SentBy
<1>5. QED
  BY <1>2, <1>3, <1>4 DEF Positions

\* Live attempts stay where they are and keep their keys, unless their send fails.
LiveStay ==
    \A p \in Proc :
        /\ pc'[p] \in Live => /\ pc[p] = pc'[p] /\ attempt'[p] = attempt[p]
                              /\ pend'[Current(p)].gen = Mine(p).gen
                              /\ pend'[Current(p)].tag = Mine(p).tag
        /\ pc[p] \in Sent => pc'[p] = pc[p]

BornOnce == \A o \in Pending : Unborn(o)' => Unborn(o) /\ pend'[o].gen = pend[o].gen

LEMMA StayPositions ==
    ASSUME IInv, Positions, LiveStay, BornOnce,
           cur' = cur \/ cur' = cur + 1,
           \A g \in 1 .. cur : /\ gens'[g].sent = gens[g].sent
                               /\ gens'[g].published = gens[g].published,
           \A g \in Gen : g \notin 1 .. cur /\ gens'[g].sent # gens[g].sent => gens'[g].sent = <<>>
    PROVE  Positions'
<1>1. \A p \in Proc : pc'[p] \in Live =>
          /\ pc'[p] = pc[p]
          /\ Mine(p)'.gen = Mine(p).gen /\ Mine(p)'.tag = Mine(p).tag
          /\ Mine(p).gen \in 1 .. cur
          /\ GenOf(p)'.sent = GenOf(p).sent /\ GenOf(p)'.published = GenOf(p).published
          /\ KeyOf(Current(p))' = KeyOf(Current(p))
  <2> SUFFICES ASSUME NEW p \in Proc, pc'[p] \in Live
               PROVE  /\ pc'[p] = pc[p]
                      /\ Mine(p)'.gen = Mine(p).gen /\ Mine(p)'.tag = Mine(p).tag
                      /\ Mine(p).gen \in 1 .. cur
                      /\ GenOf(p)'.sent = GenOf(p).sent /\ GenOf(p)'.published = GenOf(p).published
                      /\ KeyOf(Current(p))' = KeyOf(Current(p))
    OBVIOUS
  <2>1. Mine(p).gen \in 1 .. cur
    BY LiveFacts DEF Positions, LiveStay
  <2>2. Mine(p)'.gen = Mine(p).gen /\ Mine(p)'.tag = Mine(p).tag
    BY DEF LiveStay, Mine, Current
  <2>3. QED
    BY <2>1, <2>2 DEF GenOf, KeyOf, Mine, LiveStay
<1>2. Fresh'
  BY DEF Positions, Fresh, BornOnce
<1>3. TagUsed'
  <2>1. cur \in Nat
    BY StateFacts
  <2>2. QED
    BY <1>1, <2>1 DEF Positions, TagUsed, LiveStay, Live
<1>4. KeysUnique'
  BY <1>1 DEF Positions, KeysUnique, LiveStay
<1>5. SentMatch'
  BY <1>1 DEF Positions, SentMatch, LiveStay, Live, Sent
<1>6. SentBy'
  <2> SUFFICES ASSUME NEW g \in Gen, NEW t \in 1 .. Len(gens'[g].sent)
               PROVE  \E p \in Proc : p[1] = gens'[g].sent[t] /\ pc'[p] \in Sent
                                      /\ KeyOf(Current(p))' = <<g, t>>
    BY DEF SentBy
  <2>1. gens'[g].sent = gens[g].sent
    OBVIOUS
  <2>2. PICK p \in Proc : p[1] = gens[g].sent[t] /\ pc[p] \in Sent /\ KeyOf(Current(p)) = <<g, t>>
    BY <2>1 DEF Positions, SentBy
  <2>3. pc'[p] \in Sent /\ KeyOf(Current(p))' = <<g, t>>
    BY <1>1, <2>2 DEF LiveStay, Live, Sent
  <2>4. QED
    BY <2>1, <2>2, <2>3
<1>7. QED
  BY <1>2, <1>3, <1>4, <1>5, <1>6 DEF Positions

LEMMA QuietPositions ==
    ASSUME IInv, Positions, Quiet, BornOnce
    PROVE  Positions'
<1>1. LiveStay
  <2> SUFFICES ASSUME NEW p \in Proc
               PROVE  /\ pc'[p] \in Live => /\ pc[p] = pc'[p] /\ attempt'[p] = attempt[p]
                                            /\ pend'[Current(p)].gen = Mine(p).gen
                                            /\ pend'[Current(p)].tag = Mine(p).tag
                      /\ pc[p] \in Sent => pc'[p] = pc[p]
    BY DEF LiveStay
  <2>1. /\ pc'[p] \in Live <=> pc[p] \in Live
        /\ pc[p] \in Live => pc'[p] = pc[p] /\ attempt'[p] = attempt[p]
    BY DEF Quiet, QuietProcesses, StartsRetry, Loose, Live
  <2>2. Current(p) \in Pending
    BY CurrentType, StateFacts
  <2>3. QED
    BY <2>1, <2>2 DEF Quiet, QuietMessages, Mine, Live, Sent
<1>2. \A g \in 1 .. cur : g \in Gen
  BY GenerationFacts DEF IInv
<1>3. QED
  BY <1>1, <1>2, StayPositions DEF Quiet, QuietChannels

\* No attempt is unborn again, as long as processes only go on.
LEMMA BornFacts ==
    ASSUME IInv,
           \A o \in Pending : pend'[o].gen = pend[o].gen,
           \A p \in Proc : \/ pc'[p] = pc[p] /\ attempt'[p] = attempt[p]
                           \/ pc'[p] \notin {"idle", "backoff", "publish"} /\ attempt'[p] = attempt[p]
                           \/ pc[p] \in {"idle", "backoff", "publish"} /\ attempt'[p] = attempt[p]
                           \/ attempt'[p] = attempt[p] + 1
    PROVE  BornOnce
<1> SUFFICES ASSUME NEW o \in Pending, Unborn(o)' PROVE Unborn(o)
  BY DEF BornOnce
<1>1. o[1] \in Proc /\ o[2] \in Nat /\ attempt[o[1]] \in Nat
  BY StateFacts, ConstantsOK DEF Pending, Attempt
<1>2. QED
  BY <1>1 DEF Unborn

-------------------------------------------------------------------------------
\* Operations on one message, field by field

\* A message as the invariant sees it: everything but its timers.
SameFields(n, m) ==
    /\ n.gen = m.gen /\ n.tag = m.tag
    /\ n.inFlight = m.inFlight /\ n.orphanDeferred = m.orphanDeferred
    /\ n.Confirmed = m.Confirmed /\ n.Nacked = m.Nacked /\ n.Returned = m.Returned

SameOutcome(n, m) ==
    n.CallbackFired = m.CallbackFired /\ n.FinalOutcome = m.FinalOutcome /\ n.finish = m.finish

LEMMA StopTimerFields ==
    ASSUME NEW m \in PendingMessage
    PROVE  /\ SameFields(StopTimer(m), m) /\ SameOutcome(StopTimer(m), m)
           /\ StopTimer(m).grace # "off" => m.grace # "off"
BY DEF StopTimer, PendingMessage, TimerState, SameFields, SameOutcome

LEMMA ClaimFields ==
    ASSUME NEW m \in PendingMessage, NEW outcome \in Outcome
    PROVE  LET n == Claim(m, outcome)
           IN  /\ SameFields(n, m) /\ n.CallbackFired /\ n.FinalOutcome = outcome
               /\ n.finish = "pending" /\ (n.grace # "off" => m.grace # "off")
<1>1. StopTimer(m) \in PendingMessage
  BY StopTimerFacts
<1>2. QED
  BY <1>1, StopTimerFields DEF Claim, PendingMessage, SameFields, SameOutcome

LEMMA FinalizedFields ==
    ASSUME NEW o \in Pending, NEW m \in PendingMessage
    PROVE  LET n == Finalized(o, m)
           IN  /\ SameFields(n, m)
               /\ m.CallbackFired => n = m
               /\ ~m.CallbackFired /\ FinalOutcome(o, m) = "none" =>
                      SameOutcome(n, m) /\ n.grace = "armed"
               /\ ~m.CallbackFired /\ FinalOutcome(o, m) # "none" =>
                      /\ n.CallbackFired /\ n.FinalOutcome = FinalOutcome(o, m)
                      /\ n.finish = (IF Retries(o, m) THEN "no" ELSE "pending")
                      /\ (n.grace # "off" => m.grace # "off")
<1>1. CASE m.CallbackFired
  BY <1>1 DEF Finalized, SameFields
<1>2. CASE ~m.CallbackFired /\ FinalOutcome(o, m) = "none"
  <2>1. StopTimer(m) \in PendingMessage
    BY StopTimerFacts
  <2>2. Finalized(o, m) = [StopTimer(m) EXCEPT !.grace = "armed"]
    BY <1>2 DEF Finalized
  <2>3. QED
    BY <1>2, <2>1, <2>2, StopTimerFields DEF PendingMessage, SameFields, SameOutcome
<1>3. CASE ~m.CallbackFired /\ FinalOutcome(o, m) # "none"
  <2> DEFINE c == Claim(m, FinalOutcome(o, m))
  <2>1. FinalOutcome(o, m) \in Outcome
    BY FinalOutcomeType DEF Outcome, Counted
  <2>2. /\ c \in PendingMessage /\ SameFields(c, m) /\ c.CallbackFired
        /\ c.FinalOutcome = FinalOutcome(o, m) /\ (c.grace # "off" => m.grace # "off")
    BY <2>1, ClaimFacts, ClaimFields
  <2>3. Finalized(o, m) = [c EXCEPT !.finish = IF Retries(o, m) THEN "no" ELSE "pending"]
    BY <1>3 DEF Finalized
  <2> HIDE DEF c
  <2>4. QED
    BY <1>3, <2>2, <2>3 DEF PendingMessage, SameFields
<1>4. QED
  BY <1>1, <1>2, <1>3

\* A nack starts the next retry, which has not begun before.
NextRetry(o) == <<CallOf(o), RetryOf(o) + 1>>

LEMMA RetryFacts ==
    ASSUME IInv, NEW o \in Pending, o = Current(o[1]), ~pend[o].CallbackFired,
           RetryOf(o) < MaxRetryAttempts
    PROVE  /\ NextRetry(o) \in Proc /\ pc[NextRetry(o)] = "idle" /\ NextRetry(o) # o[1]
           /\ NextRetry(o)[1] = o[1][1] /\ NextRetry(o)[2] = o[1][2] + 1
<1>1. o[1] \in Proc
  BY StateFacts
<1>2. /\ NextRetry(o) \in Proc /\ NextRetry(o)[2] > 0 /\ NextRetry(o) # o[1]
      /\ <<NextRetry(o)[1], NextRetry(o)[2] - 1>> = o[1]
      /\ NextRetry(o)[1] = o[1][1] /\ NextRetry(o)[2] = o[1][2] + 1
  BY <1>1, ConstantsOK DEF NextRetry, RetryOf, CallOf, Proc
<1>3. QED
  BY <1>2 DEF IInv, RetriesFollowNacks

\* tryFinalizeMessage on the current message of a process, as effects on the state.
LEMMA FinalizeEffect ==
    ASSUME IInv, NEW o \in Pending, o = Current(o[1]), NEW m \in PendingMessage,
           m.CallbackFired = pend[o].CallbackFired, TryFinalizeMessage(o, m)
    PROVE  /\ \A q \in Pending : q # o => pend'[q] = pend[q]
           /\ SameFields(pend'[o], m)
           /\ \A p \in Proc : pc'[p] = pc[p] \/ (p = NextRetry(o) /\ pc[p] = "idle" /\ pc'[p] = "backoff")
           /\ pend[o].CallbackFired =>
                  pend'[o] = m /\ stats' = stats /\ \A p \in Proc : pc'[p] = pc[p]
           /\ ~pend[o].CallbackFired /\ FinalOutcome(o, m) = "none" =>
                  /\ SameOutcome(pend'[o], m) /\ pend'[o].grace = "armed"
                  /\ stats' = stats /\ \A p \in Proc : pc'[p] = pc[p]
           /\ ~pend[o].CallbackFired /\ FinalOutcome(o, m) # "none" =>
                  /\ pend'[o].CallbackFired /\ pend'[o].FinalOutcome = FinalOutcome(o, m)
                  /\ (pend'[o].grace # "off" => m.grace # "off")
                  /\ stats' = Counting(FinalOutcome(o, m))
                  /\ IF Retries(o, m)
                     THEN /\ pend'[o].finish = "no"
                          /\ NextRetry(o) \in Proc /\ pc'[NextRetry(o)] = "backoff"
                     ELSE pend'[o].finish = "pending" /\ \A p \in Proc : pc'[p] = pc[p]
<1>1. /\ pend' = [pend EXCEPT ![o] = Finalized(o, m)]
      /\ stats' = IF m.CallbackFired \/ FinalOutcome(o, m) = "none" THEN stats
                  ELSE Counting(FinalOutcome(o, m))
      /\ pc' = IF ~m.CallbackFired /\ Retries(o, m) THEN [pc EXCEPT ![NextRetry(o)] = "backoff"] ELSE pc
  BY DEF TryFinalizeMessage, NextRetry
<1>2. /\ pend'[o] = Finalized(o, m) /\ \A q \in Pending : q # o => pend'[q] = pend[q]
  BY <1>1, StateFacts
<1>3. ~m.CallbackFired /\ Retries(o, m) =>
          /\ NextRetry(o) \in Proc /\ pc[NextRetry(o)] = "idle" /\ pc'[NextRetry(o)] = "backoff"
          /\ \A p \in Proc : p # NextRetry(o) => pc'[p] = pc[p]
          /\ FinalOutcome(o, m) # "none"
  BY <1>1, RetryFacts, StateFacts DEF Retries, FinalOutcome
<1>4. ~(~m.CallbackFired /\ Retries(o, m)) => \A p \in Proc : pc'[p] = pc[p]
  BY <1>1
<1>5. /\ SameFields(pend'[o], m)
      /\ m.CallbackFired => pend'[o] = m
      /\ ~m.CallbackFired /\ FinalOutcome(o, m) = "none" =>
             SameOutcome(pend'[o], m) /\ pend'[o].grace = "armed"
      /\ ~m.CallbackFired /\ FinalOutcome(o, m) # "none" =>
             /\ pend'[o].CallbackFired /\ pend'[o].FinalOutcome = FinalOutcome(o, m)
             /\ pend'[o].finish = (IF Retries(o, m) THEN "no" ELSE "pending")
             /\ (pend'[o].grace # "off" => m.grace # "off")
  BY <1>2, FinalizedFields
<1>6. \A p \in Proc : pc'[p] = pc[p] \/ (p = NextRetry(o) /\ pc[p] = "idle" /\ pc'[p] = "backoff")
  BY <1>3, <1>4
<1>7. CASE m.CallbackFired
  BY <1>1, <1>2, <1>4, <1>5, <1>6, <1>7
<1>8. CASE ~m.CallbackFired /\ FinalOutcome(o, m) = "none"
  BY <1>1, <1>2, <1>3, <1>4, <1>5, <1>6, <1>8
<1>9. CASE ~m.CallbackFired /\ FinalOutcome(o, m) # "none"
  BY <1>1, <1>2, <1>3, <1>4, <1>5, <1>6, <1>9
<1>10. QED
  BY <1>7, <1>8, <1>9

\* What the confirm reader reads about a message, and the return reader.
Answered(m, ack) == [m EXCEPT !.Confirmed = @ \/ ack, !.Nacked = @ \/ ~ack]
Bounced(m) == [m EXCEPT !.Returned = TRUE]

LEMMA AnsweredFields ==
    ASSUME NEW m \in PendingMessage, NEW ack \in BOOLEAN
    PROVE  LET n == Answered(m, ack)
           IN  /\ n \in PendingMessage /\ n.gen = m.gen /\ n.tag = m.tag /\ n.grace = m.grace
               /\ n.inFlight = m.inFlight /\ n.orphanDeferred = m.orphanDeferred
               /\ n.Confirmed = (m.Confirmed \/ ack) /\ n.Nacked = (m.Nacked \/ ~ack)
               /\ n.Returned = m.Returned /\ SameOutcome(n, m)
<1>1. (m.Confirmed \/ ack) \in BOOLEAN /\ (m.Nacked \/ ~ack) \in BOOLEAN
  OBVIOUS
<1>2. QED
  BY <1>1 DEF Answered, PendingMessage, SameOutcome

LEMMA BouncedFields ==
    ASSUME NEW m \in PendingMessage
    PROVE  LET n == Bounced(m)
           IN  /\ n \in PendingMessage /\ n.gen = m.gen /\ n.tag = m.tag /\ n.grace = m.grace
               /\ n.inFlight = m.inFlight /\ n.orphanDeferred = m.orphanDeferred
               /\ n.Confirmed = m.Confirmed /\ n.Nacked = m.Nacked
               /\ n.Returned /\ SameOutcome(n, m)
BY DEF Bounced, PendingMessage, SameOutcome

LEMMA ConfirmationEffect ==
    ASSUME IInv, NEW g \in Gen, HandleConfirmation(g)
    PROVE  LET tag == gens[g].handled + 1
               ack == gens[g].verdicts[tag]
           IN  /\ tag \in 1 .. Len(gens[g].verdicts) /\ ack \in BOOLEAN
               /\ UNCHANGED <<byId, byTag, cur, attempt, callbacks, closed>>
               /\ \/ AtKey(<<g, tag>>) = {} /\ pend' = pend /\ stats' = stats /\ pc' = pc
                  \/ \E o \in AtKey(<<g, tag>>) :
                        /\ o \in Pending /\ o \in byTag /\ o = Current(o[1]) /\ pc[o[1]] \in Sent
                        /\ TryFinalizeMessage(o, Answered(pend[o], ack))
<1> DEFINE tag == gens[g].handled + 1
           ack == gens[g].verdicts[tag]
<1>1. tag \in 1 .. Len(gens[g].verdicts) /\ ack \in BOOLEAN
  <2>1. tag <= Len(gens[g].verdicts)
    BY DEF HandleConfirmation
  <2>2. gens[g].handled \in Nat /\ gens[g].verdicts \in Seq(BOOLEAN)
    BY GenerationFacts DEF IInv
  <2>3. QED
    BY <2>1, <2>2
<1>2. UNCHANGED <<byId, byTag, cur, attempt, callbacks, closed>>
  BY DEF HandleConfirmation, userVars, closeVars
<1>3. \A o \in AtKey(<<g, tag>>) :
          o \in Pending /\ o \in byTag /\ o = Current(o[1]) /\ pc[o[1]] \in Sent
  BY <1>1, ConfirmedWereSent, StateFacts DEF Sent
<1>4. \/ AtKey(<<g, tag>>) = {} /\ pend' = pend /\ stats' = stats /\ pc' = pc
      \/ \E o \in AtKey(<<g, tag>>) : TryFinalizeMessage(o, Answered(pend[o], ack))
  BY DEF HandleConfirmation, Answered
<1>5. QED
  BY <1>1, <1>2, <1>3, <1>4

LEMMA ReturnEffect ==
    ASSUME IInv, Index, NEW g \in Gen, HandleReturn(g)
    PROVE  /\ gens[g].returns # <<>>
           /\ UNCHANGED <<byId, byTag, cur, attempt, callbacks, closed>>
           /\ \A p \in Proc : pc'[p] = pc[p]
           /\ \/ pend' = pend /\ stats' = stats
              \/ \E o \in byTag :
                    /\ IdOfMsg(o) = Head(gens[g].returns) /\ byId[IdOfMsg(o)] = o
                    /\ o \in Pending /\ o = Current(o[1]) /\ pc[o[1]] \in Live
                    /\ ~pend[o].CallbackFired /\ ~pend[o].Nacked
                    /\ TryFinalizeMessage(o, Bounced(pend[o]))
<1>1. /\ gens[g].returns # <<>>
      /\ UNCHANGED <<byId, byTag, cur, attempt, callbacks, closed>>
  BY DEF HandleReturn, userVars, closeVars
<1>2. Head(gens[g].returns) \in MsgId
  BY <1>1, HeadTailProperties, GenerationFacts DEF IInv
<1> DEFINE o == byId[Head(gens[g].returns)]
<1>3. CASE UNCHANGED <<pend, stats, pc>>
  BY <1>1, <1>3
<1>4. CASE o # None /\ ~pend[o].CallbackFired /\ TryFinalizeMessage(o, Bounced(pend[o]))
  <2>1. o \in byTag /\ IdOfMsg(o) = Head(gens[g].returns)
    BY <1>2, <1>4 DEF Index
  <2>2. /\ o \in Pending /\ o = Current(o[1]) /\ pc[o[1]] \in Live /\ ~pend[o].Nacked
        /\ pend[o] \in PendingMessage
    BY <1>4, <2>1, StateFacts DEF IInv, EntriesCurrent, Live
  <2>3. pc' = pc
    BY <2>2, <1>4, BouncedFields DEF TryFinalizeMessage, Retries
  <2>4. QED
    BY <1>1, <1>4, <2>1, <2>2, <2>3
<1>5. QED
  BY <1>3, <1>4 DEF HandleReturn, Bounced

\* Positions, step by step
LEMMA PublishPositions ==
    ASSUME IInv, Positions, NEW p \in Proc,
           \/ PublishRejected(p) \/ PublishChannelClosed(p) \/ GiveUp(p) \/ NextAttempt(p)
           \/ RetryRepublish(p)
    PROVE  Positions'
<1>1. Quiet
  BY QuietPublishSteps
<1>2. /\ \A q \in Proc : q # p => pc'[q] = pc[q] /\ attempt'[q] = attempt[q]
      /\ \/ pc'[p] \in {"error", "delay"} /\ attempt'[p] = attempt[p]
         \/ pc[p] = "backoff" /\ attempt'[p] = attempt[p]
         \/ attempt'[p] = attempt[p] + 1
  BY StateFacts DEF PublishRejected, PublishChannelClosed, GiveUp, NextAttempt, RetryRepublish,
     Fail, ChannelError
<1>3. BornOnce
  BY <1>1, <1>2, BornFacts DEF Quiet, QuietMessages
<1>4. QED
  BY <1>1, <1>3, QuietPositions

LEMMA RefreshPositions ==
    ASSUME IInv, Positions, NEW r \in Refresher, RefreshStep(r)
    PROVE  Positions'
<1>1. /\ \A q \in Proc : q # r => pc'[q] = pc[q]
      /\ attempt' = attempt
      /\ r \in Proc => pc'[r] \notin {"idle", "backoff", "publish"} /\ pc[r] \notin Live
                       /\ pc'[r] \notin Live
  BY StateFacts DEF RefreshStep, RefreshSkip, RefreshLock, RefreshOpen, RefreshFails,
     RefreshInstall, RefreshCloseOld, AfterRefresh, Live
<1>2. pend' = pend
  BY DEF RefreshStep, RefreshSkip, RefreshLock, RefreshOpen, RefreshFails, RefreshInstall,
     RefreshCloseOld, msgVars
<1>3. BornOnce
  BY <1>1, <1>2, BornFacts
<1>4. CASE RefreshInstall(r) /\ Installable(r)
  <2>1. LiveStay
    BY <1>1, <1>2 DEF LiveStay, Mine, Live, Sent
  <2>2. /\ cur' = cur + 1
        /\ gens' = [gens EXCEPT ![cur + 1] = InstalledGeneration(fresh = "open")]
    BY <1>4 DEF RefreshInstall
  <2>3. \A g \in Gen : /\ g # cur + 1 => gens'[g] = gens[g]
                       /\ g = cur + 1 => gens'[g].sent = <<>>
    BY <2>2, GenerationFacts, InstalledGenerationType DEF IInv
  <2>4. \A g \in 1 .. cur : g \in Gen /\ g # cur + 1
    BY GenerationFacts DEF IInv
  <2>5. QED
    BY <1>3, <2>1, <2>2, <2>3, <2>4, StayPositions
<1>5. CASE ~(RefreshInstall(r) /\ Installable(r))
  <2>1. Quiet
    BY <1>5, QuietRefreshSteps DEF RefreshStep
  <2>2. QED
    BY <1>3, <2>1, QuietPositions
<1>6. QED
  BY <1>4, <1>5

LEMMA ReaderPositions ==
    ASSUME IInv, Positions, Index, NEW g \in Gen, ReaderStep(g) \/ BrokerStep(g)
    PROVE  Positions'
<1>1. Quiet
  BY QuietReaderSteps
<1>2. attempt' = attempt /\ \A p \in Proc : pc'[p] = pc[p] \/ pc[p] = "idle"
  <2>1. CASE HandleConfirmation(g)
    <3>1. PICK ack \in BOOLEAN :
             \/ pc' = pc
             \/ \E o \in Pending : /\ o = Current(o[1])
                                   /\ TryFinalizeMessage(o, Answered(pend[o], ack))
      BY <2>1, ConfirmationEffect
    <3>2. ASSUME NEW o \in Pending, o = Current(o[1]), TryFinalizeMessage(o, Answered(pend[o], ack))
          PROVE  \A p \in Proc : pc'[p] = pc[p] \/ pc[p] = "idle"
      <4>1. pend[o] \in PendingMessage
        BY StateFacts
      <4>2. /\ Answered(pend[o], ack) \in PendingMessage
            /\ Answered(pend[o], ack).CallbackFired = pend[o].CallbackFired
        BY <4>1, AnsweredFields DEF SameOutcome
      <4>3. QED
        BY <3>2, <4>2, FinalizeEffect
    <3>3. QED
      BY <2>1, <3>1, <3>2, ConfirmationEffect
  <2>2. CASE HandleReturn(g)
    BY <2>2, ReturnEffect
  <2>3. CASE ~HandleConfirmation(g) /\ ~HandleReturn(g)
    <3>1. pc' = pc /\ attempt' = attempt
      BY <2>3 DEF ReaderStep, BrokerStep, ReturnReaderExits, ConfirmReaderStops, MarkDead,
         CollectOrphans, SettleOrphan, ChannelDies, BrokerReturns, BrokerConfirms, procVars
    <3>2. QED
      BY <3>1
  <2>4. QED
    BY <2>1, <2>2, <2>3
<1>3. BornOnce
  BY <1>1, <1>2, BornFacts DEF Quiet, QuietMessages
<1>4. QED
  BY <1>1, <1>3, QuietPositions

LEMMA OtherPositions ==
    ASSUME IInv, Positions,
           \/ \E o \in Pending : MessageStep(o)
           \/ KeeperWakes \/ CloseBegin \/ CloseConfirmChannel \/ CloseReturns
           \/ FreshChannelDies \/ (\E c \in Call : ContextEnds(c)) \/ UNCHANGED vars
    PROVE  Positions'
<1>1. Quiet
  BY QuietMessageSteps, QuietOtherSteps
<1>2. attempt' = attempt /\ \A p \in Proc : pc'[p] = pc[p]
  BY StateFacts DEF MessageStep, Expire, HandleTimeout, HandleGraceExpired, Finish, KeeperWakes,
     CloseBegin, CloseConfirmChannel, CloseReturns, FreshChannelDies, ContextEnds, vars, procVars
<1>3. BornOnce
  BY <1>1, <1>2, BornFacts DEF Quiet, QuietMessages
<1>4. QED
  BY <1>1, <1>3, QuietPositions

LEMMA EnterPositions ==
    ASSUME IInv, Positions, NEW p \in Proc,
           PublishEnter(p) \/ RegisterRefused(p) \/ SendFails(p)
    PROVE  Positions'
<1>1. /\ \A q \in Proc : q # p => pc'[q] = pc[q]
      /\ attempt' = attempt /\ cur' = cur /\ gens' = gens
      /\ \A o \in Pending : o # Current(p) => pend'[o] = pend[o]
      /\ pc'[p] \in {"entered", "delay", "error"} /\ pc[p] \notin Sent
  BY StateFacts DEF PublishEnter, RegisterRefused, SendFails, ChannelError, Fail, chanVars, Sent
<1>2. \A q \in Proc : Current(q) \in Pending /\ (q # p => Current(q) # Current(p))
  BY CurrentType, StateFacts DEF Current
<1>3. LiveStay
  BY <1>1, <1>2 DEF LiveStay, Live, Sent, Mine
<1>4. BornOnce
  <2> SUFFICES ASSUME NEW o \in Pending, Unborn(o)'
               PROVE  Unborn(o) /\ pend'[o].gen = pend[o].gen
    BY DEF BornOnce
  <2>1. o[1] \in Proc /\ attempt[o[1]] \in Nat
    BY StateFacts, ConstantsOK DEF Attempt
  <2>2. o # Current(p)
    BY <1>1, <2>1 DEF Unborn, Current
  <2>3. QED
    BY <1>1, <2>1, <2>2 DEF Unborn
<1>5. \A g \in 1 .. cur : g \in Gen
  BY GenerationFacts DEF IInv
<1>6. QED
  BY <1>1, <1>3, <1>4, <1>5, StayPositions

LEMMA RegisterPositions ==
    ASSUME IInv, Positions, NEW p \in Proc, Register(p)
    PROVE  Positions'
<1>1. /\ pc[p] = "entered" /\ pc'[p] = "sending" /\ \A q \in Proc : q # p => pc'[q] = pc[q]
      /\ UNCHANGED <<attempt, cur, gens, pend>>
  BY StateFacts DEF Register, chanVars
<1>2. \A q \in Proc : Current(q)' = Current(q) /\ Mine(q)' = Mine(q) /\ GenOf(q)' = GenOf(q)
                      /\ KeyOf(Current(q))' = KeyOf(Current(q))
  BY <1>1 DEF Current, Mine, GenOf, KeyOf
<1>3. Fresh'
  <2>1. \A o \in Pending : Unborn(o)' => Unborn(o)
    BY <1>1, StateFacts DEF Unborn
  <2>2. QED
    BY <1>1, <2>1 DEF Positions, Fresh
<1>4. TagUsed' /\ SentMatch'
  BY <1>1, <1>2 DEF Positions, TagUsed, SentMatch, Sent
<1>5. KeysUnique'
  <2>1. Mine(p).gen = cur /\ Mine(p).tag = gens[cur].published + 1
    BY <1>1 DEF IInv, HolderTagged, InPublishMu, Mine
  <2>2. ASSUME NEW q \in Proc, q # p, pc[q] \in Live PROVE KeyOf(Current(q)) # KeyOf(Current(p))
    <3>1. pc[q] = "nil"
      BY <1>1, <2>2, HolderFacts DEF Live, InPublishMu
    <3>2. Mine(q).tag \in Nat /\ Mine(q).tag <= gens[Mine(q).gen].published
      BY <2>2, <3>1, LiveFacts DEF Positions
    <3>3. gens[cur].published \in Nat
      BY CountFacts, StateFacts
    <3>4. QED
      BY <2>1, <3>2, <3>3 DEF KeyOf, Mine
  <2>3. QED
    BY <1>1, <1>2, <2>2 DEF Positions, KeysUnique, Live
<1>6. SentBy'
  <2> SUFFICES ASSUME NEW g \in Gen, NEW t \in 1 .. Len(gens[g].sent)
               PROVE  \E q \in Proc : q[1] = gens[g].sent[t] /\ pc'[q] \in Sent
                                      /\ KeyOf(Current(q))' = <<g, t>>
    BY <1>1 DEF SentBy
  <2>1. PICK q \in Proc : q[1] = gens[g].sent[t] /\ pc[q] \in Sent /\ KeyOf(Current(q)) = <<g, t>>
    BY DEF Positions, SentBy
  <2>2. q # p
    BY <1>1, <2>1 DEF Sent
  <2>3. QED
    BY <1>1, <1>2, <2>1, <2>2
<1>7. QED
  BY <1>3, <1>4, <1>5, <1>6 DEF Positions

LEMMA ReachPositions ==
    ASSUME IInv, Positions, NEW p \in Proc, SendReachesBroker(p)
    PROVE  Positions'
<1>1. /\ pc[p] = "sending" /\ pc'[p] = "sent" /\ \A q \in Proc : q # p => pc'[q] = pc[q]
      /\ gens[cur].open /\ gens' = [gens EXCEPT ![cur].sent = Append(@, p[1])]
      /\ UNCHANGED <<attempt, cur, pend>>
  BY StateFacts DEF SendReachesBroker, msgVars
<1>2. \A q \in Proc : Current(q)' = Current(q) /\ Mine(q)' = Mine(q)
                      /\ KeyOf(Current(q))' = KeyOf(Current(q))
  BY <1>1 DEF Current, Mine, KeyOf
<1>3. /\ \A g \in Gen : gens'[g].published = gens[g].published
      /\ \A g \in Gen : g # cur => gens'[g].sent = gens[g].sent
      /\ gens'[cur].sent = Append(gens[cur].sent, p[1])
      /\ cur \in Gen
  BY <1>1, StateFacts DEF Generation
<1>4. /\ Len(gens'[cur].sent) = Len(gens[cur].sent) + 1 /\ Len(gens[cur].sent) \in Nat
      /\ \A i \in 1 .. Len(gens[cur].sent) : gens'[cur].sent[i] = gens[cur].sent[i]
      /\ gens'[cur].sent[Len(gens[cur].sent) + 1] = p[1]
  <2>1. p[1] \in Call
    BY DEF Proc
  <2>2. QED
    BY <1>3, <2>1, AppendProperties, CountFacts
<1>5. Len(gens[cur].sent) = gens[cur].published
  <2>1. ~Ahead(cur)
    BY <1>1, HolderFacts DEF InPublishMu
  <2>2. QED
    BY <1>1, <1>3, <2>1, CountFacts DEF IInv, CountsAgree
<1>6. Mine(p).gen = cur /\ Mine(p).tag = gens[cur].published + 1
  BY <1>1 DEF IInv, HolderTagged, InPublishMu, Mine
<1>7. \A q \in Proc : pc[q] \in Sent => /\ q # p /\ Mine(q).gen \in Gen /\ Mine(q).tag \in Nat
                                        /\ Mine(q).tag >= 1
                                        /\ Mine(q).tag <= gens[Mine(q).gen].published
  <2> SUFFICES ASSUME NEW q \in Proc, pc[q] \in Sent
               PROVE  /\ q # p /\ Mine(q).gen \in Gen /\ Mine(q).tag \in Nat
                      /\ Mine(q).tag >= 1
                      /\ Mine(q).tag <= gens[Mine(q).gen].published
    OBVIOUS
  <2>1. pc[q] = "nil"
    BY <1>1, HolderFacts DEF Sent, InPublishMu
  <2>2. QED
    BY <1>1, <2>1, LiveFacts DEF Positions, Live
<1>8. Fresh'
  <2>1. \A o \in Pending : Unborn(o)' => Unborn(o)
    BY <1>1, StateFacts DEF Unborn
  <2>2. QED
    BY <1>1, <2>1 DEF Positions, Fresh
<1>9. TagUsed'
  <2> SUFFICES ASSUME NEW q \in Proc, pc'[q] = "nil"
               PROVE  /\ Mine(q).gen \in 1 .. cur
                      /\ Mine(q).tag \in 1 .. gens'[Mine(q).gen].published
    BY <1>1, <1>2 DEF TagUsed, GenOf
  <2>1. pc[q] = "nil"
    BY <1>1
  <2>2. QED
    BY <1>3, <1>7, <2>1 DEF Positions, TagUsed, GenOf, Sent
<1>10. KeysUnique'
  BY <1>1, <1>2 DEF Positions, KeysUnique, Live
<1>11. SentMatch'
  <2> SUFFICES ASSUME NEW q \in Proc
               PROVE  /\ pc'[q] = "sent" => Mine(q).tag <= Len(gens'[Mine(q).gen].sent)
                      /\ pc'[q] \in Sent /\ Mine(q).tag <= Len(gens'[Mine(q).gen].sent) =>
                             gens'[Mine(q).gen].sent[Mine(q).tag] = q[1]
    BY <1>2 DEF SentMatch, GenOf
  <2>1. CASE q = p
    BY <1>4, <1>5, <1>6, <2>1
  <2>2. CASE q # p
    <3>1. CASE Mine(q).gen = cur
      BY <1>1, <1>4, <1>5, <1>7, <2>2, <3>1, HolderFacts
      DEF Positions, SentMatch, GenOf, Sent, InPublishMu
    <3>2. CASE Mine(q).gen # cur
      BY <1>1, <1>3, <1>7, <2>2, <3>2 DEF Positions, SentMatch, GenOf, Sent
    <3>3. QED
      BY <3>1, <3>2
  <2>3. QED
    BY <2>1, <2>2
<1>12. SentBy'
  <2> SUFFICES ASSUME NEW g \in Gen, NEW t \in 1 .. Len(gens'[g].sent)
               PROVE  \E q \in Proc : q[1] = gens'[g].sent[t] /\ pc'[q] \in Sent
                                      /\ KeyOf(Current(q)) = <<g, t>>
    BY <1>2 DEF SentBy
  <2>1. CASE g = cur /\ t = Len(gens[cur].sent) + 1
    <3>1. KeyOf(Current(p)) = <<g, t>>
      BY <1>5, <1>6, <2>1 DEF KeyOf, Mine
    <3>2. QED
      BY <1>1, <1>4, <2>1, <3>1 DEF Sent
  <2>2. CASE ~(g = cur /\ t = Len(gens[cur].sent) + 1)
    <3>1. t \in 1 .. Len(gens[g].sent) /\ gens'[g].sent[t] = gens[g].sent[t]
      <4>1. CASE g = cur
        BY <1>4, <2>2, <4>1
      <4>2. CASE g # cur
        BY <1>3, <4>2
      <4>3. QED
        BY <4>1, <4>2
    <3>2. PICK q \in Proc : q[1] = gens[g].sent[t] /\ pc[q] \in Sent /\ KeyOf(Current(q)) = <<g, t>>
      BY <3>1 DEF Positions, SentBy
    <3>3. pc'[q] \in Sent
      BY <1>1, <3>2 DEF Sent
    <3>4. QED
      BY <3>1, <3>2, <3>3
  <2>3. QED
    BY <2>1, <2>2
<1>13. QED
  BY <1>8, <1>9, <1>10, <1>11, <1>12 DEF Positions

LEMMA SucceedEffect ==
    ASSUME IInv, NEW p \in Proc, SendSucceeds(p)
    PROVE  LET o == Current(p)
               n == pend'[o]
               decided == n.CallbackFired /\ n.finish = "pending" /\ Undecided(pend[o])
           IN  /\ o \in Pending /\ \A q \in Pending : q # o => pend'[q] = pend[q]
               /\ pc[p] \in {"sending", "sent"} /\ pc'[p] = "nil" /\ \A q \in Proc : q # p => pc'[q] = pc[q]
               /\ UNCHANGED <<byId, byTag, cur, attempt, callbacks, closed>>
               /\ n.gen = pend[o].gen /\ n.tag = pend[o].tag /\ ~n.inFlight
               /\ n.orphanDeferred = pend[o].orphanDeferred /\ n.Confirmed = pend[o].Confirmed
               /\ n.Nacked = pend[o].Nacked /\ n.Returned = pend[o].Returned
               /\ (n.grace # "off" => pend[o].grace # "off")
               /\ \/ /\ SameOutcome(n, pend[o]) /\ n.grace = pend[o].grace /\ stats' = stats
                     /\ ~(pend[o].orphanDeferred /\ Undecided(pend[o]))
                  \/ /\ decided /\ n.FinalOutcome = "orphaned" /\ pend[o].orphanDeferred
                     /\ stats' = Counting("orphaned")
                  \/ /\ decided /\ n.FinalOutcome = "timedOut" /\ o \in byTag
                     /\ stats' = Counting("timedOut")
<1> DEFINE o == Current(p)
           m == [pend[o] EXCEPT !.inFlight = FALSE]
<1>1. o \in Pending /\ pend[o] \in PendingMessage
  BY StateFacts, CurrentType
<1>2. /\ m \in PendingMessage /\ m.gen = pend[o].gen /\ m.tag = pend[o].tag /\ ~m.inFlight
      /\ m.orphanDeferred = pend[o].orphanDeferred /\ m.Confirmed = pend[o].Confirmed
      /\ m.Nacked = pend[o].Nacked /\ m.Returned = pend[o].Returned
      /\ m.grace = pend[o].grace /\ SameOutcome(m, pend[o])
      /\ m.timeoutDeferred = pend[o].timeoutDeferred
  BY <1>1 DEF PendingMessage, SameOutcome
<1>3. Undecided(m) <=> Undecided(pend[o])
  BY <1>2 DEF Undecided, SameOutcome
<1>4. /\ pc[p] \in {"sending", "sent"} /\ pc' = [pc EXCEPT ![p] = "nil"]
      /\ UNCHANGED <<byId, byTag, cur, attempt, callbacks, closed>>
      /\ pend' = [pend EXCEPT ![o] = pend'[o]]
      /\ \/ /\ m.orphanDeferred /\ Undecided(m)
            /\ pend'[o] = Claim(m, "orphaned") /\ stats' = Counting("orphaned")
         \/ /\ ~m.orphanDeferred /\ Undecided(m) /\ o \in byTag
            /\ pend'[o] = Claim(m, "timedOut") /\ stats' = Counting("timedOut")
         \/ ~(m.orphanDeferred /\ Undecided(m)) /\ pend'[o] = m /\ stats' = stats
  <2>1. /\ pend' = [pend EXCEPT ![o] =
                      IF m.orphanDeferred /\ Undecided(m) THEN Claim(m, "orphaned")
                      ELSE IF ~m.orphanDeferred /\ m.timeoutDeferred /\ Undecided(m) /\ o \in byTag
                           THEN Claim(m, "timedOut") ELSE m]
        /\ stats' = IF m.orphanDeferred /\ Undecided(m) THEN Counting("orphaned")
                    ELSE IF ~m.orphanDeferred /\ m.timeoutDeferred /\ Undecided(m) /\ o \in byTag
                         THEN Counting("timedOut") ELSE stats
        /\ pc[p] \in {"sending", "sent"} /\ pc' = [pc EXCEPT ![p] = "nil"]
        /\ UNCHANGED <<byId, byTag, cur, attempt, callbacks, closed>>
    BY DEF SendSucceeds, userVars, closeVars
  <2> HIDE DEF m, o
  <2>2. QED
    BY <1>1, <2>1, StateFacts
<1> HIDE DEF m
<1>5. /\ \A q \in Pending : q # o => pend'[q] = pend[q]
      /\ pc'[p] = "nil" /\ \A q \in Proc : q # p => pc'[q] = pc[q]
  BY <1>1, <1>4, StateFacts
<1>6. "orphaned" \in Outcome /\ "timedOut" \in Outcome
  BY DEF Outcome, Counted
<1>7. CASE pend'[o] = m /\ stats' = stats /\ ~(m.orphanDeferred /\ Undecided(m))
  BY <1>1, <1>2, <1>3, <1>4, <1>5, <1>7
<1>8. CASE /\ m.orphanDeferred /\ Undecided(m)
           /\ pend'[o] = Claim(m, "orphaned") /\ stats' = Counting("orphaned")
  <2>1. /\ SameFields(pend'[o], m) /\ pend'[o].CallbackFired /\ pend'[o].FinalOutcome = "orphaned"
        /\ pend'[o].finish = "pending" /\ (pend'[o].grace # "off" => m.grace # "off")
    BY <1>2, <1>6, <1>8, ClaimFields
  <2>2. QED
    BY <1>1, <1>2, <1>3, <1>4, <1>5, <1>8, <2>1 DEF SameFields
<1>9. CASE /\ Undecided(m) /\ o \in byTag
           /\ pend'[o] = Claim(m, "timedOut") /\ stats' = Counting("timedOut")
  <2>1. /\ SameFields(pend'[o], m) /\ pend'[o].CallbackFired /\ pend'[o].FinalOutcome = "timedOut"
        /\ pend'[o].finish = "pending" /\ (pend'[o].grace # "off" => m.grace # "off")
    BY <1>2, <1>6, <1>9, ClaimFields
  <2>2. QED
    BY <1>1, <1>2, <1>3, <1>4, <1>5, <1>9, <2>1 DEF SameFields
<1>10. QED
  BY <1>4, <1>7, <1>8, <1>9

LEMMA SucceedPositions ==
    ASSUME IInv, Positions, NEW p \in Proc, SendSucceeds(p)
    PROVE  Positions'
<1>1. /\ Current(p) \in Pending /\ pc[p] \in {"sending", "sent"} /\ pc'[p] = "nil"
      /\ \A q \in Proc : q # p => pc'[q] = pc[q]
      /\ \A o \in Pending : o # Current(p) => pend'[o] = pend[o]
      /\ pend'[Current(p)].gen = pend[Current(p)].gen /\ pend'[Current(p)].tag = pend[Current(p)].tag
      /\ cur' = cur /\ attempt' = attempt
  BY SucceedEffect
<1>2. /\ gens'[cur].published = gens[cur].published + 1
      /\ \A g \in Gen : g # cur => gens'[g].published = gens[g].published
      /\ \A g \in Gen : gens'[g].sent = gens[g].sent
  BY StateFacts DEF SendSucceeds, Generation
<1>3. \A q \in Proc : /\ Current(q)' = Current(q) /\ Current(q) \in Pending
                      /\ Mine(q)'.gen = Mine(q).gen /\ Mine(q)'.tag = Mine(q).tag
                      /\ KeyOf(Current(q))' = KeyOf(Current(q))
  BY <1>1, CurrentType, StateFacts DEF Current, Mine, KeyOf
<1>4. Fresh'
  <2>1. \A o \in Pending : (Unborn(o)' => Unborn(o)) /\ pend'[o].gen = pend[o].gen
    BY <1>1, StateFacts DEF Unborn
  <2>2. QED
    BY <2>1 DEF Positions, Fresh
<1>5. Mine(p).gen = cur /\ Mine(p).tag = gens[cur].published + 1 /\ gens[cur].published \in Nat
  BY <1>1, CountFacts, StateFacts DEF IInv, HolderTagged, InPublishMu, Mine
<1>6. TagUsed'
  <2> SUFFICES ASSUME NEW q \in Proc, pc'[q] = "nil"
               PROVE  /\ Mine(q).gen \in 1 .. cur
                      /\ Mine(q).tag \in 1 .. gens'[Mine(q).gen].published
    BY <1>1, <1>3 DEF TagUsed, GenOf
  <2>1. CASE q = p
    BY <1>2, <1>5, <2>1, StateFacts, ConstantsOK DEF Gen
  <2>2. CASE q # p
    <3>1. Mine(q).gen \in Gen /\ Mine(q).gen \in 1 .. cur /\ Mine(q).tag \in 1 .. gens[Mine(q).gen].published
      BY <1>1, <2>2, LiveFacts DEF Positions, TagUsed, GenOf, Live
    <3>2. QED
      BY <1>2, <1>5, <3>1
  <2>3. QED
    BY <2>1, <2>2
<1>7. KeysUnique'
  BY <1>1, <1>3 DEF Positions, KeysUnique, Live
<1>8. SentMatch'
  <2> SUFFICES ASSUME NEW q \in Proc
               PROVE  /\ pc'[q] = "sent" => Mine(q).tag <= Len(gens'[Mine(q).gen].sent)
                      /\ pc'[q] \in Sent /\ Mine(q).tag <= Len(gens'[Mine(q).gen].sent) =>
                             gens'[Mine(q).gen].sent[Mine(q).tag] = q[1]
    BY <1>3 DEF SentMatch, GenOf
  <2>1. CASE q # p
    <3>1. CASE pc[q] \in Sent
      <4>1. Mine(q).gen \in Gen
        BY <3>1, LiveFacts DEF Positions, Live, Sent
      <4>2. QED
        BY <1>1, <1>2, <2>1, <4>1 DEF Positions, SentMatch, GenOf
    <3>2. CASE pc[q] \notin Sent
      BY <1>1, <2>1, <3>2 DEF Sent
    <3>3. QED
      BY <3>1, <3>2
  <2>2. CASE q = p /\ pc[p] = "sent"
    BY <1>1, <1>2, <1>5, <2>2, StateFacts DEF Positions, SentMatch, GenOf, Sent
  <2>3. CASE q = p /\ pc[p] = "sending"
    <3>1. ~Ahead(cur) /\ cur \in Gen
      BY <2>3, HolderFacts, StateFacts DEF InPublishMu
    <3>2. Len(gens[cur].sent) <= gens[cur].published /\ Len(gens[cur].sent) \in Nat
      BY <3>1, CountFacts DEF IInv, CountsAgree
    <3>3. QED
      BY <1>1, <1>2, <1>5, <2>3, <3>1, <3>2
  <2>4. QED
    BY <1>1, <2>1, <2>2, <2>3
<1>9. SentBy'
  <2> SUFFICES ASSUME NEW g \in Gen, NEW t \in 1 .. Len(gens[g].sent)
               PROVE  \E q \in Proc : q[1] = gens[g].sent[t] /\ pc'[q] \in Sent
                                      /\ KeyOf(Current(q))' = <<g, t>>
    BY <1>2 DEF SentBy
  <2>1. PICK q \in Proc : q[1] = gens[g].sent[t] /\ pc[q] \in Sent /\ KeyOf(Current(q)) = <<g, t>>
    BY DEF Positions, SentBy
  <2>2. pc'[q] \in Sent
    BY <1>1, <2>1 DEF Sent
  <2>3. QED
    BY <1>3, <2>1, <2>2
<1>10. QED
  BY <1>4, <1>6, <1>7, <1>8, <1>9 DEF Positions

-------------------------------------------------------------------------------
\* What a step keeps of a message it does not touch

Busy == Live \cup {"entered"}

\* Its process has not moved, or holds nothing, or is at a later attempt.
Placed(o) == \/ pc'[o[1]] = pc[o[1]] /\ attempt'[o[1]] = attempt[o[1]]
             \/ pc[o[1]] \notin Busy /\ pc'[o[1]] \notin Busy
             \/ o # Current(o[1]) /\ attempt'[o[1]] = attempt[o[1]]

\* The message is as it was, but for its timers; its process is where it was; and what
\* the indexes have of it stays.
Frame(o) ==
    /\ SameFields(pend'[o], pend[o]) /\ SameOutcome(pend'[o], pend[o])
    /\ pend'[o].grace # "off" => pend[o].grace # "off"
    /\ ~pend[o].CallbackFired /\ pend[o].grace # "off" =>
           pend'[o].grace # "off" \/ closed' = "yes"
    /\ closed = "yes" => closed' = "yes"
    /\ Placed(o)
    /\ o \in byTag' => o \in byTag
    /\ Unsettled(o) /\ o \in byTag /\ byId[IdOfMsg(o)] = o => o \in byTag' /\ byId'[IdOfMsg(o)] = o

\* Its generation only grows, and the answer it waits for is not handled.
Unanswered(o) ==
    LET g == pend[o].gen
    IN  g \in 1 .. cur =>
            /\ Grows(g) /\ gens'[g].handled \in {gens[g].handled, gens[g].handled + 1}
            /\ cur' \in {cur, cur + 1}
            /\ (o = Current(o[1]) /\ pc[o[1]] \in Sent /\ ~pend[o].CallbackFired
                  /\ pend[o].tag <= gens'[g].handled) => pend[o].tag <= gens[g].handled

Unswept(o) ==
    LET g == pend[o].gen
    IN  g \in 1 .. cur =>
            /\ gens'[g].confirmReader = "done" /\ closed' = "no" =>
                   gens[g].confirmReader = "done" /\ closed = "no"
            /\ o \in gens[g].orphans => o \in gens'[g].orphans

\* The message's place: current and live, or none of it.
LEMMA PlaceFacts ==
    ASSUME IInv, NEW o \in Pending, Frame(o)
    PROVE  /\ o = Current(o[1])' /\ pc'[o[1]] \in Busy <=> o = Current(o[1]) /\ pc[o[1]] \in Busy
           /\ o = Current(o[1]) /\ pc[o[1]] \in Busy => pc'[o[1]] = pc[o[1]]
           /\ o \in byTag => o = Current(o[1]) /\ pc[o[1]] \in Live
           /\ o \in byTag' => o \in byTag /\ pc'[o[1]] = pc[o[1]]
           /\ o[1] \in Proc
<1>1. o \in byTag => o = Current(o[1]) /\ pc[o[1]] \in Live
  BY DEF IInv, EntriesCurrent, Live
<1>2. Current(o[1])' = <<o[1], attempt'[o[1]]>> /\ Current(o[1]) = <<o[1], attempt[o[1]]>>
  BY DEF Current
<1>3. QED
  BY <1>1, <1>2, StateFacts DEF Frame, Placed, Busy

LEMMA FrameKeeps ==
    ASSUME IInv, Positions, Generations, NEW o \in Pending, MessageInv(o), Frame(o), Unanswered(o)
    PROVE  MessageSound(o)' /\ Truth(o)' /\ Stored(o)' /\ Graced(o)' /\ Deferred(o)'
<1> DEFINE m == pend[o]
           n == pend'[o]
           isSent == o = Current(o[1]) /\ pc[o[1]] \in Sent
           isSentNext == o = Current(o[1])' /\ pc'[o[1]] \in Sent
<1>1. SameFields(n, m) /\ SameOutcome(n, m) /\ pend[o] \in PendingMessage
  BY StateFacts DEF Frame
<1>2. /\ isSentNext <=> isSent
      /\ (o = Current(o[1])' /\ pc'[o[1]] \in {"entered", "sending"})
            <=> (o = Current(o[1]) /\ pc[o[1]] \in {"entered", "sending"})
      /\ (o = Current(o[1])' /\ pc'[o[1]] \in Live) <=> (o = Current(o[1]) /\ pc[o[1]] \in Live)
  BY PlaceFacts DEF Busy, Live, Sent
<1>3. MessageSound(o)'
  <2>1. MessageSound(o)
    BY DEF MessageInv
  <2>2. o \in byTag' => o \in byTag /\ pc'[o[1]] = pc[o[1]]
    BY PlaceFacts
  <2>3. QED
    BY <1>1, <1>2, <2>1, <2>2 DEF MessageSound, SameFields, SameOutcome
<1>4. Truth(o)'
  <2>1. MessageSound(o) /\ Truth(o)
    BY DEF MessageInv
  <2>2. CASE isSent
    <3>1. m.gen \in 1 .. cur /\ m.gen \in Gen /\ m.tag \in Nat /\ m.tag >= 1
      BY <2>2, StateFacts, LiveFacts DEF Positions, Sent, Live, Mine
    <3>2. /\ Grows(m.gen) /\ gens'[m.gen].handled \in {gens[m.gen].handled, gens[m.gen].handled + 1}
          /\ cur' \in {cur, cur + 1}
          /\ ~m.CallbackFired /\ m.tag <= gens'[m.gen].handled => m.tag <= gens[m.gen].handled
      BY <2>2, <3>1 DEF Unanswered
    <3>3. gens[m.gen].handled <= Len(gens[m.gen].verdicts) /\ gens[m.gen].handled \in Nat
          /\ Len(gens[m.gen].verdicts) \in Nat
      BY <3>1, GenerationFacts DEF Generations, SoundGeneration, IInv
    <3>4. m.tag <= gens[m.gen].handled =>
              /\ m.tag <= gens'[m.gen].handled
              /\ gens'[m.gen].verdicts[m.tag] = gens[m.gen].verdicts[m.tag]
      <4>1. ASSUME m.tag <= gens[m.gen].handled PROVE m.tag \in 1 .. Len(gens[m.gen].verdicts)
        BY <3>1, <3>3, <4>1
      <4>2. \A t \in 1 .. Len(gens[m.gen].verdicts) :
                gens'[m.gen].verdicts[t] = gens[m.gen].verdicts[t]
        BY <3>2 DEF Grows
      <4>3. m.tag <= gens[m.gen].handled => m.tag <= gens'[m.gen].handled
        BY <3>1, <3>2, <3>3
      <4>4. QED
        BY <4>1, <4>2, <4>3
    <3>5. /\ gens[m.gen].dead => gens'[m.gen].dead /\ Len(gens'[m.gen].verdicts) = Len(gens[m.gen].verdicts)
          /\ m.tag \in gens[m.gen].bounced => m.tag \in gens'[m.gen].bounced
          /\ m.gen \in 1 .. cur'
      BY <3>1, <3>2, StateFacts DEF Grows
    <3> HIDE DEF m, n
    <3>6. n.gen = m.gen /\ n.tag = m.tag /\ (n.grace # "off" => m.grace # "off")
      BY <1>1 DEF Frame, SameFields, m, n
    <3>7. Truth(o)'
      <4>1. /\ m.Confirmed => m.tag <= gens[m.gen].handled /\ gens[m.gen].verdicts[m.tag]
            /\ m.Nacked => m.tag <= gens[m.gen].handled /\ ~gens[m.gen].verdicts[m.tag]
            /\ m.Returned => m.tag \in gens[m.gen].bounced
            /\ m.FinalOutcome = "confirmed" => m.Confirmed
            /\ m.FinalOutcome = "nacked" => m.Nacked
            /\ m.FinalOutcome = "returned" => m.Returned
            /\ m.FinalOutcome = "orphaned" => gens[m.gen].dead /\ m.tag > Len(gens[m.gen].verdicts)
            /\ m.orphanDeferred => m.gen \in 1 .. cur /\ gens[m.gen].dead
            /\ m.grace # "off" => m.Confirmed
            /\ ~m.CallbackFired /\ m.tag <= gens[m.gen].handled => m.Confirmed
        BY <2>1, <2>2 DEF Truth, m
      <4>2. /\ n.Confirmed = m.Confirmed /\ n.Nacked = m.Nacked /\ n.Returned = m.Returned
            /\ n.FinalOutcome = m.FinalOutcome /\ n.orphanDeferred = m.orphanDeferred
            /\ n.CallbackFired = m.CallbackFired
        BY <1>1 DEF SameFields, SameOutcome, m, n
      <4>3. /\ n.Confirmed => n.tag <= gens'[n.gen].handled /\ gens'[n.gen].verdicts[n.tag]
            /\ n.Nacked => n.tag <= gens'[n.gen].handled /\ ~gens'[n.gen].verdicts[n.tag]
            /\ n.Returned => n.tag \in gens'[n.gen].bounced
            /\ n.FinalOutcome = "orphaned" => gens'[n.gen].dead /\ n.tag > Len(gens'[n.gen].verdicts)
            /\ n.orphanDeferred => n.gen \in 1 .. cur' /\ gens'[n.gen].dead
            /\ n.grace # "off" => n.Confirmed
            /\ ~n.CallbackFired /\ n.tag <= gens'[n.gen].handled => n.Confirmed
        BY <3>2, <3>4, <3>5, <3>6, <4>1, <4>2
      <4>4. QED
        BY <4>1, <4>2, <4>3 DEF Truth, n
    <3>8. QED
      BY <3>7
  <2>3. CASE ~isSent
    <3>1. /\ ~n.Confirmed /\ ~n.Nacked /\ ~n.Returned /\ n.FinalOutcome = "none"
          /\ n.grace = "off" /\ ~isSentNext
      BY <1>1, <1>2, <2>1, <2>3 DEF MessageSound, Truth, SameFields, SameOutcome, Frame
    <3>2. n.orphanDeferred => n.gen \in 1 .. cur' /\ gens'[n.gen].dead
      BY <1>1, <2>1, StateFacts DEF Truth, Unanswered, Grows, SameFields
    <3>3. QED
      BY <3>1, <3>2 DEF Truth
  <2>4. QED
    BY <2>2, <2>3
<1>5. Stored(o)'
  BY <1>1, <1>2 DEF MessageInv, Stored, Unsettled, Frame, SameOutcome
<1>6. Graced(o)'
  BY <1>1 DEF MessageInv, Graced, Frame, SameOutcome, SameFields
<1>7. Deferred(o)'
  BY <1>1 DEF MessageInv, Deferred, Frame, SameOutcome, SameFields
<1>8. QED
  BY <1>3, <1>4, <1>5, <1>6, <1>7

LEMMA SweptStays ==
    ASSUME IInv, NEW o \in Pending, MessageInv(o), Frame(o), Unswept(o)
    PROVE  Swept(o)'
<1> SUFFICES ASSUME o \in byTag', ~pend'[o].CallbackFired,
                    gens'[pend'[o].gen].confirmReader = "done", closed' = "no"
             PROVE  \/ o \in gens'[pend'[o].gen].orphans
                    \/ pend'[o].orphanDeferred \/ pend'[o].Confirmed
  BY DEF Swept
<1>1. /\ o \in byTag /\ ~pend[o].CallbackFired /\ pend'[o].gen = pend[o].gen
      /\ pend'[o].orphanDeferred = pend[o].orphanDeferred /\ pend'[o].Confirmed = pend[o].Confirmed
  BY DEF Frame, SameFields, SameOutcome
<1>2. pend[o].gen \in 1 .. cur
  BY <1>1 DEF IInv, TagsCounted
<1>3. /\ gens[pend[o].gen].confirmReader = "done" /\ closed = "no"
      /\ o \in gens[pend[o].gen].orphans => o \in gens'[pend[o].gen].orphans
  BY <1>1, <1>2 DEF Unswept
<1>4. QED
  BY <1>1, <1>3 DEF MessageInv, Swept

LEMMA Untouched ==
    ASSUME IInv, Positions, Generations, NEW o \in Pending, MessageInv(o), Frame(o),
           Unanswered(o), Unswept(o)
    PROVE  MessageInv(o)'
<1>1. MessageSound(o)' /\ Truth(o)' /\ Stored(o)' /\ Graced(o)' /\ Deferred(o)'
  BY FrameKeeps
<1>2. Swept(o)'
  BY SweptStays
<1>3. QED
  BY <1>1, <1>2 DEF MessageInv

\* A step that handles no confirm and sweeps nothing.
LEMMA QuietGeneration ==
    ASSUME ChannelsKept, NEW o \in Pending, cur' \in {cur, cur + 1}
    PROVE  Unanswered(o) /\ Unswept(o)
BY DEF ChannelsKept, Kept, Idle, Unanswered, Unswept

LEMMA Framed ==
    ASSUME IInv, Positions, Generations, Messages, ChannelsKept, cur' \in {cur, cur + 1},
           NEW o \in Pending, Frame(o)
    PROVE  MessageInv(o)'
BY Untouched, QuietGeneration DEF Messages

\* A message that is literally the same, while the indexes may change around it.
LEMMA SameMessage ==
    ASSUME NEW o \in Pending, pend'[o] = pend[o], closed = "yes" => closed' = "yes",
           Placed(o),
           o \in byTag' => o \in byTag,
           Unsettled(o) /\ o \in byTag /\ byId[IdOfMsg(o)] = o => o \in byTag' /\ byId'[IdOfMsg(o)] = o
    PROVE  Frame(o)
BY DEF Frame, SameFields, SameOutcome

-------------------------------------------------------------------------------
\* The indexes

\* Delete removes only the message's own entries.
LEMMA DeleteOwn ==
    ASSUME IInv, Positions, Index, NEW p \in Proc, pc[p] \in Live, Delete(Current(p))
    PROVE  /\ byTag' = byTag \ {Current(p)}
           /\ byId'[IdOf[p[1]]] = None
           /\ \A i \in MsgId : i # IdOf[p[1]] => byId'[i] = byId[i]
           /\ Index'
<1>1. Current(p)[1] = p /\ IdOfMsg(Current(p)) = IdOf[p[1]] /\ IdOf[p[1]] \in MsgId
  BY ConstantsOK DEF Current, IdOfMsg, CallOf, Proc
<1>2. /\ byId' = [byId EXCEPT ![IdOf[p[1]]] = None]
      /\ byTag' = byTag \ AtKey(KeyOf(Current(p)))
  BY <1>1 DEF Delete
<1>3. AtKey(KeyOf(Current(p))) \subseteq {Current(p)}
  <2> SUFFICES ASSUME NEW o \in byTag, KeyOf(o) = KeyOf(Current(p)) PROVE o = Current(p)
    BY DEF AtKey
  <2>1. o = Current(o[1]) /\ pc[o[1]] \in Live /\ o[1] \in Proc
    BY StateFacts DEF IInv, EntriesCurrent, Live
  <2>2. o[1] = p
    BY <2>1 DEF Positions, KeysUnique
  <2>3. QED
    BY <2>1, <2>2
<1>4. Current(p) \in byTag => Current(p) \in AtKey(KeyOf(Current(p)))
  BY DEF AtKey
<1>5. byTag' = byTag \ {Current(p)}
  BY <1>2, <1>3, <1>4
<1>6. /\ byId'[IdOf[p[1]]] = None
      /\ \A i \in MsgId : i # IdOf[p[1]] => byId'[i] = byId[i]
  BY <1>1, <1>2, StateFacts DEF TypeOK
<1>7. Index'
  <2> SUFFICES ASSUME NEW i \in MsgId, byId'[i] # None
               PROVE  byId'[i] \in byTag' /\ IdOfMsg(byId'[i]) = i
    BY DEF Index, IdOfMsg, CallOf
  <2>1. byId'[i] = byId[i] /\ i # IdOf[p[1]]
    BY <1>6
  <2>2. byId[i] \in byTag /\ IdOfMsg(byId[i]) = i
    BY <2>1 DEF Index
  <2>3. byId[i] # Current(p)
    BY <1>1, <2>1, <2>2
  <2>4. QED
    BY <1>5, <2>1, <2>2, <2>3
<1>8. QED
  BY <1>5, <1>6, <1>7

\* Calls with IDs of their own: nobody else is waiting under the ID of a process whose
\* outcome has not been passed on.
LEMMA OwnId ==
    ASSUME DistinctIds, IInv, Chain, NEW p \in Proc, pc[p] # "idle", ~Spent(p),
           NEW o \in Pending, Unsettled(o), IdOfMsg(o) = IdOf[p[1]]
    PROVE  o = Current(p)
<1>1. o[1] \in Proc /\ o = Current(o[1]) /\ pc[o[1]] \in Live
  BY StateFacts DEF Unsettled
<1>2. o[1][1] = p[1]
  BY <1>1 DEF DistinctIds, IdOfMsg, CallOf, Proc
<1>3. pc[o[1]] # "idle"
  BY <1>1 DEF Live
<1>4. ~Spent(o[1])
  BY <1>1 DEF Spent, Mine, Unsettled
<1>5. ~(o[1][2] < p[2]) /\ ~(p[2] < o[1][2])
  BY <1>1, <1>2, <1>3, <1>4 DEF Chain
<1>6. o[1][2] \in Nat /\ p[2] \in Nat /\ o[1] = <<o[1][1], o[1][2]>> /\ p = <<p[1], p[2]>>
  BY <1>1, ConstantsOK DEF Proc
<1>7. o[1] = p
  BY <1>2, <1>5, <1>6
<1>8. QED
  BY <1>1, <1>7

\* What stays stored when p's entry goes.
LEMMA OthersStored ==
    ASSUME DistinctIds, IInv, Positions, Index, Chain,
           NEW p \in Proc, pc[p] \in Live, Delete(Current(p)),
           NEW q \in Proc, pc[q] # "idle", ~Spent(q), q[1] = p[1],
           NEW o \in Pending, o # Current(p), o # Current(q)
    PROVE  /\ o \in byTag' <=> o \in byTag
           /\ Unsettled(o) /\ o \in byTag /\ byId[IdOfMsg(o)] = o =>
                  o \in byTag' /\ byId'[IdOfMsg(o)] = o
<1>1. /\ byTag' = byTag \ {Current(p)}
      /\ \A i \in MsgId : i # IdOf[p[1]] => byId'[i] = byId[i]
  BY DeleteOwn
<1>2. Unsettled(o) => IdOfMsg(o) # IdOf[p[1]]
  BY OwnId
<1>3. IdOfMsg(o) \in MsgId
  BY StateFacts, ConstantsOK DEF IdOfMsg, CallOf, Proc
<1>4. QED
  BY <1>1, <1>2, <1>3

-------------------------------------------------------------------------------
\* The sweep's orphans

NoNewOrphans == \A g \in Gen : gens'[g].orphans \subseteq gens[g].orphans

\* Messages that were published keep their generation and their claim, and leave the pending
\* map only with a claim.
StillClaimed ==
    \A o \in Pending : pend[o].gen # 0 =>
        /\ pend'[o].gen = pend[o].gen
        /\ pend[o].CallbackFired => pend'[o].CallbackFired
        /\ o \in byTag /\ o \notin byTag' => pend'[o].CallbackFired

LEMMA OrphansStay ==
    ASSUME IInv, Generations, Orphans, NoNewOrphans, StillClaimed, \A g \in 1 .. cur : Grows(g)
    PROVE  Orphans'
<1> SUFFICES ASSUME NEW g \in Gen, NEW o \in gens'[g].orphans
             PROVE  /\ gens'[g].dead /\ pend'[o].gen = g
                    /\ ~pend'[o].CallbackFired => o \in byTag'
  BY DEF Orphans
<1>1. o \in gens[g].orphans /\ o \in Pending /\ g \in Nat /\ g # 0
  BY GenerationFacts DEF NoNewOrphans, IInv
<1>2. gens[g].dead /\ pend[o].gen = g /\ (~pend[o].CallbackFired => o \in byTag)
  BY <1>1 DEF Orphans
<1>3. g \in 1 .. cur
  BY <1>1, <1>2, StateFacts DEF Generations, SoundGeneration
<1>4. QED
  BY <1>1, <1>2, <1>3 DEF StillClaimed, Grows

LEMMA FewerOrphans ==
    ASSUME IInv,
           \/ \E p \in Proc : PublishStep(p) \/ RetryRepublish(p)
           \/ \E r \in Refresher : RefreshStep(r)
           \/ \E g \in Gen :
                 \/ HandleConfirmation(g) \/ HandleReturn(g) \/ ReturnReaderExits(g)
                 \/ ConfirmReaderStops(g) \/ MarkDead(g) \/ BrokerStep(g)
                 \/ \E o \in Pending : SettleOrphan(g, o)
           \/ \E o \in Pending : MessageStep(o)
           \/ KeeperWakes \/ CloseBegin \/ CloseConfirmChannel \/ CloseReturns
           \/ FreshChannelDies \/ (\E c \in Call : ContextEnds(c)) \/ UNCHANGED vars
    PROVE  NoNewOrphans
<1>0. gens \in [Gen -> Generation] /\ cur \in Gen
  BY StateFacts
<1>1. ASSUME gens' = gens PROVE NoNewOrphans
  BY <1>1 DEF NoNewOrphans
<1>2. ASSUME NEW p \in Proc, PublishStep(p) \/ RetryRepublish(p) PROVE NoNewOrphans
  <2>1. \/ gens' = gens
        \/ gens' = [gens EXCEPT ![cur].sent = Append(@, p[1])]
        \/ gens' = [gens EXCEPT ![cur].published = @ + 1]
    BY <1>2 DEF PublishStep, PublishRejected, PublishChannelClosed, PublishEnter, RegisterRefused,
       Register, SendReachesBroker, SendSucceeds, SendFails, GiveUp, NextAttempt, RetryRepublish, chanVars
  <2>2. CASE gens' = [gens EXCEPT ![cur].sent = Append(@, p[1])]
    BY <1>0, <2>2 DEF NoNewOrphans, Generation
  <2>3. CASE gens' = [gens EXCEPT ![cur].published = @ + 1]
    BY <1>0, <2>3 DEF NoNewOrphans, Generation
  <2>4. QED
    BY <1>1, <2>1, <2>2, <2>3
<1>3. ASSUME NEW r \in Refresher, RefreshStep(r) PROVE NoNewOrphans
  <2>1. \/ gens' = gens
        \/ gens' = [gens EXCEPT ![failed[r]].open = FALSE]
        \/ gens' = [gens EXCEPT ![cur + 1] = InstalledGeneration(fresh = "open")]
    BY <1>3 DEF RefreshStep, RefreshSkip, RefreshLock, RefreshOpen, RefreshFails, RefreshInstall,
       RefreshCloseOld, chanVars
  <2>2. InstalledGeneration(fresh = "open").orphans = {}
    BY DEF InstalledGeneration, NoGeneration
  <2>3. CASE gens' = [gens EXCEPT ![failed[r]].open = FALSE]
    BY <1>0, <2>3 DEF NoNewOrphans, Generation
  <2>4. CASE gens' = [gens EXCEPT ![cur + 1] = InstalledGeneration(fresh = "open")]
    BY <1>0, <2>2, <2>4 DEF NoNewOrphans
  <2>5. QED
    BY <1>1, <2>1, <2>3, <2>4
<1>4. ASSUME NEW g \in Gen,
             \/ HandleConfirmation(g) \/ HandleReturn(g) \/ ReturnReaderExits(g)
             \/ ConfirmReaderStops(g) \/ MarkDead(g)
             \/ \E o \in Pending : SettleOrphan(g, o)
      PROVE  NoNewOrphans
  <2>1. CASE HandleConfirmation(g)
    BY <1>0, <2>1 DEF HandleConfirmation, NoNewOrphans, Generation
  <2>2. CASE HandleReturn(g)
    BY <1>0, <2>2 DEF HandleReturn, NoNewOrphans, Generation
  <2>3. CASE ReturnReaderExits(g)
    BY <1>0, <2>3 DEF ReturnReaderExits, NoNewOrphans, Generation
  <2>4. CASE ConfirmReaderStops(g)
    BY <1>0, <2>4 DEF ConfirmReaderStops, NoNewOrphans, Generation
  <2>5. CASE MarkDead(g)
    BY <1>0, <2>5 DEF MarkDead, NoNewOrphans, Generation
  <2>6. CASE \E o \in Pending : SettleOrphan(g, o)
    BY <1>0, <2>6 DEF SettleOrphan, NoNewOrphans, Generation
  <2>7. QED
    BY <1>4, <2>1, <2>2, <2>3, <2>4, <2>5, <2>6
<1>5. ASSUME NEW g \in Gen, BrokerStep(g) PROVE NoNewOrphans
  <2>1. CASE ChannelDies(g)
    BY <1>0, <2>1 DEF ChannelDies, NoNewOrphans, Generation
  <2>2. CASE BrokerReturns(g)
    BY <1>0, <2>2 DEF BrokerReturns, NoNewOrphans, Generation
  <2>3. CASE \E ack \in BOOLEAN : BrokerConfirms(g, ack)
    BY <1>0, <2>3 DEF BrokerConfirms, NoNewOrphans, Generation
  <2>4. QED
    BY <1>5, <2>1, <2>2, <2>3 DEF BrokerStep
<1>6. CASE CloseConfirmChannel
  BY <1>0, <1>6 DEF CloseConfirmChannel, NoNewOrphans, Generation
<1>7. CASE \/ KeeperWakes \/ CloseBegin \/ CloseReturns \/ FreshChannelDies
           \/ (\E c \in Call : ContextEnds(c)) \/ (\E o \in Pending : MessageStep(o)) \/ UNCHANGED vars
  <2>1. gens' = gens
    BY <1>7 DEF KeeperWakes, CloseBegin, CloseReturns, FreshChannelDies, ContextEnds, MessageStep,
       Expire, HandleTimeout, HandleGraceExpired, Finish, chanVars, vars
  <2>2. QED
    BY <1>1, <2>1
<1>8. QED
  BY <1>2, <1>3, <1>4, <1>5, <1>6, <1>7

-------------------------------------------------------------------------------
\* A call's processes

\* The process has not moved, and what its call knows of its message is the same.
SameSender(q) ==
    /\ pc'[q] = pc[q]
    /\ pc[q] \in Sent => /\ Mine(q)'.Nacked = Mine(q).Nacked
                         /\ Mine(q)'.CallbackFired = Mine(q).CallbackFired
                         /\ Mine(q)'.finish = Mine(q).finish

LEMMA UserCalls == \A c \in Call : <<c, 0>> \in Proc
BY ConstantsOK DEF Proc

LEMMA SenderStays ==
    ASSUME NEW q \in Proc, SameSender(q)
    PROVE  /\ Spent(q) => Spent(q)'
           /\ CallbackSound(q) /\ callbacks'[q[1]] = callbacks[q[1]] => CallbackSound(q)'
           /\ Spent(q) \/ pc[q] = "idle" => CallbackSound(q)'
<1>1. Spent(q) => Spent(q)'
  BY DEF SameSender, Spent
<1>2. CallbackSound(q) /\ callbacks'[q[1]] = callbacks[q[1]] => CallbackSound(q)'
  BY DEF SameSender, CallbackSound, Sent, Waiting
<1>3. Spent(q) \/ pc[q] = "idle" => CallbackSound(q)'
  BY DEF SameSender, Spent, CallbackSound, Sent, Waiting
<1>4. QED
  BY <1>1, <1>2, <1>3

LEMMA CallsStill ==
    ASSUME Calls, \A q \in Proc : SameSender(q), callbacks' = callbacks
    PROVE  Calls'
<1>1. Chain'
  BY SenderStays DEF Calls, Chain, SameSender
<1>2. Relayed'
  <2> SUFFICES ASSUME NEW q \in Proc, pc'[q] \in Sent, Mine(q)'.CallbackFired, Mine(q)'.finish = "no"
               PROVE  q[2] < MaxRetryAttempts /\ pc'[<<q[1], q[2] + 1>>] # "idle"
    BY DEF Relayed
  <2>1. q[2] < MaxRetryAttempts /\ pc[<<q[1], q[2] + 1>>] # "idle"
    BY DEF SameSender, Calls, Relayed
  <2>2. <<q[1], q[2] + 1>> \in Proc
    BY <2>1, ConstantsOK DEF Proc
  <2>3. QED
    BY <2>1, <2>2 DEF SameSender
<1>3. Callbacks'
  BY SenderStays DEF Calls, Callbacks
<1>4. Started'
  BY UserCalls DEF Calls, Started, SameSender
<1>5. QED
  BY <1>1, <1>2, <1>3, <1>4 DEF Calls

\* One process of a call moves on, or finishes with its message.
LEMMA CallsStep ==
    ASSUME Calls, NEW p \in Proc, pc[p] # "idle", pc'[p] # "idle",
           \A q \in Proc : q # p => SameSender(q),
           \A c \in Call : c # p[1] => callbacks'[c] = callbacks[c],
           Spent(p) => Spent(p)' /\ callbacks' = callbacks,
           CallbackSound(p)',
           (pc'[p] \in Sent /\ Mine(p)'.CallbackFired /\ Mine(p)'.finish = "no") =>
               (pc[p] \in Sent /\ Mine(p).CallbackFired /\ Mine(p).finish = "no")
    PROVE  Calls'
<1>0. \A q \in Proc : (pc'[q] = "idle" <=> pc[q] = "idle") /\ (Spent(q) => Spent(q)')
  BY SenderStays DEF SameSender
<1>1. Chain'
  BY <1>0 DEF Calls, Chain
<1>2. Relayed'
  <2> SUFFICES ASSUME NEW q \in Proc, pc'[q] \in Sent, Mine(q)'.CallbackFired, Mine(q)'.finish = "no"
               PROVE  q[2] < MaxRetryAttempts /\ pc'[<<q[1], q[2] + 1>>] # "idle"
    BY DEF Relayed
  <2>1. q[2] < MaxRetryAttempts /\ pc[<<q[1], q[2] + 1>>] # "idle"
    BY DEF SameSender, Calls, Relayed
  <2>2. <<q[1], q[2] + 1>> \in Proc
    BY <2>1, ConstantsOK DEF Proc
  <2>3. QED
    BY <1>0, <2>1, <2>2
<1>3. Callbacks'
  <2> SUFFICES ASSUME NEW q \in Proc, q # p PROVE CallbackSound(q)'
    BY DEF Callbacks
  <2>0. SameSender(q) /\ CallbackSound(q) /\ q[1] \in Call
    BY DEF Calls, Callbacks, Proc
  <2>1. CASE callbacks'[q[1]] = callbacks[q[1]]
    BY <2>0, <2>1, SenderStays
  <2>2. CASE callbacks'[q[1]] # callbacks[q[1]]
    <3>1. q[1] = p[1] /\ ~Spent(p)
      BY <2>0, <2>2
    <3>2. q[2] < p[2] \/ p[2] < q[2]
      BY <3>1, ConstantsOK DEF Proc
    <3>3. Spent(q) \/ pc[q] = "idle"
      BY <3>1, <3>2 DEF Calls, Chain
    <3>4. QED
      BY <2>0, <3>3, SenderStays
  <2>3. QED
    BY <2>1, <2>2
<1>4. Started'
  BY <1>0, UserCalls DEF Calls, Started
<1>5. QED
  BY <1>1, <1>2, <1>3, <1>4 DEF Calls

\* A nack hands the call over to its next retry.
LEMMA CallsRetry ==
    ASSUME Calls, NEW p \in Proc, NEW n \in Proc, pc[p] \in Sent, pc'[p] = pc[p],
           n[1] = p[1], n[2] = p[2] + 1, pc[n] = "idle", pc'[n] = "backoff",
           ~Mine(p).CallbackFired, Spent(p)',
           \A q \in Proc : q # p /\ q # n => SameSender(q),
           callbacks' = callbacks
    PROVE  Calls'
<1>0. /\ p[2] \in Nat /\ n[2] \in Nat /\ p # n /\ n = <<p[1], p[2] + 1>> /\ p[2] < MaxRetryAttempts
      /\ \A q \in Proc : q[2] \in Nat /\ q = <<q[1], q[2]>>
  BY ConstantsOK DEF Proc
<1>1. ~Spent(p) /\ pc[p] # "idle"
  BY DEF Spent, Sent
<1>2. \A q \in Proc : q[1] = p[1] /\ q[2] < p[2] => Spent(q)
  BY <1>1 DEF Calls, Chain
<1>3. \A q \in Proc : q[1] = p[1] /\ p[2] < q[2] => pc[q] = "idle"
  BY <1>1 DEF Calls, Chain
<1>4. \A q \in Proc : /\ (q # n => (pc'[q] = "idle" <=> pc[q] = "idle"))
                      /\ (Spent(q) => Spent(q)')
  <2> SUFFICES ASSUME NEW q \in Proc
               PROVE  (q # n => (pc'[q] = "idle" <=> pc[q] = "idle")) /\ (Spent(q) => Spent(q)')
    OBVIOUS
  <2>1. CASE q = p
    BY <1>1, <2>1
  <2>2. CASE q = n
    BY <2>2 DEF Spent, Sent
  <2>3. CASE q # p /\ q # n
    BY <2>3, SenderStays DEF SameSender
  <2>4. QED
    BY <2>1, <2>2, <2>3
<1>5. Chain'
  <2> SUFFICES ASSUME NEW x \in Proc, NEW q \in Proc, x[1] = q[1], x[2] < q[2], pc'[q] # "idle"
               PROVE  Spent(x)'
    BY DEF Chain
  <2>1. CASE q # n
    BY <1>4, <2>1 DEF Calls, Chain
  <2>2. CASE q = n
    <3>1. x[1] = p[1] /\ (x[2] < p[2] \/ x[2] = p[2])
      BY <1>0, <2>2
    <3>2. CASE x[2] < p[2]
      BY <1>2, <1>4, <3>1, <3>2
    <3>3. CASE x[2] = p[2]
      BY <1>0, <3>1, <3>3
    <3>4. QED
      BY <3>1, <3>2, <3>3
  <2>3. QED
    BY <2>1, <2>2
<1>6. Relayed'
  <2> SUFFICES ASSUME NEW q \in Proc, pc'[q] \in Sent, Mine(q)'.CallbackFired, Mine(q)'.finish = "no"
               PROVE  q[2] < MaxRetryAttempts /\ pc'[<<q[1], q[2] + 1>>] # "idle"
    BY DEF Relayed
  <2>1. CASE q = p
    BY <1>0, <2>1
  <2>2. CASE q # p
    <3>1. q # n
      BY DEF Sent
    <3>2. q[2] < MaxRetryAttempts /\ pc[<<q[1], q[2] + 1>>] # "idle"
      BY <2>2, <3>1 DEF SameSender, Calls, Relayed
    <3>3. <<q[1], q[2] + 1>> \in Proc /\ <<q[1], q[2] + 1>> # n
      BY <3>2, ConstantsOK DEF Proc
    <3>4. QED
      BY <1>4, <3>2, <3>3
  <2>3. QED
    BY <2>1, <2>2
<1>7. Callbacks'
  <2> SUFFICES ASSUME NEW q \in Proc PROVE CallbackSound(q)'
    BY DEF Callbacks
  <2>1. callbacks[p[1]] = 0
    BY DEF Calls, Callbacks, CallbackSound
  <2>2. CASE q = p
    BY <2>2 DEF Spent, CallbackSound, Sent, Waiting
  <2>3. CASE q = n
    BY <2>1, <2>3 DEF CallbackSound, Sent, Waiting
  <2>4. CASE q # p /\ q # n
    BY <2>4, SenderStays DEF Calls, Callbacks
  <2>5. QED
    BY <2>2, <2>3, <2>4
<1>8. Started'
  BY <1>4, UserCalls DEF Calls, Started
<1>9. QED
  BY <1>5, <1>6, <1>7, <1>8 DEF Calls

-------------------------------------------------------------------------------
\* The statistics

\* The messages in the pending map that nobody has decided yet.
Undone == {o \in byTag : ~pend[o].CallbackFired}

LEMMA UndoneFacts ==
    ASSUME IInv
    PROVE  /\ IsFiniteSet(Undone) /\ Cardinality(Undone) \in Nat
           /\ \A s \in Counted \cup {"published"} : stats[s] \in Int
<1>1. IsFiniteSet(Pending)
  <2>1. IsFiniteSet(0 .. MaxRetryAttempts) /\ IsFiniteSet(0 .. MaxConnectionRetries)
    BY FS_Interval, ConstantsOK
  <2>2. IsFiniteSet(Proc)
    BY <2>1, FS_Product, ConstantsOK DEF Proc
  <2>3. QED
    BY <2>1, <2>2, FS_Product DEF Pending, Attempt
<1>2. Undone \subseteq Pending
  BY StateFacts DEF Undone
<1>3. IsFiniteSet(Undone) /\ Cardinality(Undone) \in Nat
  BY <1>1, <1>2, FS_Subset, FS_CardinalityType
<1>4. QED
  BY <1>3, StateFacts DEF TypeOK

LEMMA StatsSame ==
    ASSUME StatsConserved, Undone' = Undone, stats' = stats
    PROVE  StatsConserved'
BY DEF StatsConserved, Undone

LEMMA StatsClaim ==
    ASSUME IInv, StatsConserved, NEW o \in Undone, Undone' = Undone \ {o},
           NEW outcome \in Counted, stats' = Counting(outcome)
    PROVE  StatsConserved'
<1>1. Cardinality(Undone') = Cardinality(Undone) - 1
  BY UndoneFacts, FS_RemoveElement
<1>2. /\ stats'[outcome] = stats[outcome] + 1
      /\ \A s \in Counted \cup {"published"} : s # outcome => stats'[s] = stats[s]
  BY StateFacts DEF TypeOK, Counting
<1>3. stats["published"] =
        stats["confirmed"] + stats["returned"] + stats["nacked"] + stats["timedOut"]
        + stats["orphaned"] + Cardinality(Undone)
  BY DEF StatsConserved, Undone
<1>4. stats'["published"] =
        stats'["confirmed"] + stats'["returned"] + stats'["nacked"] + stats'["timedOut"]
        + stats'["orphaned"] + Cardinality(Undone')
  <2>1. outcome \in {"confirmed", "returned", "nacked", "timedOut", "orphaned"}
    BY DEF Counted
  <2>2. /\ stats["published"] \in Int /\ stats["confirmed"] \in Int /\ stats["returned"] \in Int
        /\ stats["nacked"] \in Int /\ stats["timedOut"] \in Int /\ stats["orphaned"] \in Int
        /\ Cardinality(Undone) \in Nat
    BY UndoneFacts DEF Counted
  <2>3. QED
    BY <1>1, <1>2, <1>3, <2>1, <2>2 DEF Counted
<1>5. QED
  BY <1>4 DEF StatsConserved, Undone

LEMMA StatsStored ==
    ASSUME IInv, StatsConserved, NEW o \in Pending, o \notin Undone, Undone' = Undone \cup {o},
           stats' = Counting("published")
    PROVE  StatsConserved'
<1>1. Cardinality(Undone') = Cardinality(Undone) + 1
  BY UndoneFacts, FS_AddElement
<1>2. /\ stats'["published"] = stats["published"] + 1
      /\ \A s \in Counted : stats'[s] = stats[s]
  BY StateFacts DEF TypeOK, Counting, Counted
<1>3. QED
  BY <1>1, <1>2, UndoneFacts DEF StatsConserved, Undone, Counted

LEMMA StatsWithdrawn ==
    ASSUME IInv, StatsConserved, NEW o \in Undone, Undone' = Undone \ {o},
           stats' = [stats EXCEPT !["published"] = @ - 1]
    PROVE  StatsConserved'
<1>1. Cardinality(Undone') = Cardinality(Undone) - 1
  BY UndoneFacts, FS_RemoveElement
<1>2. /\ stats'["published"] = stats["published"] - 1
      /\ \A s \in Counted : stats'[s] = stats[s]
  BY StateFacts DEF TypeOK, Counted
<1>3. QED
  BY <1>1, <1>2, UndoneFacts DEF StatsConserved, Undone, Counted

-------------------------------------------------------------------------------
\* The rest of the invariant, step by step

Rest == Messages /\ Index /\ Orphans /\ Calls /\ StatsConserved

\* A step that at most touches timers, channels and the keeper.
Still ==
    /\ UNCHANGED <<byId, byTag, stats, callbacks>>
    /\ \A p \in Proc : pc'[p] = pc[p] /\ attempt'[p] = attempt[p]
    /\ \A o \in Pending : /\ SameFields(pend'[o], pend[o]) /\ SameOutcome(pend'[o], pend[o])
                          /\ pend'[o].grace # "off" => pend[o].grace # "off"
                          /\ ~pend[o].CallbackFired /\ pend[o].grace # "off" =>
                                 pend'[o].grace # "off" \/ closed' = "yes"

LEMMA StillKeepsCalls ==
    ASSUME IInv, Still, Calls
    PROVE  Calls'
<1>1. \A q \in Proc : Current(q)' = Current(q) /\ Current(q) \in Pending
  BY StateFacts, CurrentType DEF Still, Current
<1>2. \A q \in Proc : SameSender(q)
  BY <1>1 DEF Still, SameSender, Mine, SameFields, SameOutcome
<1>3. QED
  BY <1>2, CallsStill DEF Still

LEMMA StillUndone ==
    ASSUME IInv, Still
    PROVE  Undone' = Undone
<1>1. \A o \in byTag : pend'[o].CallbackFired = pend[o].CallbackFired
  BY StateFacts DEF Still, SameOutcome
<1>2. QED
  BY <1>1 DEF Undone, Still

LEMMA StillKeepsRest ==
    ASSUME CInv, Still, cur' \in {cur, cur + 1}, closed = "yes" => closed' = "yes",
           ChannelsKept, NoNewOrphans
    PROVE  Rest'
<1>1. /\ IInv /\ Positions /\ Generations /\ Messages /\ Index /\ Orphans /\ Calls
      /\ StatsConserved
  BY DEF CInv
<1>2. Messages'
  <2> SUFFICES ASSUME NEW o \in Pending PROVE MessageInv(o)'
    BY DEF Messages
  <2>1. Frame(o)
    BY StateFacts, <1>1 DEF Still, Frame, Placed
  <2>2. QED
    BY <1>1, <2>1, Framed
<1>3. Index'
  BY <1>1 DEF Still, Index, IdOfMsg, CallOf
<1>4. Orphans'
  <2>1. StillClaimed
    BY DEF Still, StillClaimed, SameFields, SameOutcome
  <2>2. \A g \in 1 .. cur : Grows(g)
    BY DEF ChannelsKept, Kept
  <2>3. QED
    BY <1>1, <2>1, <2>2, OrphansStay
<1>5. Calls'
  BY <1>1, StillKeepsCalls
<1>6. StatsConserved'
  BY <1>1, StillUndone, StatsSame DEF Still
<1>7. QED
  BY <1>2, <1>3, <1>4, <1>5, <1>6 DEF Rest

\* A process that has nothing in the pending map moves on, or returns an error.
Moves(p) ==
    /\ pend' = pend /\ byId' = byId /\ byTag' = byTag /\ stats' = stats /\ closed' = closed
    /\ \A q \in Proc : q # p => pc'[q] = pc[q] /\ attempt'[q] = attempt[q]
    /\ pc[p] \in Waiting \ {"entered", "sending"}
    /\ \/ pc'[p] \in Waiting \ {"entered", "sending"} /\ callbacks' = callbacks
       \/ Fail(p)

\* The callback of a call that fails: owed by a retry to a callback of its own.
LEMMA FailedCallback ==
    ASSUME IInv, NEW p \in Proc, callbacks[p[1]] = 0, Fail(p)
    PROVE  /\ pc'[p] = "error" /\ CallbackSound(p)'
           /\ \A c \in Call : c # p[1] => callbacks'[c] = callbacks[c]
<1>1. p[1] \in Call /\ callbacks \in [Call -> Nat] /\ pc'[p] = "error"
  BY StateFacts DEF TypeOK, Proc, Fail
<1>2. callbacks' = IF p[2] > 0 /\ p[1] \in OwnCallback
                   THEN [callbacks EXCEPT ![p[1]] = @ + 1] ELSE callbacks
  BY DEF Fail
<1>3. /\ callbacks'[p[1]] = IF p[2] > 0 /\ p[1] \in OwnCallback THEN 1 ELSE 0
      /\ \A c \in Call : c # p[1] => callbacks'[c] = callbacks[c]
  BY <1>1, <1>2
<1>4. QED
  BY <1>1, <1>3 DEF CallbackSound, Waiting, Sent

LEMMA MovesKeepsCalls ==
    ASSUME IInv, Calls, NEW p \in Proc, pc[p] \in Waiting,
           \A q \in Proc : q # p => SameSender(q),
           (pc'[p] \in Waiting /\ callbacks' = callbacks) \/ Fail(p)
    PROVE  Calls'
<1>1. callbacks[p[1]] = 0 /\ pc[p] # "idle" /\ ~Spent(p)
  BY DEF Calls, Callbacks, CallbackSound, Waiting, Spent, Sent
<1>2. /\ pc'[p] # "idle" /\ pc'[p] \notin Sent /\ CallbackSound(p)'
      /\ \A c \in Call : c # p[1] => callbacks'[c] = callbacks[c]
  <2>1. CASE pc'[p] \in Waiting /\ callbacks' = callbacks
    BY <1>1, <2>1 DEF CallbackSound, Waiting, Sent
  <2>2. CASE Fail(p)
    BY <1>1, <2>2, FailedCallback DEF Sent
  <2>3. QED
    BY <2>1, <2>2
<1>3. QED
  BY <1>1, <1>2, CallsStep

LEMMA OtherSenders ==
    ASSUME IInv, NEW p \in Proc,
           \A q \in Proc : q # p => pc'[q] = pc[q] /\ attempt'[q] = attempt[q],
           \A o \in Pending : o[1] # p => pend'[o] = pend[o]
    PROVE  \A q \in Proc : q # p => SameSender(q)
<1> SUFFICES ASSUME NEW q \in Proc, q # p PROVE SameSender(q)
  OBVIOUS
<1>1. Current(q)' = Current(q) /\ Current(q) \in Pending /\ Current(q)[1] = q
  BY StateFacts, CurrentType DEF Current
<1>2. Mine(q)' = Mine(q)
  BY <1>1 DEF Mine
<1>3. QED
  BY <1>2 DEF SameSender

LEMMA MovesKeepsRest ==
    ASSUME CInv, NEW p \in Proc, Moves(p), cur' \in {cur, cur + 1}, ChannelsKept, NoNewOrphans
    PROVE  Rest'
<1>1. /\ IInv /\ Positions /\ Generations /\ Messages /\ Index /\ Orphans /\ Calls
      /\ StatsConserved
  BY DEF CInv
<1>2. pc[p] \notin Busy /\ pc'[p] \notin Busy /\ pc[p] \in Waiting
  BY <1>1, StateFacts DEF Moves, Waiting, Busy, Live, Fail
<1>3. Messages'
  <2> SUFFICES ASSUME NEW o \in Pending PROVE MessageInv(o)'
    BY DEF Messages
  <2>1. Frame(o)
    BY <1>1, <1>2, StateFacts, SameMessage DEF Moves, Placed
  <2>2. QED
    BY <1>1, <2>1, Framed
<1>4. Index'
  BY <1>1 DEF Moves, Index, IdOfMsg, CallOf
<1>5. Orphans'
  <2>1. StillClaimed
    BY DEF Moves, StillClaimed
  <2>2. \A g \in 1 .. cur : Grows(g)
    BY DEF ChannelsKept, Kept
  <2>3. QED
    BY <1>1, <2>1, <2>2, OrphansStay
<1>6. Calls'
  <2>1. \A q \in Proc : q # p => SameSender(q)
    BY <1>1, OtherSenders DEF Moves
  <2>2. QED
    BY <1>1, <1>2, <2>1, MovesKeepsCalls DEF Moves
<1>7. StatsConserved'
  BY <1>1, StatsSame DEF Moves, Undone
<1>8. QED
  BY <1>3, <1>4, <1>5, <1>6, <1>7 DEF Rest

\* The steps that touch no message.
LEMMA RefreshKeepsRest ==
    ASSUME CInv, NEW r \in Refresher, RefreshStep(r)
    PROVE  Rest'
<1>1. IInv /\ Generations /\ TypeInv /\ ChannelsKept
  BY RefreshKeepsChannels DEF CInv, IInv
<1>2. /\ UNCHANGED <<pend, byId, byTag, stats, callbacks, closed, attempt>>
      /\ cur' \in {cur, cur + 1}
      /\ \A q \in Refresher : q # r => pc'[q] = pc[q]
      /\ pc[r] \in {"delay", "opening", "installing", "closeOld"}
      /\ r # Keeper => pc'[r] \in {"opening", "installing", "closeOld", "refreshed"}
  BY <1>1, StateFacts DEF RefreshStep, RefreshSkip, RefreshLock, RefreshOpen, RefreshFails,
     RefreshInstall, RefreshCloseOld, AfterRefresh, msgVars, chanVars, userVars, closeVars
<1>3. NoNewOrphans
  BY <1>1, FewerOrphans
<1>4. CASE r = Keeper
  <2>1. Still
    BY <1>1, <1>2, <1>4, StateFacts DEF Still, SameFields, SameOutcome
  <2>2. QED
    BY <1>1, <1>2, <1>3, <2>1, StillKeepsRest
<1>5. CASE r # Keeper
  <2>1. r \in Proc
    BY <1>5 DEF Refresher
  <2>2. Moves(r)
    BY <1>1, <1>2, <1>5, <2>1, StateFacts DEF Moves, Waiting
  <2>3. QED
    BY <1>1, <1>2, <1>3, <2>1, <2>2, MovesKeepsRest
<1>6. QED
  BY <1>4, <1>5

LEMMA IdleKeepsRest ==
    ASSUME CInv, NEW p \in Proc,
           \/ PublishRejected(p) \/ PublishChannelClosed(p) \/ GiveUp(p) \/ NextAttempt(p)
    PROVE  Rest'
<1>1. IInv /\ Generations /\ TypeInv /\ ChannelsKept
  BY PublishKeepsChannels DEF CInv, IInv, PublishStep
<1>2. cur' = cur
  BY DEF PublishRejected, PublishChannelClosed, GiveUp, NextAttempt, chanVars
<1>3. Moves(p)
  BY <1>1, StateFacts DEF PublishRejected, PublishChannelClosed, GiveUp, NextAttempt, ChannelError,
     Fail, Moves, Waiting, msgVars, closeVars
<1>4. NoNewOrphans
  BY <1>1, FewerOrphans DEF PublishStep
<1>5. QED
  BY <1>1, <1>2, <1>3, <1>4, MovesKeepsRest

LEMMA ReaderKeepsRest ==
    ASSUME CInv, NEW g \in Gen,
           \/ ReturnReaderExits(g) \/ ConfirmReaderStops(g) \/ MarkDead(g) \/ BrokerStep(g)
    PROVE  Rest'
<1>1. IInv /\ Generations /\ TypeInv /\ ChannelsKept
  BY ReaderKeepsChannels, BrokerKeepsChannels DEF CInv, IInv
<1>2. UNCHANGED <<pend, byId, byTag, stats, callbacks, pc, attempt, cur, closed>>
  BY DEF ReturnReaderExits, ConfirmReaderStops, MarkDead, BrokerStep, ChannelDies, BrokerReturns,
     BrokerConfirms, msgVars, procVars, userVars, closeVars
<1>3. Still
  BY <1>2 DEF Still, SameFields, SameOutcome
<1>4. NoNewOrphans
  BY <1>1, FewerOrphans
<1>5. QED
  BY <1>1, <1>2, <1>3, <1>4, StillKeepsRest

LEMMA OtherKeepsRest ==
    ASSUME CInv,
           \/ \E o \in Pending : Expire(o)
           \/ KeeperWakes \/ CloseBegin \/ CloseConfirmChannel \/ CloseReturns
           \/ FreshChannelDies \/ (\E c \in Call : ContextEnds(c)) \/ UNCHANGED vars
    PROVE  Rest'
<1>1. IInv /\ Generations /\ TypeInv /\ ChannelsKept
  BY OtherKeepsChannels DEF CInv, IInv, MessageStep
<1>2. /\ UNCHANGED <<byId, byTag, stats, callbacks, attempt, cur>>
      /\ \A p \in Proc : pc'[p] = pc[p]
      /\ closed = "yes" => closed' = "yes"
  BY <1>1, StateFacts DEF Expire, KeeperWakes, CloseBegin, CloseConfirmChannel, CloseReturns,
     FreshChannelDies, ContextEnds, vars, msgVars, procVars, userVars, closeVars, chanVars
<1>3. \A o \in Pending : /\ SameFields(pend'[o], pend[o]) /\ SameOutcome(pend'[o], pend[o])
                         /\ pend'[o].grace # "off" => pend[o].grace # "off"
                         /\ ~pend[o].CallbackFired /\ pend[o].grace # "off" =>
                                pend'[o].grace # "off" \/ closed' = "yes"
  <2>1. ASSUME pend' = pend
        PROVE  <1>3!:
    BY <2>1 DEF SameFields, SameOutcome
  <2>2. CASE CloseReturns
    <3>1. /\ \A o \in Pending : pend'[o] = pend[o] \/ pend'[o] = StopTimer(pend[o])
          /\ closed' = "yes"
      BY <2>2 DEF CloseReturns
    <3>2. \A o \in Pending : pend[o] \in PendingMessage
      BY <1>1, StateFacts
    <3>3. QED
      BY <3>1, <3>2, StopTimerFields DEF SameFields, SameOutcome
  <2>3. ASSUME NEW x \in Pending, Expire(x)
        PROVE  <1>3!:
    <3>1. \/ pend' = [pend EXCEPT ![x].timer = "firing"]
          \/ pend' = [pend EXCEPT ![x].grace = "firing"] /\ pend[x].grace = "armed"
      BY <2>3 DEF Expire
    <3>2. CASE pend' = [pend EXCEPT ![x].timer = "firing"]
      BY <1>1, <3>2, StateFacts DEF PendingMessage, SameFields, SameOutcome
    <3>3. CASE pend' = [pend EXCEPT ![x].grace = "firing"] /\ pend[x].grace = "armed"
      BY <1>1, <3>3, StateFacts DEF PendingMessage, SameFields, SameOutcome
    <3>4. QED
      BY <3>1, <3>2, <3>3
  <2>4. CASE ~CloseReturns /\ ~\E o \in Pending : Expire(o)
    BY <2>1, <2>4 DEF KeeperWakes, CloseBegin, CloseConfirmChannel, FreshChannelDies, ContextEnds,
       vars, msgVars
  <2>5. QED
    BY <2>2, <2>3, <2>4
<1>4. Still
  BY <1>2, <1>3 DEF Still
<1>5. NoNewOrphans
  BY <1>1, FewerOrphans DEF MessageStep
<1>6. QED
  BY <1>1, <1>2, <1>4, <1>5, StillKeepsRest

-------------------------------------------------------------------------------
\* A step that decides a message, or only touches it

\* All other messages are as they were.
OthersFramed(o) == \A q \in Pending : q # o => Frame(q) /\ Unanswered(q) /\ Unswept(q)

LEMMA OthersKept ==
    ASSUME CInv, NEW o \in Pending, OthersFramed(o), MessageInv(o)'
    PROVE  Messages'
<1>1. \A q \in Pending : q # o => MessageInv(q)'
  BY Untouched DEF CInv, Messages, OthersFramed
<1>2. QED
  BY <1>1 DEF Messages

LEMMA OthersSend ==
    ASSUME IInv, NEW o \in Pending, o = Current(o[1]), OthersFramed(o), attempt' = attempt
    PROVE  /\ \A q \in Proc : q # o[1] /\ pc'[q] = pc[q] => SameSender(q)
           /\ Mine(o[1]) = pend[o] /\ Mine(o[1])' = pend'[o] /\ o[1] \in Proc
<1>1. \A q \in Proc : /\ Current(q)' = Current(q) /\ Current(q) \in Pending
                      /\ q # o[1] => Current(q) # o
  BY StateFacts, CurrentType DEF Current
<1>2. o[1] \in Proc
  BY StateFacts
<1>3. QED
  BY <1>1, <1>2 DEF OthersFramed, Frame, SameFields, SameOutcome, SameSender, Mine

LEMMA UndecidedStored ==
    ASSUME CInv, NEW o \in Pending, o = Current(o[1]), pc[o[1]] \in Live, ~pend[o].CallbackFired
    PROVE  /\ o \in byTag /\ byId[IdOfMsg(o)] = o /\ o \in Undone
           /\ ~pend[o].Nacked /\ ~pend[o].Returned /\ pend[o].finish = "no"
           /\ callbacks[o[1][1]] = 0 /\ ~Spent(o[1])
           /\ pend[o].inFlight <=> pc[o[1]] \in {"sending", "sent"}
<1>1. MessageSound(o) /\ Stored(o) /\ o[1] \in Proc
  BY StateFacts DEF CInv, Messages, MessageInv
<1>2. o \in byTag /\ byId[IdOfMsg(o)] = o
  BY <1>1 DEF Stored, Unsettled
<1>3. /\ ~pend[o].Nacked /\ ~pend[o].Returned /\ pend[o].finish = "no"
      /\ pend[o].inFlight <=> pc[o[1]] \in {"sending", "sent"}
  BY <1>1, <1>2 DEF MessageSound
<1>4. callbacks[o[1][1]] = 0 /\ ~Spent(o[1])
  BY <1>1 DEF CInv, Calls, Callbacks, CallbackSound, Mine, Live, Sent, Waiting, Spent
<1>5. QED
  BY <1>2, <1>3, <1>4 DEF Undone

\* The message's outcome is claimed: its callback is owed, or its next retry started.
LEMMA DecideKeepsRest ==
    ASSUME CInv, NEW o \in Pending, o = Current(o[1]), ~pend[o].CallbackFired, OthersFramed(o),
           pc[o[1]] \in Live, pc'[o[1]] \in Sent,
           UNCHANGED <<byId, byTag, callbacks, attempt>>,
           pend'[o].CallbackFired, pend'[o].gen = pend[o].gen,
           pend'[o].inFlight <=> pc'[o[1]] = "sent", Truth(o)',
           \/ pend'[o].finish = "pending" /\ \A q \in Proc : q # o[1] => pc'[q] = pc[q]
           \/ /\ pend'[o].finish = "no" /\ pend'[o].Nacked /\ pc'[o[1]] = pc[o[1]]
              /\ RetryOf(o) < MaxRetryAttempts /\ pc'[NextRetry(o)] = "backoff"
              /\ \A q \in Proc : q # NextRetry(o) => pc'[q] = pc[q],
           NEW outcome \in Counted, stats' = Counting(outcome),
           NoNewOrphans, \A g \in 1 .. cur : Grows(g)
    PROVE  Rest'
<1>1. /\ IInv /\ Positions /\ Generations /\ Messages /\ Index /\ Orphans /\ Calls
      /\ StatsConserved /\ o[1] \in Proc
  BY StateFacts DEF CInv
<1>2. /\ o \in byTag /\ byId[IdOfMsg(o)] = o /\ o \in Undone
      /\ callbacks[o[1][1]] = 0 /\ ~Spent(o[1]) /\ pend[o].finish = "no"
  BY UndecidedStored
<1>3. /\ o = Current(o[1])' /\ Mine(o[1]) = pend[o] /\ Mine(o[1])' = pend'[o]
      /\ \A q \in Proc : q # o[1] /\ pc'[q] = pc[q] => SameSender(q)
  BY <1>1, OthersSend DEF Current
<1>4. Messages'
  <2>1. MessageSound(o)'
    BY <1>3 DEF MessageSound, Sent
  <2>2. Stored(o)'
    BY <1>2 DEF Stored, IdOfMsg, CallOf
  <2>3. Graced(o)' /\ Swept(o)' /\ Deferred(o)'
    BY DEF Graced, Swept, Deferred
  <2>4. QED
    BY <2>1, <2>2, <2>3, OthersKept DEF MessageInv
<1>5. Index'
  BY <1>1 DEF Index, IdOfMsg, CallOf
<1>6. Orphans'
  <2>1. StillClaimed
    BY DEF StillClaimed, OthersFramed, Frame, SameFields, SameOutcome
  <2>2. QED
    BY <1>1, <2>1, OrphansStay
<1>7. Calls'
  <2>1. CASE pend'[o].finish = "pending" /\ \A q \in Proc : q # o[1] => pc'[q] = pc[q]
    <3>1. CallbackSound(o[1])'
      BY <1>2, <1>3, <2>1 DEF CallbackSound, Sent, Waiting
    <3>2. pc[o[1]] # "idle" /\ pc'[o[1]] # "idle"
      BY DEF Live, Sent
    <3>3. QED
      BY <1>1, <1>2, <1>3, <2>1, <3>1, <3>2, CallsStep
  <2>2. CASE /\ pend'[o].finish = "no" /\ pend'[o].Nacked /\ pc'[o[1]] = pc[o[1]]
             /\ RetryOf(o) < MaxRetryAttempts /\ pc'[NextRetry(o)] = "backoff"
             /\ \A q \in Proc : q # NextRetry(o) => pc'[q] = pc[q]
    <3>1. /\ NextRetry(o) \in Proc /\ pc[NextRetry(o)] = "idle" /\ NextRetry(o) # o[1]
          /\ NextRetry(o)[1] = o[1][1] /\ NextRetry(o)[2] = o[1][2] + 1
      BY <1>1, <2>2, RetryFacts
    <3>2. Spent(o[1])'
      BY <1>3, <2>2 DEF Spent
    <3>3. QED
      BY <1>1, <1>3, <2>2, <3>1, <3>2, CallsRetry
  <2>3. QED
    BY <2>1, <2>2
<1>8. StatsConserved'
  <2>1. Undone' = Undone \ {o}
    BY <1>1, <1>2, StateFacts DEF Undone, OthersFramed, Frame, SameOutcome
  <2>2. QED
    BY <1>1, <1>2, <2>1, StatsClaim
<1>9. QED
  BY <1>4, <1>5, <1>6, <1>7, <1>8 DEF Rest

\* The message is touched, and its outcome stays what it was.
LEMMA TouchKeepsRest ==
    ASSUME CInv, NEW o \in Pending, o = Current(o[1]), OthersFramed(o), pc[o[1]] \in Live,
           pc'[o[1]] = pc[o[1]] \/ pc'[o[1]] \in Sent,
           \A q \in Proc : q # o[1] => pc'[q] = pc[q],
           UNCHANGED <<byId, byTag, callbacks, attempt, stats>>,
           SameOutcome(pend'[o], pend[o]), pend'[o].gen = pend[o].gen,
           pend[o].Nacked => pend'[o].Nacked,
           MessageInv(o)', NoNewOrphans, \A g \in 1 .. cur : Grows(g)
    PROVE  Rest'
<1>1. /\ IInv /\ Positions /\ Generations /\ Messages /\ Index /\ Orphans /\ Calls
      /\ StatsConserved /\ o[1] \in Proc /\ MessageSound(o)
  BY StateFacts DEF CInv, Messages, MessageInv
<1>2. /\ Mine(o[1]) = pend[o] /\ Mine(o[1])' = pend'[o]
      /\ \A q \in Proc : q # o[1] => SameSender(q)
  BY <1>1, OthersSend
<1>3. Messages'
  BY OthersKept
<1>4. Index'
  BY <1>1 DEF Index, IdOfMsg, CallOf
<1>5. Orphans'
  <2>1. StillClaimed
    BY DEF StillClaimed, OthersFramed, Frame, SameFields, SameOutcome
  <2>2. QED
    BY <1>1, <2>1, OrphansStay
<1>6. Calls'
  <2>1. pc[o[1]] # "idle" /\ pc'[o[1]] # "idle"
    BY DEF Live, Sent
  <2>2. CASE pc[o[1]] = "sending"
    <3>1. ~pend[o].CallbackFired /\ callbacks[o[1][1]] = 0 /\ ~Spent(o[1]) /\ pend[o].finish = "no"
      BY <2>2, <1>1, UndecidedStored DEF MessageSound
    <3>2. CallbackSound(o[1])'
      BY <1>2, <2>2, <3>1 DEF CallbackSound, Sent, Waiting, SameOutcome
    <3>3. QED
      BY <1>1, <1>2, <2>1, <3>1, <3>2, CallsStep DEF SameOutcome
  <2>3. CASE pc[o[1]] \in Sent
    <3>0. pc'[o[1]] \in Sent
      BY <2>3
    <3>1. CallbackSound(o[1])
      BY <1>1 DEF Calls, Callbacks
    <3>2. CallbackSound(o[1])'
      BY <1>2, <2>3, <3>0, <3>1 DEF CallbackSound, Sent, Waiting, SameOutcome
    <3>3. Spent(o[1]) => Spent(o[1])'
      BY <1>2, <2>3, <3>0 DEF Spent, SameOutcome
    <3>4. QED
      BY <1>1, <1>2, <2>1, <2>3, <3>2, <3>3, CallsStep DEF SameOutcome
  <2>4. QED
    BY <2>2, <2>3 DEF Live, Sent
<1>7. StatsConserved'
  <2>1. Undone' = Undone
    BY <1>1, StateFacts DEF Undone, OthersFramed, Frame, SameOutcome
  <2>2. QED
    BY <1>1, <2>1, StatsSame
<1>8. QED
  BY <1>3, <1>4, <1>5, <1>6, <1>7 DEF Rest

\* What a live message says stays true, when what is added to it is true.
LEMMA TruthStep ==
    ASSUME CInv, NEW o \in Pending, o = Current(o[1]), pc[o[1]] \in Live,
           cur' = cur, Grows(pend[o].gen), gens'[pend[o].gen].handled \in Nat,
           gens[pend[o].gen].handled <= gens'[pend[o].gen].handled,
           pend'[o].gen = pend[o].gen, pend'[o].tag = pend[o].tag,
           pend'[o].Confirmed =>
               \/ pend[o].Confirmed
               \/ /\ pend[o].tag <= gens'[pend[o].gen].handled
                  /\ gens'[pend[o].gen].verdicts[pend[o].tag],
           pend'[o].Nacked =>
               \/ pend[o].Nacked
               \/ /\ pend[o].tag <= gens'[pend[o].gen].handled
                  /\ ~gens'[pend[o].gen].verdicts[pend[o].tag],
           pend'[o].Returned => pend[o].Returned \/ pend[o].tag \in gens[pend[o].gen].bounced,
           pend'[o].FinalOutcome = "confirmed" => pend'[o].Confirmed,
           pend'[o].FinalOutcome = "nacked" => pend'[o].Nacked,
           pend'[o].FinalOutcome = "returned" => pend'[o].Returned,
           pend'[o].FinalOutcome = "orphaned" =>
               \/ pend[o].FinalOutcome = "orphaned"
               \/ gens[pend[o].gen].dead /\ pend[o].tag > Len(gens[pend[o].gen].verdicts),
           pend'[o].orphanDeferred => pend[o].orphanDeferred \/ gens[pend[o].gen].dead,
           pend'[o].grace # "off" => pend'[o].Confirmed,
           ~pend'[o].CallbackFired /\ pend[o].tag <= gens'[pend[o].gen].handled => pend'[o].Confirmed
    PROVE  Truth(o)'
<1> DEFINE g == pend[o].gen
           t == pend[o].tag
<1>1. IInv /\ Truth(o) /\ TagUsed /\ SoundGeneration(gens[g], g, cur, closed) /\ g \in 1 .. cur
      /\ g \in Gen /\ t \in Nat /\ t >= 1
  <2>1. IInv /\ TagUsed /\ Truth(o) /\ o[1] \in Proc
    BY StateFacts DEF CInv, Positions, Messages, MessageInv
  <2>2. g \in 1 .. cur /\ g \in Gen /\ t \in Nat /\ t >= 1
    BY <2>1, LiveFacts DEF Mine
  <2>3. QED
    BY <2>1, <2>2 DEF CInv, Generations
<1>2. /\ gens[g].handled \in Nat /\ Len(gens[g].verdicts) \in Nat
      /\ gens[g].handled <= Len(gens[g].verdicts)
  BY <1>1, GenerationFacts DEF SoundGeneration, IInv
<1>3. t <= gens[g].handled =>
          /\ t <= gens'[g].handled /\ gens'[g].verdicts[t] = gens[g].verdicts[t]
  <2>1. t <= gens[g].handled => t \in 1 .. Len(gens[g].verdicts)
    BY <1>1, <1>2
  <2>2. t <= gens[g].handled => t <= gens'[g].handled
    BY <1>1, <1>2
  <2>3. QED
    BY <2>1, <2>2 DEF Grows
<1>4. /\ gens[g].dead => gens'[g].dead /\ Len(gens'[g].verdicts) = Len(gens[g].verdicts)
      /\ gens[g].bounced \subseteq gens'[g].bounced
  BY DEF Grows
<1>5. /\ pend'[o].Confirmed => t <= gens'[g].handled /\ gens'[g].verdicts[t]
      /\ pend'[o].Nacked => t <= gens'[g].handled /\ ~gens'[g].verdicts[t]
      /\ pend'[o].Returned => t \in gens'[g].bounced
      /\ pend'[o].FinalOutcome = "orphaned" => gens'[g].dead /\ t > Len(gens'[g].verdicts)
      /\ pend'[o].orphanDeferred => gens'[g].dead
  BY <1>1, <1>3, <1>4 DEF Truth
<1> HIDE DEF g, t
<1>6. pend'[o].gen = g /\ pend'[o].tag = t /\ g \in 1 .. cur'
  BY <1>1 DEF g, t
<1>7. QED
  BY <1>5, <1>6 DEF Truth, g, t

LEMMA OthersQuiet ==
    ASSUME IInv, ChannelsKept, cur' = cur, NEW o \in Pending,
           \A q \in Pending : q # o => Frame(q)
    PROVE  OthersFramed(o) /\ \A g \in 1 .. cur : Grows(g)
BY QuietGeneration DEF OthersFramed, ChannelsKept, Kept

\* A live message's generation, in a step that handles no confirm.
LEMMA LiveGeneration ==
    ASSUME CInv, ChannelsKept, NEW o \in Pending, o = Current(o[1]), pc[o[1]] \in Live
    PROVE  /\ Grows(pend[o].gen) /\ gens'[pend[o].gen].handled = gens[pend[o].gen].handled
           /\ gens[pend[o].gen].handled \in Nat /\ pend[o].gen \in 1 .. cur /\ pend[o].gen \in Gen
           /\ pend[o].tag \in Nat /\ pend[o] \in PendingMessage
<1>1. /\ pend[o].gen \in 1 .. cur /\ pend[o].gen \in Gen /\ pend[o].tag \in Nat
      /\ pend[o] \in PendingMessage /\ gens[pend[o].gen].handled \in Nat
  BY StateFacts, LiveFacts, GenerationFacts DEF CInv, Positions, Mine, IInv
<1>2. QED
  BY <1>1 DEF ChannelsKept, Kept, Idle

\* The publish that has not reached the broker is ahead of everything the broker answered.
LEMMA SendingAhead ==
    ASSUME CInv, NEW p \in Proc, pc[p] = "sending"
    PROVE  /\ Mine(p).gen = cur /\ Mine(p).tag > Len(gens[cur].sent)
           /\ Mine(p).tag > Len(gens[cur].verdicts) /\ Mine(p).tag > gens[cur].handled
<1>1. IInv /\ TagUsed /\ cur \in Gen /\ SoundGeneration(gens[cur], cur, cur, closed)
  BY StateFacts DEF CInv, Positions, Generations
<1>2. Mine(p).gen = cur /\ Mine(p).tag = gens[cur].published + 1
  BY <1>1, LiveFacts DEF Live
<1>3. ~Ahead(cur)
  BY <1>1, HolderFacts DEF InPublishMu
<1>4. /\ Len(gens[cur].sent) <= gens[cur].published
      /\ Len(gens[cur].verdicts) <= Len(gens[cur].sent)
      /\ gens[cur].handled <= Len(gens[cur].verdicts)
      /\ gens[cur].published \in Nat /\ gens[cur].handled \in Nat
      /\ Len(gens[cur].sent) \in Nat /\ Len(gens[cur].verdicts) \in Nat
  <2>1. /\ gens[cur].published \in Nat /\ Len(gens[cur].sent) \in Nat
        /\ Len(gens[cur].verdicts) \in Nat /\ gens[cur].handled \in Nat
    BY <1>1, CountFacts, GenerationFacts DEF IInv
  <2> DEFINE ahead == IF Ahead(cur) THEN 1 ELSE 0
  <2>2. /\ Len(gens[cur].sent) <= gens[cur].published + ahead
        /\ Len(gens[cur].verdicts) <= Len(gens[cur].sent)
    BY <1>1 DEF IInv, CountsAgree
  <2>3. gens[cur].handled <= Len(gens[cur].verdicts)
    BY <1>1 DEF SoundGeneration
  <2>4. ahead = 0
    BY <1>3
  <2>5. gens[cur].published + ahead = gens[cur].published
    BY <2>1, <2>4
  <2> HIDE DEF ahead
  <2>6. Len(gens[cur].sent) <= gens[cur].published
    BY <2>2, <2>5
  <2>7. QED
    BY <2>1, <2>2, <2>3, <2>6
<1>5. Mine(p).tag > Len(gens[cur].sent)
  BY <1>2, <1>4
<1>6. Mine(p).tag > Len(gens[cur].verdicts) /\ Mine(p).tag > gens[cur].handled
  <2>1. Mine(p).tag \in Nat
    BY <1>2, <1>4
  <2>2. QED
    BY <1>4, <1>5, <2>1
<1>7. QED
  BY <1>2, <1>5, <1>6

\* A live message that is undecided was confirmed, once its confirm is handled.
LEMMA LiveTruth ==
    ASSUME CInv, NEW o \in Pending, o = Current(o[1]), pc[o[1]] \in Live
    PROVE  /\ ~pend[o].CallbackFired /\ pend[o].tag <= gens[pend[o].gen].handled => pend[o].Confirmed
           /\ pend[o].gen \in 1 .. cur /\ pend[o].gen \in Gen /\ pend[o].tag \in Nat
           /\ gens[pend[o].gen].handled \in Nat
           /\ Undecided(pend[o]) /\ gens[pend[o].gen].dead =>
                  pend[o].tag > Len(gens[pend[o].gen].verdicts)
<1>1. /\ IInv /\ Truth(o) /\ o[1] \in Proc /\ Mine(o[1]) = pend[o]
      /\ pend[o].gen \in 1 .. cur /\ pend[o].gen \in Gen /\ pend[o].tag \in Nat
      /\ gens[pend[o].gen].handled \in Nat
      /\ SoundGeneration(gens[pend[o].gen], pend[o].gen, cur, closed)
  <2>1. IInv /\ TagUsed /\ Truth(o) /\ o[1] \in Proc /\ Mine(o[1]) = pend[o]
    BY StateFacts DEF CInv, Positions, Messages, MessageInv, Mine
  <2>2. pend[o].gen \in 1 .. cur /\ pend[o].gen \in Gen /\ pend[o].tag \in Nat
    BY <2>1, LiveFacts
  <2>3. gens[pend[o].gen].handled \in Nat
    BY <2>1, <2>2, GenerationFacts DEF IInv
  <2>4. QED
    BY <2>1, <2>2, <2>3 DEF CInv, Generations
<1>2. ~pend[o].CallbackFired /\ pend[o].tag <= gens[pend[o].gen].handled => pend[o].Confirmed
  <2>1. CASE pc[o[1]] = "sending"
    <3>1. pend[o].gen = cur /\ pend[o].tag > gens[cur].handled
      BY <1>1, <2>1, SendingAhead
    <3>2. QED
      BY <1>1, <3>1
  <2>2. CASE pc[o[1]] \in Sent
    BY <1>1, <2>2 DEF Truth
  <2>3. QED
    BY <2>1, <2>2 DEF Live, Sent
<1>3. ASSUME Undecided(pend[o]), gens[pend[o].gen].dead
      PROVE  pend[o].tag > Len(gens[pend[o].gen].verdicts)
  <2>1. ~(pend[o].tag <= gens[pend[o].gen].handled)
    BY <1>2, <1>3 DEF Undecided
  <2>2. gens[pend[o].gen].handled = Len(gens[pend[o].gen].verdicts)
    BY <1>1, <1>3 DEF SoundGeneration
  <2>3. QED
    BY <1>1, <2>1, <2>2
<1>4. QED
  BY <1>1, <1>2, <1>3

\* What is known of a message outlives a step that gives it no answer, even one that claims it
\* for its timeout.
LEMMA QuietTruth ==
    ASSUME CInv, ChannelsKept, cur' = cur, NEW o \in Pending, o = Current(o[1]), pc[o[1]] \in Live,
           pend'[o].gen = pend[o].gen, pend'[o].tag = pend[o].tag,
           pend'[o].Confirmed = pend[o].Confirmed, pend'[o].Nacked = pend[o].Nacked,
           pend'[o].Returned = pend[o].Returned, pend'[o].orphanDeferred = pend[o].orphanDeferred,
           pend'[o].grace # "off" => pend[o].grace # "off",
           ~pend'[o].CallbackFired => ~pend[o].CallbackFired,
           pend'[o].FinalOutcome = pend[o].FinalOutcome \/ pend'[o].FinalOutcome = "timedOut"
    PROVE  Truth(o)'
<1>1. /\ Grows(pend[o].gen) /\ gens'[pend[o].gen].handled = gens[pend[o].gen].handled
      /\ gens[pend[o].gen].handled \in Nat
  BY LiveGeneration
<1>2. gens'[pend[o].gen].handled \in Nat /\ gens[pend[o].gen].handled <= gens'[pend[o].gen].handled
  BY <1>1
<1>3. /\ pend'[o].FinalOutcome = "confirmed" => pend'[o].Confirmed
      /\ pend'[o].FinalOutcome = "nacked" => pend'[o].Nacked
      /\ pend'[o].FinalOutcome = "returned" => pend'[o].Returned
      /\ pend'[o].FinalOutcome = "orphaned" => pend[o].FinalOutcome = "orphaned"
      /\ pend'[o].grace # "off" => pend'[o].Confirmed
  BY DEF CInv, Messages, MessageInv, Truth
<1>4. ~pend'[o].CallbackFired /\ pend[o].tag <= gens'[pend[o].gen].handled => pend'[o].Confirmed
  BY <1>1, LiveTruth
<1>5. QED
  BY <1>1, <1>2, <1>3, <1>4, TruthStep

LEMMA TimeoutKeepsRest ==
    ASSUME CInv, NEW o \in Pending, HandleTimeout(o)
    PROVE  Rest'
<1>1. /\ IInv /\ Generations /\ TypeInv /\ ChannelsKept /\ NoNewOrphans
  BY OtherKeepsChannels, FewerOrphans DEF CInv, IInv, MessageStep
<1>2. /\ UNCHANGED <<byId, byTag, callbacks, pc, attempt, cur, closed>>
      /\ pend \in [Pending -> PendingMessage] /\ byTag \subseteq Pending
  BY <1>1, StateFacts DEF HandleTimeout, procVars, userVars, chanVars, closeVars
<1> DEFINE ran == [pend EXCEPT ![o].timer = "off"]
<1>3. /\ ran \in [Pending -> PendingMessage]
      /\ \A q \in Pending : /\ SameFields(ran[q], pend[q]) /\ SameOutcome(ran[q], pend[q])
                            /\ ran[q].grace = pend[q].grace
  BY <1>2 DEF PendingMessage, TimerState, SameFields, SameOutcome
<1> HIDE DEF ran
<1>4. CASE pend' = ran /\ stats' = stats
  <2>1. Still
    BY <1>2, <1>3, <1>4 DEF Still
  <2>2. QED
    BY <1>1, <1>2, <2>1, StillKeepsRest
<1>5. ASSUME NEW t \in byTag, pend' = [ran EXCEPT ![t].timeoutDeferred = TRUE], stats' = stats
      PROVE  Rest'
  <2>1. \A q \in Pending : /\ SameFields(pend'[q], ran[q]) /\ SameOutcome(pend'[q], ran[q])
                           /\ pend'[q].grace = ran[q].grace
    BY <1>3, <1>5 DEF PendingMessage, SameFields, SameOutcome
  <2>2. Still
    BY <1>2, <1>3, <1>5, <2>1 DEF Still, SameFields, SameOutcome
  <2>3. QED
    BY <1>1, <1>2, <2>2, StillKeepsRest
<1>6. ASSUME NEW t \in byTag, ~pend[t].CallbackFired, ~pend[t].inFlight,
             pend' = [ran EXCEPT ![t].CallbackFired = TRUE, ![t].FinalOutcome = "timedOut",
                                 ![t].finish = "pending"],
             stats' = Counting("timedOut")
      PROVE  Rest'
  <2>1. /\ t \in Pending /\ t = Current(t[1]) /\ pc[t[1]] \in Live /\ t[1] \in Proc
        /\ Truth(t)
    BY <1>1, <1>2, StateFacts DEF IInv, EntriesCurrent, Live, CInv, Messages, MessageInv
  <2>2. pc[t[1]] = "nil"
    BY <1>6, <2>1, UndecidedStored DEF Live
  <2>3. /\ \A q \in Pending : q # t => pend'[q] = ran[q]
        /\ SameFields(pend'[t], pend[t]) /\ pend'[t].grace = pend[t].grace
        /\ pend'[t].CallbackFired /\ pend'[t].FinalOutcome = "timedOut"
        /\ pend'[t].finish = "pending"
    BY <1>2, <1>3, <1>6, <2>1 DEF PendingMessage, SameFields
  <2>4. \A q \in Pending : q # t => Frame(q)
    BY <1>2, <1>3, <2>3 DEF Frame, Placed
  <2>5. OthersFramed(t) /\ \A g \in 1 .. cur : Grows(g)
    BY <1>1, <1>2, <2>1, <2>4, OthersQuiet
  <2>6. Truth(t)'
    BY <1>1, <1>2, <2>1, <2>3, QuietTruth DEF SameFields
  <2>7. "timedOut" \in Counted
    BY DEF Counted
  <2>8. /\ pc[t[1]] \in Live /\ pc'[t[1]] \in Sent /\ (pend'[t].inFlight <=> pc'[t[1]] = "sent")
        /\ pend'[t].gen = pend[t].gen
        /\ pend'[t].finish = "pending" /\ \A q \in Proc : q # t[1] => pc'[q] = pc[q]
        /\ UNCHANGED <<byId, byTag, callbacks, attempt>>
    BY <1>2, <1>6, <2>1, <2>2, <2>3 DEF Sent, SameFields
  <2>9. QED
    BY <1>1, <1>6, <2>1, <2>3, <2>5, <2>6, <2>7, <2>8, DecideKeepsRest
<1>7. QED
  BY <1>4, <1>5, <1>6 DEF HandleTimeout, AtKey, ran

LEMMA GraceKeepsRest ==
    ASSUME CInv, NEW o \in Pending, HandleGraceExpired(o)
    PROVE  Rest'
<1>1. /\ IInv /\ Generations /\ TypeInv /\ ChannelsKept /\ NoNewOrphans
      /\ MessageSound(o) /\ Truth(o) /\ Stored(o)
  BY OtherKeepsChannels, FewerOrphans DEF CInv, IInv, MessageStep, Messages, MessageInv
<1>2. /\ UNCHANGED <<byId, byTag, callbacks, pc, attempt, cur, closed>>
      /\ pend \in [Pending -> PendingMessage] /\ pend[o].grace = "firing"
  BY <1>1, StateFacts DEF HandleGraceExpired, procVars, userVars, chanVars, closeVars
<1> DEFINE ran == [pend EXCEPT ![o].grace = "off"]
<1>3. /\ ran \in [Pending -> PendingMessage]
      /\ \A q \in Pending : q # o => ran[q] = pend[q]
      /\ SameFields(ran[o], pend[o]) /\ SameOutcome(ran[o], pend[o]) /\ ran[o].grace = "off"
  BY <1>2 DEF PendingMessage, TimerState, SameFields, SameOutcome
<1>4. pend[o].Confirmed /\ o = Current(o[1]) /\ pc[o[1]] \in Sent
  BY <1>1, <1>2 DEF Truth, MessageSound
<1>5. ~pend[o].CallbackFired => o \in byTag /\ ~pend[o].Returned
  BY <1>4, UndecidedStored DEF Live, Sent
<1> HIDE DEF ran
<1>6. CASE pend' = ran /\ stats' = stats /\ pend[o].CallbackFired
  <2>1. Still
    BY <1>2, <1>3, <1>6 DEF Still, SameFields, SameOutcome
  <2>2. QED
    BY <1>1, <1>2, <2>1, StillKeepsRest
<1>7. CASE /\ ~pend[o].CallbackFired
           /\ pend' = [ran EXCEPT ![o].CallbackFired = TRUE, ![o].FinalOutcome = "confirmed",
                                  ![o].finish = "pending"]
           /\ stats' = Counting("confirmed")
  <2>1. pc[o[1]] \in Live
    BY <1>4 DEF Live, Sent
  <2>3. /\ \A q \in Pending : q # o => pend'[q] = pend[q]
        /\ SameFields(pend'[o], pend[o]) /\ pend'[o].grace = "off"
        /\ pend'[o].CallbackFired /\ pend'[o].FinalOutcome = "confirmed"
        /\ pend'[o].finish = "pending"
    BY <1>3, <1>7 DEF PendingMessage, SameFields
  <2>4. \A q \in Pending : q # o => Frame(q)
    BY <1>2, <2>3 DEF Frame, Placed, SameFields, SameOutcome
  <2>5. OthersFramed(o) /\ \A g \in 1 .. cur : Grows(g)
    BY <1>1, <1>2, <2>4, OthersQuiet
  <2>6. Truth(o)'
    <3>1. /\ Grows(pend[o].gen) /\ gens'[pend[o].gen].handled = gens[pend[o].gen].handled
          /\ gens[pend[o].gen].handled \in Nat /\ cur' = cur
      BY <1>1, <1>2, <1>4, <2>1, LiveGeneration
    <3>2. gens[pend[o].gen].handled <= gens'[pend[o].gen].handled
      BY <3>1
    <3>3. /\ pend'[o].gen = pend[o].gen /\ pend'[o].tag = pend[o].tag
          /\ pend'[o].Confirmed /\ pend[o].Confirmed /\ pend'[o].Nacked = pend[o].Nacked
          /\ pend'[o].Returned = pend[o].Returned
          /\ pend'[o].orphanDeferred = pend[o].orphanDeferred
      BY <1>4, <2>3 DEF SameFields
    <3>4. QED
      BY <1>4, <2>1, <2>3, <3>1, <3>2, <3>3, TruthStep
  <2>7. "confirmed" \in Counted
    BY DEF Counted
  <2>8. /\ pc'[o[1]] \in Sent /\ (pend'[o].inFlight <=> pc'[o[1]] = "sent")
        /\ pend'[o].gen = pend[o].gen
        /\ pend'[o].finish = "pending" /\ \A q \in Proc : q # o[1] => pc'[q] = pc[q]
        /\ UNCHANGED <<byId, byTag, callbacks, attempt>>
    BY <1>2, <1>4, <1>7, <2>1, <2>3, UndecidedStored DEF Sent, SameFields
  <2>9. QED
    BY <1>1, <1>4, <1>7, <2>1, <2>3, <2>5, <2>6, <2>7, <2>8, DecideKeepsRest
<1>8. QED
  BY <1>5, <1>6, <1>7 DEF HandleGraceExpired, ran

\* A still step of the sweep: what it leaves is known.
LEMMA StillSweepKeepsRest ==
    ASSUME CInv, Still, closed = "yes" => closed' = "yes",
           \A q \in Pending : Unanswered(q), \A q \in Pending : Swept(q)', Orphans'
    PROVE  Rest'
<1>1. /\ IInv /\ Positions /\ Generations /\ Messages /\ Index /\ Calls /\ StatsConserved
  BY DEF CInv
<1>2. Messages'
  <2> SUFFICES ASSUME NEW q \in Pending PROVE MessageInv(q)'
    BY DEF Messages
  <2>1. Frame(q)
    BY StateFacts, <1>1 DEF Still, Frame, Placed
  <2>2. QED
    BY <1>1, <2>1, FrameKeeps DEF MessageInv, Messages
<1>3. Index'
  BY <1>1 DEF Still, Index, IdOfMsg, CallOf
<1>4. Calls'
  BY <1>1, StillKeepsCalls
<1>5. StatsConserved'
  BY <1>1, StillUndone, StatsSame DEF Still
<1>6. QED
  BY <1>2, <1>3, <1>4, <1>5 DEF Rest

LEMMA CollectKeepsRest ==
    ASSUME CInv, NEW g \in Gen, CollectOrphans(g)
    PROVE  Rest'
<1>1. IInv /\ Generations /\ TypeInv /\ SoundGeneration(gens[g], g, cur, closed)
  BY DEF CInv, IInv, Generations
<1>2. /\ UNCHANGED <<pend, byId, byTag, stats, callbacks, pc, attempt, cur, closed>>
      /\ gens[g].confirmReader = "marked"
  BY DEF CollectOrphans, msgVars, procVars, userVars, closeVars
<1>3. /\ \A h \in 1 .. cur : Grows(h) /\ (h # g => Kept(h))
      /\ gens'[g].handled = gens[g].handled /\ gens'[g].dead = gens[g].dead
  BY <1>1, SweepChannels
<1>4. /\ gens'[g].orphans = {o \in Pending : byId[IdOfMsg(o)] = o /\ pend[o].gen = g}
      /\ \A h \in Gen : h # g => gens'[h] = gens[h]
  BY <1>1, StateFacts DEF CollectOrphans, Generation
<1>5. gens[g].dead
  BY <1>1, <1>2 DEF SoundGeneration
<1>6. Still
  BY <1>2 DEF Still, SameFields, SameOutcome
<1>7. ASSUME NEW q \in Pending PROVE Unanswered(q)
  BY <1>2, <1>3 DEF Unanswered, Kept, Idle
<1>8. ASSUME NEW q \in Pending PROVE Swept(q)'
  <2>1. CASE pend[q].gen = g
    <3> SUFFICES ASSUME q \in byTag, ~pend[q].CallbackFired PROVE q \in gens'[g].orphans
      BY <1>2, <2>1 DEF Swept
    <3>1. q = Current(q[1]) /\ pc[q[1]] \in Live
      BY <1>1 DEF IInv, EntriesCurrent, Live
    <3>2. byId[IdOfMsg(q)] = q
      BY <3>1, UndecidedStored
    <3>3. QED
      BY <1>4, <2>1, <3>2
  <2>2. CASE pend[q].gen # g
    <3>1. Frame(q)
      BY <1>2, SameMessage DEF Placed
    <3>2. Unswept(q)
      BY <1>3, <2>2 DEF Unswept, Kept, Idle
    <3>3. QED
      BY <1>1, <3>1, <3>2, SweptStays DEF CInv, Messages
  <2>3. QED
    BY <2>1, <2>2
<1>9. Orphans'
  <2> SUFFICES ASSUME NEW h \in Gen, NEW q \in gens'[h].orphans
               PROVE  gens'[h].dead /\ pend[q].gen = h /\ (~pend[q].CallbackFired => q \in byTag)
    BY <1>2 DEF Orphans
  <2>1. CASE h = g
    <3>1. q \in Pending /\ byId[IdOfMsg(q)] = q /\ pend[q].gen = g
      BY <1>4, <2>1
    <3>2. IdOfMsg(q) \in MsgId /\ q # None
      BY <1>1, <3>1, StateFacts, ConstantsOK, SentinelsOK DEF IdOfMsg, CallOf, Proc, Pending, Attempt
    <3>3. q \in byTag
      BY <3>1, <3>2 DEF CInv, Index
    <3>4. QED
      BY <1>3, <1>5, <2>1, <3>1, <3>3
  <2>2. CASE h # g
    BY <1>4, <2>2 DEF CInv, Orphans
  <2>3. QED
    BY <2>1, <2>2
<1>10. QED
  BY <1>2, <1>6, <1>7, <1>8, <1>9, StillSweepKeepsRest

LEMMA SettleKeepsRest ==
    ASSUME CInv, NEW g \in Gen, NEW o \in Pending, SettleOrphan(g, o)
    PROVE  Rest'
<1>1. /\ IInv /\ Generations /\ TypeInv /\ Orphans /\ MessageInv(o) /\ NoNewOrphans
      /\ SoundGeneration(gens[g], g, cur, closed) /\ pend[o] \in PendingMessage
  BY FewerOrphans, StateFacts DEF CInv, IInv, Generations, Messages
<1>2. /\ UNCHANGED <<byId, byTag, callbacks, pc, attempt, cur, closed>>
      /\ o \in gens[g].orphans
      /\ \A q \in Pending : q # o => pend'[q] = pend[q]
      /\ pend'[o] = IF ~Undecided(pend[o]) THEN pend[o]
                    ELSE IF pend[o].inFlight THEN [pend[o] EXCEPT !.orphanDeferred = TRUE]
                    ELSE Claim(pend[o], "orphaned")
      /\ stats' = IF Undecided(pend[o]) /\ ~pend[o].inFlight THEN Counting("orphaned") ELSE stats
  BY <1>1, StateFacts DEF SettleOrphan, procVars, userVars, closeVars
<1>3. /\ \A h \in 1 .. cur : Grows(h) /\ gens'[h].handled = gens[h].handled
      /\ gens'[g].handled = gens[g].handled
  BY <1>1, SweepChannels DEF Kept, Idle
<1>4. /\ gens'[g].orphans = gens[g].orphans \ {o}
      /\ gens'[g].confirmReader = gens[g].confirmReader
      /\ \A h \in Gen : h # g => gens'[h] = gens[h]
  BY <1>1, StateFacts DEF SettleOrphan, Generation
<1>5. gens[g].dead /\ pend[o].gen = g /\ (~pend[o].CallbackFired => o \in byTag)
  BY <1>1, <1>2 DEF Orphans
<1>6. ASSUME NEW q \in Pending PROVE Unanswered(q)
  BY <1>2, <1>3 DEF Unanswered
<1>7. ASSUME NEW q \in Pending, q # o PROVE Frame(q) /\ Unswept(q)
  <2>1. Frame(q)
    BY <1>2, <1>7, SameMessage DEF Placed
  <2>2. ASSUME pend[q].gen \in 1 .. cur
        PROVE  /\ gens'[pend[q].gen].confirmReader = gens[pend[q].gen].confirmReader
               /\ q \in gens[pend[q].gen].orphans => q \in gens'[pend[q].gen].orphans
    <3>1. pend[q].gen \in Gen
      BY <1>1, <2>2, GenerationFacts
    <3>2. QED
      BY <1>4, <1>7, <3>1
  <2>3. Unswept(q)
    BY <1>2, <2>2 DEF Unswept
  <2>4. QED
    BY <2>1, <2>3
<1>8. OthersFramed(o)
  BY <1>6, <1>7 DEF OthersFramed
<1>9. CASE ~Undecided(pend[o])
  <2>1. pend'[o] = pend[o] /\ stats' = stats
    BY <1>2, <1>9
  <2>2. Still
    BY <1>2, <2>1 DEF Still, SameFields, SameOutcome
  <2>3. ASSUME NEW q \in Pending PROVE Swept(q)'
    <3>1. CASE q = o
      <4>1. pend[o].CallbackFired \/ pend[o].Confirmed
        BY <1>1, <1>9 DEF Undecided, MessageInv, MessageSound
      <4>2. QED
        BY <2>1, <3>1, <4>1 DEF Swept
    <3>2. CASE q # o
      BY <1>1, <1>7, <3>2, SweptStays DEF CInv, Messages
    <3>3. QED
      BY <3>1, <3>2
  <2>4. Orphans'
    <3>1. StillClaimed
      BY <1>2, <2>1 DEF StillClaimed
    <3>2. QED
      BY <1>1, <1>3, <3>1, OrphansStay
  <2>5. QED
    BY <1>2, <1>6, <2>2, <2>3, <2>4, StillSweepKeepsRest
<1>10. ASSUME Undecided(pend[o])
       PROVE  /\ o = Current(o[1]) /\ pc[o[1]] \in Live /\ o \in byTag /\ o[1] \in Proc
              /\ ~pend[o].CallbackFired /\ ~pend[o].Confirmed
              /\ pend[o].tag > gens[g].handled
              /\ ~pend[o].Nacked /\ ~pend[o].Returned /\ pend[o].finish = "no"
              /\ pend[o].inFlight <=> pc[o[1]] \in {"sending", "sent"}
              /\ byId[IdOfMsg(o)] = o
  <2>1. ~pend[o].CallbackFired /\ ~pend[o].Confirmed /\ o \in byTag
    BY <1>5, <1>10 DEF Undecided
  <2>2. o = Current(o[1]) /\ pc[o[1]] \in Live /\ o[1] \in Proc
    BY <1>1, <2>1, StateFacts DEF IInv, EntriesCurrent, Live
  <2>3. pend[o].tag > gens[g].handled
    <3>1. pend[o].tag \in Nat /\ gens[g].handled \in Nat
      BY <1>1, GenerationFacts DEF PendingMessage
    <3>2. CASE pc[o[1]] = "sending"
      BY <1>5, <2>2, <3>2, SendingAhead DEF Mine
    <3>3. CASE pc[o[1]] \in Sent
      <4>1. ~(pend[o].tag <= gens[g].handled)
        BY <1>1, <1>5, <2>1, <2>2, <3>3 DEF MessageInv, Truth
      <4>2. QED
        BY <3>1, <4>1
    <3>4. QED
      BY <2>2, <3>2, <3>3 DEF Live, Sent
  <2>4. QED
    BY <2>1, <2>2, <2>3, UndecidedStored
<1>11. CASE Undecided(pend[o]) /\ pend[o].inFlight
  <2>1. /\ SameOutcome(pend'[o], pend[o]) /\ pend'[o].gen = g /\ pend'[o].tag = pend[o].tag
        /\ pend'[o].inFlight /\ pend'[o].orphanDeferred /\ pend'[o].grace = pend[o].grace
        /\ ~pend'[o].Confirmed /\ ~pend'[o].Nacked /\ ~pend'[o].Returned
        /\ ~pend'[o].CallbackFired /\ stats' = stats
    BY <1>1, <1>2, <1>5, <1>10, <1>11 DEF PendingMessage, SameOutcome
  <2>2. MessageSound(o)'
    <3>1. MessageSound(o) /\ o = Current(o[1])'
      BY <1>1, <1>2, <1>10, <1>11 DEF MessageInv, Current
    <3>2. QED
      BY <1>2, <1>10, <1>11, <2>1, <3>1 DEF MessageSound, SameOutcome
  <2>3. Truth(o)'
    <3>1. MessageSound(o) /\ Truth(o) /\ g \in 1 .. cur /\ Grows(g)
          /\ gens[g].handled \in Nat /\ pend[o].tag \in Nat
      BY <1>1, <1>3, <1>5, <1>10, <1>11, LiveFacts, GenerationFacts DEF MessageInv, CInv, Positions, Mine, PendingMessage
    <3>2. pend'[o].FinalOutcome = pend[o].FinalOutcome /\ pend'[o].FinalOutcome = "none"
      BY <1>10, <1>11, <2>1, <3>1 DEF MessageSound, SameOutcome
    <3>3. pend[o].grace = "off" /\ pend'[o].grace = "off"
      BY <1>10, <1>11, <2>1, <3>1 DEF Truth
    <3>4. ~(pend[o].tag <= gens'[g].handled) /\ gens[g].handled <= gens'[g].handled
          /\ gens'[g].handled \in Nat
      BY <1>3, <1>10, <1>11, <3>1
    <3>5. QED
      BY <1>2, <1>5, <1>10, <1>11, <2>1, <3>1, <3>2, <3>3, <3>4, TruthStep
  <2>4. Stored(o)' /\ Graced(o)' /\ Swept(o)' /\ Deferred(o)'
    BY <1>2, <1>10, <1>11, <2>1 DEF Stored, Graced, Swept, Deferred, IdOfMsg, CallOf
  <2>5. QED
    BY <1>1, <1>2, <1>3, <1>5, <1>8, <1>10, <1>11, <2>1, <2>2, <2>3, <2>4, TouchKeepsRest
       DEF MessageInv
<1>12. CASE Undecided(pend[o]) /\ ~pend[o].inFlight
  <2>1. "orphaned" \in Outcome /\ "orphaned" \in Counted
    BY DEF Outcome, Counted
  <2>2. /\ SameFields(pend'[o], pend[o]) /\ pend'[o].CallbackFired
        /\ pend'[o].FinalOutcome = "orphaned" /\ pend'[o].finish = "pending"
        /\ pend'[o].grace # "off" => pend[o].grace # "off"
    BY <1>1, <1>2, <1>12, <2>1, ClaimFields
  <2>3. Truth(o)'
    <3>1. Truth(o) /\ g \in 1 .. cur /\ Grows(g) /\ gens[g].handled \in Nat
      BY <1>1, <1>3, <1>5, <1>10, <1>12, LiveFacts, GenerationFacts DEF MessageInv, CInv, Positions, Mine
    <3>2. pend[o].tag > Len(gens[g].verdicts)
      BY <1>1, <1>5, <1>10, <1>12 DEF SoundGeneration
    <3>3. /\ pend'[o].gen = g /\ pend'[o].tag = pend[o].tag
          /\ ~pend'[o].Confirmed /\ ~pend'[o].Nacked /\ ~pend'[o].Returned
          /\ pend'[o].orphanDeferred = pend[o].orphanDeferred
      BY <1>5, <1>10, <1>12, <2>2 DEF SameFields
    <3>4. pend[o].grace = "off" /\ pend'[o].grace = "off"
      BY <1>10, <1>12, <2>2, <3>1 DEF Truth
    <3>5. gens'[g].handled \in Nat /\ gens[g].handled <= gens'[g].handled
      BY <1>3, <3>1
    <3>6. QED
      BY <1>2, <1>5, <1>10, <1>12, <2>2, <3>1, <3>2, <3>3, <3>4, <3>5, TruthStep
  <2>4. pc[o[1]] = "nil" /\ pc'[o[1]] \in Sent /\ (pend'[o].inFlight <=> pc'[o[1]] = "sent")
    BY <1>2, <1>10, <1>12, <2>2 DEF Live, Sent, SameFields
  <2>5. stats' = Counting("orphaned") /\ pend'[o].gen = pend[o].gen
        /\ \A q \in Proc : q # o[1] => pc'[q] = pc[q]
    BY <1>2, <1>12, <2>2 DEF SameFields
  <2>6. QED
    BY <1>1, <1>2, <1>3, <1>8, <1>10, <1>12, <2>1, <2>2, <2>3, <2>4, <2>5, DecideKeepsRest
<1>13. QED
  BY <1>9, <1>11, <1>12

\* A returned ID is that of one message: the one the broker bounced.
LEMMA ReturnedMessage ==
    ASSUME DistinctIds, CInv, NEW g \in Gen, gens[g].returns # <<>>,
           NEW o \in Pending, Unsettled(o), IdOfMsg(o) = Head(gens[g].returns)
    PROVE  pend[o].gen = g /\ pend[o].tag \in gens[g].bounced /\ pc[o[1]] \in Sent
<1>1. /\ IInv /\ Chain /\ SentBy /\ Messages
      /\ SoundGeneration(gens[g], g, cur, closed)
  BY DEF CInv, Positions, Generations, Calls
<1>2. /\ gens[g].returns \in Seq(MsgId) /\ Len(gens[g].returns) \in Nat
      /\ Len(gens[g].returns) # 0 /\ Head(gens[g].returns) = gens[g].returns[1]
  BY <1>1, GenerationFacts, EmptySeq DEF IInv
<1>3. 1 \in 1 .. Len(gens[g].returns)
  BY <1>2
<1>4. PICK t \in gens[g].bounced : IdOf[gens[g].sent[t]] = gens[g].returns[1]
  BY <1>1, <1>3 DEF SoundGeneration
<1>5. t \in 1 .. Len(gens[g].sent) /\ (t <= Len(gens[g].verdicts) => gens[g].verdicts[t])
  BY <1>1 DEF SoundGeneration
<1>6. PICK p \in Proc : p[1] = gens[g].sent[t] /\ pc[p] \in Sent /\ KeyOf(Current(p)) = <<g, t>>
  BY <1>1, <1>5 DEF SentBy
<1>7. Mine(p).gen = g /\ Mine(p).tag = t /\ Current(p) \in Pending
  BY <1>1, <1>6, StateFacts, CurrentType DEF KeyOf, Mine
<1>8. ~Spent(p)
  <2> SUFFICES ASSUME Mine(p).Nacked PROVE FALSE
    BY DEF Spent
  <2>1. t <= gens[g].handled /\ ~gens[g].verdicts[t]
    BY <1>1, <1>7 DEF Messages, MessageInv, Truth, Mine
  <2>2. /\ t \in Nat /\ gens[g].handled \in Nat /\ Len(gens[g].verdicts) \in Nat
        /\ gens[g].handled <= Len(gens[g].verdicts)
    BY <1>1, <1>5, GenerationFacts DEF IInv, SoundGeneration
  <2>3. QED
    BY <1>5, <2>1, <2>2
<1>9. pc[p] # "idle" /\ IdOfMsg(o) = IdOf[p[1]]
  BY <1>2, <1>4, <1>6 DEF Sent
<1>10. o = Current(p)
  BY <1>1, <1>8, <1>9, OwnId
<1>11. QED
  BY <1>6, <1>7, <1>10 DEF Mine, Current

LEMMA ReturnKeepsRest ==
    ASSUME DistinctIds, CInv, NEW g \in Gen, HandleReturn(g)
    PROVE  Rest'
<1>1. IInv /\ Index /\ Generations /\ TypeInv /\ ChannelsKept /\ NoNewOrphans /\ Messages
  BY ReaderKeepsChannels, FewerOrphans DEF CInv, IInv
<1>2. /\ UNCHANGED <<byId, byTag, cur, attempt, callbacks, closed>>
      /\ \A p \in Proc : pc'[p] = pc[p]
      /\ gens[g].returns # <<>>
  BY <1>1, ReturnEffect
<1>3. CASE pend' = pend /\ stats' = stats
  <2>1. Still
    BY <1>2, <1>3 DEF Still, SameFields, SameOutcome
  <2>2. QED
    BY <1>1, <1>2, <2>1, StillKeepsRest
<1>4. ASSUME NEW o \in byTag,
             IdOfMsg(o) = Head(gens[g].returns), byId[IdOfMsg(o)] = o,
             o \in Pending, o = Current(o[1]), pc[o[1]] \in Live,
             ~pend[o].CallbackFired, ~pend[o].Nacked,
             TryFinalizeMessage(o, Bounced(pend[o]))
      PROVE  Rest'
  <2> DEFINE m == Bounced(pend[o])
  <2>1. Unsettled(o)
    BY <1>4 DEF Unsettled
  <2>2. pend[o].gen = g /\ pend[o].tag \in gens[g].bounced /\ pc[o[1]] \in Sent
    BY <1>2, <1>4, <2>1, ReturnedMessage
  <2>3. /\ m \in PendingMessage /\ m.gen = pend[o].gen /\ m.tag = pend[o].tag
        /\ m.grace = pend[o].grace /\ m.inFlight = pend[o].inFlight
        /\ m.orphanDeferred = pend[o].orphanDeferred /\ m.Confirmed = pend[o].Confirmed
        /\ m.Nacked = pend[o].Nacked /\ m.Returned /\ SameOutcome(m, pend[o])
    BY <1>1, <1>4, StateFacts, BouncedFields
  <2> HIDE DEF m
  <2>4. FinalOutcome(o, m) = "returned" /\ ~Retries(o, m)
    BY <1>4, <2>3 DEF FinalOutcome, Retries
  <2>5. /\ \A q \in Pending : q # o => pend'[q] = pend[q]
        /\ SameFields(pend'[o], m)
        /\ pend'[o].CallbackFired /\ pend'[o].FinalOutcome = "returned"
        /\ (pend'[o].grace # "off" => m.grace # "off")
        /\ stats' = Counting("returned") /\ pend'[o].finish = "pending"
    <3>1. TryFinalizeMessage(o, m) /\ m.CallbackFired = pend[o].CallbackFired
      BY <1>4, <2>3 DEF m, SameOutcome
    <3>2. FinalOutcome(o, m) # "none"
      BY <2>4
    <3>3. QED
      BY <1>1, <1>4, <2>3, <2>4, <3>1, <3>2, FinalizeEffect
  <2>6. \A q \in Pending : q # o => Frame(q)
    BY <1>1, <1>2, <2>5, StateFacts, SameMessage DEF Placed
  <2>7. OthersFramed(o) /\ \A h \in 1 .. cur : Grows(h)
    BY <1>1, <1>2, <1>4, <2>6, OthersQuiet
  <2>8. Truth(o)'
    <3>1. /\ Truth(o) /\ MessageSound(o) /\ Grows(pend[o].gen)
          /\ gens'[pend[o].gen].handled = gens[pend[o].gen].handled
          /\ gens[pend[o].gen].handled \in Nat
      BY <1>1, <1>4, LiveGeneration DEF Messages, MessageInv
    <3>2. gens[pend[o].gen].handled <= gens'[pend[o].gen].handled
          /\ gens'[pend[o].gen].handled \in Nat
      BY <3>1
    <3>3. /\ pend'[o].gen = pend[o].gen /\ pend'[o].tag = pend[o].tag
          /\ pend'[o].Confirmed = pend[o].Confirmed /\ pend'[o].Nacked = pend[o].Nacked
          /\ pend'[o].orphanDeferred = pend[o].orphanDeferred /\ pend'[o].Returned
          /\ pend'[o].grace # "off" => pend[o].grace # "off"
      BY <2>3, <2>5 DEF SameFields
    <3>4. pend'[o].grace # "off" => pend'[o].Confirmed
      BY <3>1, <3>3 DEF Truth
    <3>5. QED
      BY <1>2, <1>4, <2>2, <2>5, <3>1, <3>2, <3>3, <3>4, TruthStep
  <2>9. /\ "returned" \in Counted /\ pend'[o].gen = pend[o].gen /\ pc'[o[1]] \in Sent
        /\ pend'[o].inFlight <=> pc'[o[1]] = "sent"
        /\ \A q \in Proc : q # o[1] => pc'[q] = pc[q]
    <3>1. pend[o].inFlight <=> pc[o[1]] \in {"sending", "sent"}
      BY <1>4, UndecidedStored
    <3>2. o[1] \in Proc
      BY <1>1, <1>4, StateFacts
    <3>3. QED
      BY <1>2, <2>2, <2>3, <2>5, <3>1, <3>2 DEF Counted, Sent, SameFields
  <2>10. QED
    BY <1>1, <1>2, <1>4, <2>5, <2>7, <2>8, <2>9, DecideKeepsRest
<1>5. QED
  BY <1>1, <1>3, <1>4, ReturnEffect

\* Only the message at the confirm's key was waiting for it.
LEMMA ConfirmUnanswered ==
    ASSUME CInv, NEW g \in Gen, HandleConfirmation(g),
           NEW q \in Pending, q \notin AtKey(<<g, gens[g].handled + 1>>)
    PROVE  Unanswered(q)
<1>1. /\ \A h \in 1 .. cur : Grows(h) /\ (h # g => Kept(h))
      /\ gens'[g].handled = gens[g].handled + 1 /\ cur' = cur
  <2>1. IInv /\ Generations /\ TypeInv
    BY DEF CInv, IInv
  <2>2. QED
    BY <2>1, ConfirmationChannels, ConfirmationEffect
<1>2. ASSUME q = Current(q[1]), pc[q[1]] \in Sent, ~pend[q].CallbackFired, pend[q].gen = g,
             pend[q].tag <= gens[g].handled + 1
      PROVE  pend[q].tag <= gens[g].handled
  <2>1. q \in byTag
    BY <1>2, UndecidedStored DEF Live, Sent
  <2>2. pend[q].tag # gens[g].handled + 1
    BY <1>2, <2>1 DEF AtKey, KeyOf
  <2>3. pend[q].tag \in Nat /\ gens[g].handled \in Nat
    BY StateFacts, GenerationFacts DEF CInv, IInv, PendingMessage
  <2>4. QED
    BY <1>2, <2>2, <2>3
<1>3. CASE pend[q].gen = g
  BY <1>1, <1>2, <1>3 DEF Unanswered
<1>4. CASE pend[q].gen # g
  BY <1>1, <1>4 DEF Unanswered, Kept, Idle
<1>5. QED
  BY <1>3, <1>4

LEMMA ConfirmUnswept ==
    ASSUME CInv, NEW g \in Gen, HandleConfirmation(g), NEW q \in Pending
    PROVE  Unswept(q)
<1>1. IInv /\ Generations /\ TypeInv
  BY DEF CInv, IInv
<1>2. /\ \A h \in 1 .. cur : h # g => Kept(h)
      /\ gens'[g].orphans = gens[g].orphans /\ gens'[g].confirmReader = "running"
  BY <1>1, ConfirmationChannels
<1>3. QED
  BY <1>2 DEF Unswept, Kept, Idle

\* A confirm for a message that is gone.
LEMMA LateConfirmKeepsRest ==
    ASSUME CInv, NEW g \in Gen, HandleConfirmation(g),
           AtKey(<<g, gens[g].handled + 1>>) = {}, pend' = pend, stats' = stats, pc' = pc
    PROVE  Rest'
<1>1. IInv /\ Generations /\ TypeInv /\ Orphans /\ NoNewOrphans /\ Messages
  BY FewerOrphans DEF CInv, IInv
<1>2. /\ UNCHANGED <<byId, byTag, cur, attempt, callbacks, closed>>
      /\ \A h \in 1 .. cur : Grows(h)
  BY <1>1, ConfirmationEffect, ConfirmationChannels
<1>3. Still
  BY <1>2 DEF Still, SameFields, SameOutcome
<1>4. \A q \in Pending : Unanswered(q)
  BY ConfirmUnanswered
<1>5. ASSUME NEW q \in Pending PROVE Swept(q)'
  <2>1. Frame(q)
    BY <1>2, SameMessage DEF Placed
  <2>2. QED
    BY <1>1, <2>1, ConfirmUnswept, SweptStays DEF Messages
<1>6. Orphans'
  <2>1. StillClaimed
    BY <1>2 DEF StillClaimed
  <2>2. QED
    BY <1>1, <1>2, <2>1, OrphansStay
<1>7. QED
  BY <1>2, <1>3, <1>4, <1>5, <1>6, StillSweepKeepsRest

LEMMA ConfirmKeepsRest ==
    ASSUME CInv, NEW g \in Gen, HandleConfirmation(g)
    PROVE  Rest'
<1> DEFINE tag == gens[g].handled + 1
           ack == gens[g].verdicts[tag]
<1>1. /\ IInv /\ Positions /\ Generations /\ TypeInv /\ Orphans /\ NoNewOrphans /\ Messages
  BY FewerOrphans DEF CInv, IInv
<1>2. /\ UNCHANGED <<byId, byTag, cur, attempt, callbacks, closed>>
      /\ tag \in 1 .. Len(gens[g].verdicts) /\ ack \in BOOLEAN
      /\ \A h \in 1 .. cur : Grows(h)
      /\ gens'[g].handled = tag /\ gens[g].handled \in Nat
      /\ gens'[g].verdicts = gens[g].verdicts
  BY <1>1, ConfirmationEffect, ConfirmationChannels, GenerationFacts
<1>3. CASE AtKey(<<g, tag>>) = {} /\ pend' = pend /\ stats' = stats /\ pc' = pc
  BY <1>3, LateConfirmKeepsRest
<1>4. ASSUME NEW o \in AtKey(<<g, tag>>),
             o \in Pending, o \in byTag, o = Current(o[1]), pc[o[1]] \in Sent,
             TryFinalizeMessage(o, Answered(pend[o], ack))
      PROVE  Rest'
  <2> DEFINE m == Answered(pend[o], ack)
  <2>1. /\ pend[o].gen = g /\ pend[o].tag = tag /\ o[1] \in Proc /\ pc[o[1]] \in Live
        /\ pend[o] \in PendingMessage
    BY <1>1, <1>4, StateFacts DEF AtKey, KeyOf, Live, Sent
  <2>2. /\ m \in PendingMessage /\ m.gen = pend[o].gen /\ m.tag = pend[o].tag
        /\ m.grace = pend[o].grace /\ m.inFlight = pend[o].inFlight
        /\ m.orphanDeferred = pend[o].orphanDeferred
        /\ m.Confirmed = (pend[o].Confirmed \/ ack) /\ m.Nacked = (pend[o].Nacked \/ ~ack)
        /\ m.Returned = pend[o].Returned /\ SameOutcome(m, pend[o])
    BY <1>2, <2>1, AnsweredFields
  <2>3. TryFinalizeMessage(o, m) /\ m.CallbackFired = pend[o].CallbackFired
    BY <1>4, <2>2 DEF SameOutcome
  <2> HIDE DEF m
  <2>4. /\ \A q \in Pending : q # o => pend'[q] = pend[q]
        /\ SameFields(pend'[o], m)
        /\ \A p \in Proc : pc'[p] = pc[p] \/ (p = NextRetry(o) /\ pc[p] = "idle" /\ pc'[p] = "backoff")
    BY <1>1, <1>4, <2>2, <2>3, FinalizeEffect
  <2>5. pc'[o[1]] = pc[o[1]]
    BY <1>4, <2>1, <2>4 DEF Sent
  <2>6. OthersFramed(o)
    <3> SUFFICES ASSUME NEW q \in Pending, q # o PROVE Frame(q) /\ Unanswered(q) /\ Unswept(q)
      BY DEF OthersFramed
    <3>1. q \notin AtKey(<<g, tag>>)
      <4> SUFFICES ASSUME q \in AtKey(<<g, tag>>) PROVE FALSE
        OBVIOUS
      <4>1. q = Current(q[1]) /\ pc[q[1]] \in Live /\ q[1] \in Proc /\ KeyOf(q) = KeyOf(o)
        BY <1>1, <1>4, StateFacts DEF AtKey, IInv, EntriesCurrent, Live
      <4>2. q[1] = o[1]
        BY <1>1, <1>4, <2>1, <4>1 DEF Positions, KeysUnique
      <4>3. QED
        BY <1>4, <4>1, <4>2
    <3>2. Placed(q)
      <4>1. q[1] \in Proc /\ attempt'[q[1]] = attempt[q[1]]
        BY <1>1, <1>2, StateFacts
      <4>2. QED
        BY <2>4, <4>1 DEF Placed, Busy, Live
    <3>3. Frame(q)
      BY <1>2, <2>4, <3>2, SameMessage
    <3>4. QED
      BY <3>1, <3>3, ConfirmUnanswered, ConfirmUnswept
  <2>7. /\ pend'[o].gen = g /\ pend'[o].tag = tag /\ pend'[o].inFlight = pend[o].inFlight
        /\ pend'[o].orphanDeferred = pend[o].orphanDeferred
        /\ pend'[o].Confirmed = (pend[o].Confirmed \/ ack)
        /\ pend'[o].Nacked = (pend[o].Nacked \/ ~ack)
        /\ pend'[o].Returned = pend[o].Returned
    BY <2>1, <2>2, <2>4 DEF SameFields
  <2>8. /\ Truth(o) /\ MessageSound(o) /\ Stored(o) /\ gens[g].verdicts[tag] = ack
        /\ g \in 1 .. cur /\ Grows(g)
        /\ gens'[g].handled \in Nat /\ gens[g].handled <= gens'[g].handled
        /\ tag <= gens'[g].handled
    <3>1. Truth(o) /\ MessageSound(o) /\ Stored(o)
      BY <1>1, <1>4 DEF Messages, MessageInv
    <3>2. g \in 1 .. cur /\ Grows(g)
      BY <1>1, <1>2, ConfirmationChannels
    <3>3. QED
      BY <1>2, <3>1, <3>2
  <2>9. ASSUME /\ pend'[o].FinalOutcome = "confirmed" => pend'[o].Confirmed
               /\ pend'[o].FinalOutcome = "nacked" => pend'[o].Nacked
               /\ pend'[o].FinalOutcome = "returned" => pend'[o].Returned
               /\ pend'[o].FinalOutcome = "orphaned" => pend[o].FinalOutcome = "orphaned"
               /\ pend'[o].grace # "off" => pend'[o].Confirmed
               /\ ~pend'[o].CallbackFired => pend'[o].Confirmed
        PROVE  Truth(o)'
    BY <1>2, <1>4, <2>1, <2>7, <2>8, <2>9, TruthStep
  <2>10. \A q \in Proc : q # o[1] /\ q # NextRetry(o) => pc'[q] = pc[q]
    BY <2>4
  <2>11. CASE pend[o].CallbackFired
    <3>1. pend'[o] = m /\ stats' = stats /\ \A p \in Proc : pc'[p] = pc[p]
      BY <1>1, <1>4, <2>2, <2>3, <2>11, FinalizeEffect
    <3>2. SameOutcome(pend'[o], pend[o]) /\ pend'[o].grace = pend[o].grace
      BY <2>2, <3>1
    <3>3. Truth(o)'
      BY <2>7, <2>8, <2>9, <2>11, <3>2 DEF Truth, SameOutcome
    <3>4. MessageSound(o)'
      <4>1. o = Current(o[1])' /\ pc'[o[1]] \in Sent /\ pc'[o[1]] = pc[o[1]]
        BY <1>2, <1>4, <2>5 DEF Current
      <4>2. pend'[o].CallbackFired
        BY <2>11, <3>2 DEF SameOutcome
      <4>3. QED
        BY <1>2, <2>7, <2>8, <4>1, <4>2 DEF MessageSound, Sent
    <3>5. Stored(o)' /\ Graced(o)' /\ Swept(o)' /\ Deferred(o)'
      <4>1. pend'[o].CallbackFired /\ pend'[o].finish = pend[o].finish
        BY <2>11, <3>2 DEF SameOutcome
      <4>2. Stored(o)'
        BY <1>2, <1>4, <2>1, <2>8, <4>1 DEF Stored, Unsettled, IdOfMsg, CallOf
      <4>3. QED
        BY <4>1, <4>2 DEF Graced, Swept, Deferred
    <3>6. MessageInv(o)'
      BY <3>3, <3>4, <3>5 DEF MessageInv
    <3>7. QED
      BY <1>1, <1>2, <1>4, <2>1, <2>5, <2>6, <2>7, <3>1, <3>2, <3>6, TouchKeepsRest
  <2>12. CASE ~pend[o].CallbackFired /\ FinalOutcome(o, m) = "none"
    <3>1. /\ SameOutcome(pend'[o], pend[o]) /\ pend'[o].grace = "armed"
          /\ stats' = stats /\ \A p \in Proc : pc'[p] = pc[p]
      <4>1. SameOutcome(pend'[o], m) /\ pend'[o].grace = "armed"
            /\ stats' = stats /\ \A p \in Proc : pc'[p] = pc[p]
        BY <1>1, <1>4, <2>2, <2>3, <2>12, FinalizeEffect
      <4>2. QED
        BY <2>2, <4>1 DEF SameOutcome
    <3>2. ~m.Nacked
      BY <2>12 DEF FinalOutcome
    <3>3. ack /\ pend'[o].Confirmed /\ ~pend'[o].Nacked
      BY <2>2, <2>7, <3>2
    <3>4. ~pend'[o].Returned /\ ~pend'[o].CallbackFired
      BY <2>7, <2>8, <2>12, <3>1 DEF MessageSound, SameOutcome
    <3>5. Truth(o)'
      BY <2>7, <2>8, <2>9, <2>12, <3>1, <3>3 DEF Truth, SameOutcome
    <3>6. MessageSound(o)'
      <4>1. o = Current(o[1])' /\ pc'[o[1]] \in Sent /\ pc'[o[1]] = pc[o[1]]
        BY <1>2, <1>4, <2>5 DEF Current
      <4>2. QED
        BY <1>2, <2>7, <2>8, <3>1, <3>3, <3>4, <4>1 DEF MessageSound, Sent, SameOutcome
    <3>7. Stored(o)' /\ Graced(o)' /\ Swept(o)' /\ Deferred(o)'
      <4>1. byTag' = byTag /\ byId'[IdOfMsg(o)] = o
        BY <1>2, <1>4, <2>1, <2>12, UndecidedStored
      <4>2. Stored(o)'
        BY <1>4, <4>1 DEF Stored, IdOfMsg, CallOf
      <4>3. QED
        BY <3>1, <3>3, <4>2 DEF Graced, Swept, Deferred
    <3>8. MessageInv(o)'
      BY <3>5, <3>6, <3>7 DEF MessageInv
    <3>9. QED
      BY <1>1, <1>2, <1>4, <2>1, <2>5, <2>6, <2>7, <3>1, <3>8, TouchKeepsRest
  <2>13. CASE ~pend[o].CallbackFired /\ FinalOutcome(o, m) # "none"
    <3>1. /\ pend'[o].CallbackFired /\ pend'[o].FinalOutcome = FinalOutcome(o, m)
          /\ (pend'[o].grace # "off" => pend[o].grace # "off")
          /\ stats' = Counting(FinalOutcome(o, m))
          /\ IF Retries(o, m)
             THEN /\ pend'[o].finish = "no"
                  /\ NextRetry(o) \in Proc /\ pc'[NextRetry(o)] = "backoff"
             ELSE pend'[o].finish = "pending" /\ \A p \in Proc : pc'[p] = pc[p]
      BY <1>1, <1>4, <2>2, <2>3, <2>13, FinalizeEffect
    <3>2. /\ FinalOutcome(o, m) \in {"nacked", "returned", "confirmed"}
          /\ FinalOutcome(o, m) = "nacked" => m.Nacked
          /\ FinalOutcome(o, m) = "returned" => m.Returned
          /\ FinalOutcome(o, m) = "confirmed" => m.Confirmed
      BY <2>13 DEF FinalOutcome
    <3>3. Truth(o)'
      <4>1. pend'[o].grace # "off" => pend'[o].Confirmed
        BY <2>7, <2>8, <3>1 DEF Truth
      <4>2. QED
        BY <2>2, <2>7, <2>9, <3>1, <3>2, <4>1
    <3>4. \/ pend'[o].finish = "pending" /\ \A q \in Proc : q # o[1] => pc'[q] = pc[q]
          \/ /\ pend'[o].finish = "no" /\ pend'[o].Nacked /\ pc'[o[1]] = pc[o[1]]
             /\ RetryOf(o) < MaxRetryAttempts /\ pc'[NextRetry(o)] = "backoff"
             /\ \A q \in Proc : q # NextRetry(o) => pc'[q] = pc[q]
      BY <2>2, <2>5, <2>7, <2>10, <3>1 DEF Retries
    <3>5. pc'[o[1]] \in Sent /\ (pend'[o].inFlight <=> pc'[o[1]] = "sent")
      <4>1. pend[o].inFlight <=> pc[o[1]] \in {"sending", "sent"}
        BY <1>4, <2>1, <2>13, UndecidedStored
      <4>2. QED
        BY <1>4, <2>5, <2>7, <4>1 DEF Sent
    <3>6. FinalOutcome(o, m) \in Counted /\ pend'[o].gen = pend[o].gen
      BY <2>1, <2>7, <3>2 DEF Counted
    <3>7. QED
      BY <1>1, <1>2, <1>4, <2>1, <2>6, <2>13, <3>1, <3>3, <3>4, <3>5, <3>6, DecideKeepsRest
  <2>14. QED
    BY <2>11, <2>12, <2>13
<1>5. QED
  BY <1>1, <1>3, <1>4, ConfirmationEffect

LEMMA SweptTouched ==
    ASSUME NEW o \in Pending, Swept(o), Unswept(o), pend[o].gen \in 1 .. cur,
           pend'[o].gen = pend[o].gen, pend'[o].orphanDeferred = pend[o].orphanDeferred,
           pend'[o].Confirmed = pend[o].Confirmed,
           pend'[o].CallbackFired = pend[o].CallbackFired, o \in byTag' => o \in byTag
    PROVE  Swept(o)'
<1> SUFFICES ASSUME o \in byTag', ~pend'[o].CallbackFired,
                    gens'[pend'[o].gen].confirmReader = "done", closed' = "no"
             PROVE  \/ o \in gens'[pend'[o].gen].orphans
                    \/ pend'[o].orphanDeferred \/ pend'[o].Confirmed
  BY DEF Swept
<1>1. /\ gens[pend[o].gen].confirmReader = "done" /\ closed = "no"
      /\ o \in gens[pend[o].gen].orphans => o \in gens'[pend[o].gen].orphans
  BY DEF Unswept
<1>2. QED
  BY <1>1 DEF Swept

\* What one process of a call does leaves the messages of all other attempts alone.
LEMMA OneProcess ==
    ASSUME CInv, ChannelsKept, cur' = cur, closed' = closed, attempt' = attempt, NEW p \in Proc,
           \A q \in Proc : q # p => pc'[q] = pc[q],
           \A q \in Pending : q # Current(p) => pend'[q] = pend[q],
           byTag' = byTag, byId' = byId
    PROVE  OthersFramed(Current(p)) /\ \A g \in 1 .. cur : Grows(g)
<1>1. IInv
  BY DEF CInv
<1>2. ASSUME NEW q \in Pending, q # Current(p) PROVE Frame(q)
  <2>1. q[1] \in Proc /\ attempt'[q[1]] = attempt[q[1]]
    BY <1>1, StateFacts
  <2>2. Placed(q)
    <3>1. CASE q[1] = p
      BY <1>2, <2>1, <3>1 DEF Placed
    <3>2. CASE q[1] # p
      BY <2>1, <3>2 DEF Placed
    <3>3. QED
      BY <3>1, <3>2
  <2>3. QED
    BY <1>2, <2>2, SameMessage
<1>3. Current(p) \in Pending
  BY <1>1, StateFacts, CurrentType
<1>4. QED
  BY <1>1, <1>2, <1>3, OthersQuiet

LEMMA ReachKeepsRest ==
    ASSUME CInv, NEW p \in Proc, SendReachesBroker(p)
    PROVE  Rest'
<1> SUFFICES ASSUME NEW o \in Pending, o = Current(p) PROVE Rest'
  BY StateFacts, CurrentType DEF CInv
<1>1. /\ IInv /\ Generations /\ TypeInv /\ ChannelsKept /\ NoNewOrphans
      /\ o \in Pending /\ o = Current(o[1]) /\ o[1] = p /\ MessageInv(o)
  <2>1. IInv /\ Generations /\ TypeInv
    BY DEF CInv, IInv
  <2>2. o \in Pending /\ o = Current(o[1]) /\ o[1] = p
    BY DEF Current
  <2>3. QED
    BY <2>1, <2>2, PublishKeepsChannels, FewerOrphans DEF CInv, Messages, PublishStep
<1>2. /\ UNCHANGED <<pend, byId, byTag, cur, attempt, callbacks, closed, stats>>
      /\ pc[p] = "sending" /\ pc'[p] = "sent" /\ \A q \in Proc : q # p => pc'[q] = pc[q]
  BY <1>1, StateFacts DEF SendReachesBroker, msgVars, userVars, closeVars
<1>3. OthersFramed(o) /\ \A g \in 1 .. cur : Grows(g)
  BY <1>1, <1>2, OneProcess
<1>4. pc[o[1]] \in Live
  BY <1>1, <1>2 DEF Live
<1>5. MessageSound(o)'
  <2>1. /\ MessageSound(o) /\ Current(o[1])' = Current(o[1]) /\ pc[o[1]] = "sending"
        /\ pc'[o[1]] = "sent"
    BY <1>1, <1>2 DEF MessageInv, Current
  <2>2. QED
    BY <1>1, <1>2, <2>1 DEF MessageSound, Sent
<1>6. Truth(o)'
  <2>1. /\ Grows(pend[o].gen) /\ gens'[pend[o].gen].handled = gens[pend[o].gen].handled
        /\ gens[pend[o].gen].handled \in Nat
    BY <1>1, <1>4, LiveGeneration
  <2>2. gens[pend[o].gen].handled <= gens'[pend[o].gen].handled
    BY <2>1
  <2>3. Truth(o)
    BY <1>1 DEF MessageInv
  <2>4. ~pend[o].CallbackFired /\ pend[o].tag <= gens[pend[o].gen].handled => pend[o].Confirmed
    BY <1>1, <1>4, LiveTruth
  <2>5. /\ pend[o].FinalOutcome = "confirmed" => pend[o].Confirmed
        /\ pend[o].FinalOutcome = "nacked" => pend[o].Nacked
        /\ pend[o].FinalOutcome = "returned" => pend[o].Returned
        /\ pend[o].grace # "off" => pend[o].Confirmed
    BY <2>3 DEF Truth
  <2>6. QED
    BY <1>1, <1>2, <1>4, <2>1, <2>2, <2>4, <2>5, TruthStep
<1>7. Swept(o)'
  <2>1. pend[o].gen \in 1 .. cur
    BY <1>1, <1>4, LiveTruth
  <2>2. Swept(o) /\ Unswept(o)
    BY <1>1, <1>2, QuietGeneration DEF MessageInv
  <2>3. QED
    BY <1>1, <1>2, <2>1, <2>2, SweptTouched
<1>8. Stored(o)' /\ Graced(o)' /\ Deferred(o)'
  <2>1. Stored(o)'
    BY <1>1, <1>2, <1>4 DEF MessageInv, Stored, Unsettled, IdOfMsg, CallOf
  <2>2. Graced(o)' /\ Deferred(o)'
    BY <1>1, <1>2 DEF MessageInv, Graced, Deferred
  <2>3. QED
    BY <2>1, <2>2
<1>9. MessageInv(o)' /\ SameOutcome(pend'[o], pend[o])
  BY <1>2, <1>5, <1>6, <1>7, <1>8 DEF MessageInv, SameOutcome
<1>10. pc'[o[1]] \in Sent
  BY <1>1, <1>2 DEF Sent
<1>11. QED
  BY <1>1, <1>2, <1>3, <1>4, <1>9, <1>10, TouchKeepsRest

LEMMA SucceedKeepsRest ==
    ASSUME CInv, NEW p \in Proc, SendSucceeds(p)
    PROVE  Rest'
<1> SUFFICES ASSUME NEW o \in Pending, o = Current(p) PROVE Rest'
  BY StateFacts, CurrentType DEF CInv
<1> DEFINE decided == /\ pend'[o].CallbackFired /\ pend'[o].finish = "pending"
                      /\ Undecided(pend[o])
<1>1. /\ IInv /\ Generations /\ TypeInv /\ ChannelsKept /\ NoNewOrphans
      /\ o \in Pending /\ o = Current(o[1]) /\ o[1] = p /\ MessageInv(o)
  <2>1. IInv /\ Generations /\ TypeInv
    BY DEF CInv, IInv
  <2>2. o \in Pending /\ o = Current(o[1]) /\ o[1] = p
    BY DEF Current
  <2>3. QED
    BY <2>1, <2>2, PublishKeepsChannels, FewerOrphans DEF CInv, Messages, PublishStep
<1>2. /\ \A q \in Pending : q # o => pend'[q] = pend[q]
      /\ pc[p] \in {"sending", "sent"} /\ pc'[p] = "nil" /\ \A q \in Proc : q # p => pc'[q] = pc[q]
      /\ UNCHANGED <<byId, byTag, cur, attempt, callbacks, closed>>
      /\ pend'[o].gen = pend[o].gen /\ pend'[o].tag = pend[o].tag /\ ~pend'[o].inFlight
      /\ pend'[o].orphanDeferred = pend[o].orphanDeferred /\ pend'[o].Confirmed = pend[o].Confirmed
      /\ pend'[o].Nacked = pend[o].Nacked /\ pend'[o].Returned = pend[o].Returned
      /\ (pend'[o].grace # "off" => pend[o].grace # "off")
      /\ \/ /\ SameOutcome(pend'[o], pend[o]) /\ pend'[o].grace = pend[o].grace /\ stats' = stats
            /\ ~(pend[o].orphanDeferred /\ Undecided(pend[o]))
         \/ /\ decided /\ pend'[o].FinalOutcome = "orphaned" /\ pend[o].orphanDeferred
            /\ stats' = Counting("orphaned")
         \/ /\ decided /\ pend'[o].FinalOutcome = "timedOut" /\ stats' = Counting("timedOut")
  BY <1>1, SucceedEffect
<1>3. OthersFramed(o) /\ \A g \in 1 .. cur : Grows(g)
  BY <1>1, <1>2, OneProcess
<1>4. pc[o[1]] \in Live /\ pc'[o[1]] \in Sent
  BY <1>1, <1>2 DEF Live, Sent
<1>5. /\ Grows(pend[o].gen) /\ gens'[pend[o].gen].handled = gens[pend[o].gen].handled
      /\ gens[pend[o].gen].handled \in Nat
      /\ gens[pend[o].gen].handled <= gens'[pend[o].gen].handled
  <2>1. /\ Grows(pend[o].gen) /\ gens'[pend[o].gen].handled = gens[pend[o].gen].handled
        /\ gens[pend[o].gen].handled \in Nat
    BY <1>1, <1>4, LiveGeneration
  <2>2. QED
    BY <2>1
<1>6. /\ MessageSound(o) /\ Truth(o) /\ Stored(o) /\ Graced(o) /\ Swept(o)
      /\ pend'[o].grace # "off" => pend'[o].Confirmed
  BY <1>1, <1>2 DEF MessageInv, Truth
<1>7. CASE /\ SameOutcome(pend'[o], pend[o]) /\ pend'[o].grace = pend[o].grace /\ stats' = stats
           /\ ~(pend[o].orphanDeferred /\ Undecided(pend[o]))
  <2>1. MessageSound(o)'
    <3>1. Current(o[1])' = Current(o[1]) /\ pc'[o[1]] = "nil"
      BY <1>1, <1>2 DEF Current
    <3>2. QED
      BY <1>1, <1>2, <1>4, <1>6, <1>7, <3>1 DEF MessageSound, Sent, SameOutcome
  <2>2. Truth(o)'
    BY <1>1, <1>2, <1>4, <1>7, QuietTruth DEF SameFields, SameOutcome
  <2>3. Swept(o)'
    <3>1. pend[o].gen \in 1 .. cur
      BY <1>1, <1>4, LiveTruth
    <3>2. Unswept(o)
      BY <1>1, <1>2, QuietGeneration
    <3>3. QED
      BY <1>1, <1>2, <1>6, <1>7, <3>1, <3>2, SweptTouched DEF SameOutcome
  <2>4. Stored(o)' /\ Graced(o)' /\ Deferred(o)'
    <3>1. /\ pend'[o].CallbackFired = pend[o].CallbackFired /\ pend'[o].finish = pend[o].finish
          /\ pend'[o].grace = pend[o].grace
      BY <1>7 DEF SameOutcome
    <3>2. Stored(o)' /\ Graced(o)'
      BY <1>1, <1>2, <1>4, <1>6, <3>1 DEF Stored, Unsettled, Graced, IdOfMsg, CallOf
    <3>3. Deferred(o)'
      <4>1. pend[o].orphanDeferred => pend[o].CallbackFired \/ pend[o].Confirmed
        BY <1>6, <1>7 DEF Undecided, MessageSound
      <4>2. QED
        BY <1>2, <3>1, <4>1 DEF Deferred
    <3>4. QED
      BY <3>2, <3>3
  <2>5. MessageInv(o)'
    BY <2>1, <2>2, <2>3, <2>4 DEF MessageInv
  <2>6. QED
    BY <1>1, <1>2, <1>3, <1>4, <1>7, <2>5, TouchKeepsRest
<1>8. ASSUME decided, NEW outcome \in {"orphaned", "timedOut"}, pend'[o].FinalOutcome = outcome,
             outcome = "orphaned" => pend[o].orphanDeferred, stats' = Counting(outcome)
      PROVE  Rest'
  <2>1. ~pend[o].CallbackFired /\ pend'[o].CallbackFired /\ pend'[o].finish = "pending"
    BY <1>8 DEF Undecided
  <2>2. outcome = "orphaned" =>
            gens[pend[o].gen].dead /\ pend[o].tag > Len(gens[pend[o].gen].verdicts)
    BY <1>1, <1>4, <1>6, <1>8, LiveTruth DEF Truth
  <2>3. Truth(o)'
    BY <1>1, <1>2, <1>4, <1>5, <1>6, <1>8, <2>1, <2>2, TruthStep
  <2>4. outcome \in Counted
    BY DEF Counted
  <2>5. pend'[o].inFlight <=> pc'[o[1]] = "sent"
    BY <1>1, <1>2
  <2>6. QED
    BY <1>1, <1>2, <1>3, <1>4, <1>8, <2>1, <2>3, <2>4, <2>5, DecideKeepsRest
<1>9. QED
  BY <1>2, <1>7, <1>8

\* An attempt that has not been sent, or never will, holds nothing.
LEMMA Unsent ==
    ASSUME CInv, NEW o \in Pending, o = Current(o[1]), pc[o[1]] \notin Live
    PROVE  /\ o \notin byTag /\ o \notin Undone
           /\ pend[o].finish = "no" /\ pend[o].FinalOutcome = "none" /\ pend[o].grace = "off"
           /\ ~pend[o].Confirmed /\ ~pend[o].Nacked /\ ~pend[o].Returned
<1>1. MessageSound(o) /\ Truth(o) /\ IInv
  BY DEF CInv, Messages, MessageInv
<1>2. o \notin byTag
  BY <1>1 DEF IInv, EntriesCurrent, Live
<1>3. QED
  BY <1>1, <1>2 DEF MessageSound, Truth, Sent, Live, Undone

LEMMA EnterKeepsRest ==
    ASSUME CInv, NEW p \in Proc, PublishEnter(p)
    PROVE  Rest'
<1> SUFFICES ASSUME NEW o \in Pending, o = Current(p) PROVE Rest'
  BY StateFacts, CurrentType DEF CInv
<1>1. /\ IInv /\ Positions /\ Index /\ Orphans /\ Calls /\ StatsConserved /\ ChannelsKept
      /\ NoNewOrphans /\ o = Current(o[1]) /\ o[1] = p
  <2>1. IInv /\ Generations /\ TypeInv
    BY DEF CInv, IInv
  <2>2. QED
    BY <2>1, PublishKeepsChannels, FewerOrphans DEF CInv, PublishStep, Current
<1> DEFINE new == [NewPending EXCEPT !.gen = cur, !.tag = gens[cur].published + 1,
                                     !.inFlight = TRUE, !.timer = "armed"]
<1>2. /\ UNCHANGED <<byId, byTag, cur, attempt, callbacks, closed, stats>>
      /\ pc[p] = "publish" /\ pc'[p] = "entered" /\ \A q \in Proc : q # p => pc'[q] = pc[q]
      /\ pend'[o] = new /\ \A q \in Pending : q # o => pend'[q] = pend[q]
  BY <1>1, StateFacts DEF PublishEnter, chanVars, userVars, closeVars
<1>3. /\ ~new.CallbackFired /\ new.finish = "no" /\ new.FinalOutcome = "none" /\ new.inFlight
      /\ ~new.Confirmed /\ ~new.Nacked /\ ~new.Returned /\ ~new.orphanDeferred
      /\ new.grace = "off"
  BY DEF NewPending
<1> HIDE DEF new
<1>4. /\ OthersFramed(o) /\ \A g \in 1 .. cur : Grows(g)
      /\ o \notin byTag /\ pc'[o[1]] = "entered" /\ pc'[o[1]] \notin Live /\ pc'[o[1]] \notin Sent
  BY <1>1, <1>2, OneProcess, Unsent DEF Live, Sent
<1>5. pend[o].gen = 0
  <2>1. Unborn(o)
    BY <1>1, <1>2 DEF Unborn, Current
  <2>2. QED
    BY <1>1, <2>1 DEF Positions, Fresh
<1>6. MessageInv(o)'
  <2>1. MessageSound(o)'
    BY <1>2, <1>3, <1>4 DEF MessageSound
  <2>2. Truth(o)'
    BY <1>2, <1>3, <1>4 DEF Truth
  <2>3. Stored(o)' /\ Graced(o)' /\ Swept(o)' /\ Deferred(o)'
    BY <1>2, <1>3, <1>4 DEF Stored, Unsettled, Graced, Swept, Deferred
  <2>4. QED
    BY <2>1, <2>2, <2>3 DEF MessageInv
<1>7. Messages'
  BY <1>4, <1>6, OthersKept
<1>8. Index'
  BY <1>1, <1>2 DEF Index, IdOfMsg, CallOf
<1>9. Orphans'
  <2>1. StillClaimed
    BY <1>2, <1>5 DEF StillClaimed
  <2>2. QED
    BY <1>1, <1>4, <2>1, OrphansStay DEF CInv
<1>10. Calls'
  <2>1. \A q \in Proc : q # p => SameSender(q)
    BY <1>1, <1>2, OtherSenders
  <2>2. QED
    BY <1>1, <1>2, <2>1, MovesKeepsCalls DEF Waiting
<1>11. StatsConserved'
  <2>1. Undone' = Undone
    BY <1>1, <1>2, <1>4, StateFacts DEF Undone
  <2>2. QED
    BY <1>1, <1>2, <2>1, StatsSame
<1>12. QED
  BY <1>7, <1>8, <1>9, <1>10, <1>11 DEF Rest

LEMMA RefusedKeepsRest ==
    ASSUME CInv, NEW p \in Proc, RegisterRefused(p)
    PROVE  Rest'
<1> SUFFICES ASSUME NEW o \in Pending, o = Current(p) PROVE Rest'
  BY StateFacts, CurrentType DEF CInv
<1>1. /\ IInv /\ Positions /\ Index /\ Orphans /\ Calls /\ StatsConserved /\ ChannelsKept
      /\ NoNewOrphans /\ o = Current(o[1]) /\ o[1] = p /\ MessageSound(o) /\ Truth(o)
  <2>1. IInv /\ Generations /\ TypeInv
    BY DEF CInv, IInv
  <2>2. QED
    BY <2>1, PublishKeepsChannels, FewerOrphans
       DEF CInv, PublishStep, Current, Messages, MessageInv
<1>2. /\ UNCHANGED <<byId, byTag, gens, cur, attempt, closed, stats>>
      /\ pc[p] = "entered" /\ \A q \in Proc : q # p => pc'[q] = pc[q]
      /\ (pc'[p] = "delay" /\ callbacks' = callbacks) \/ Fail(p)
      /\ pend'[o] = StopTimer(pend[o]) /\ \A q \in Pending : q # o => pend'[q] = pend[q]
      /\ pc'[p] \in {"delay", "error"}
  BY <1>1, StateFacts DEF RegisterRefused, ChannelError, Fail, chanVars, closeVars
<1>3. /\ SameFields(pend'[o], pend[o]) /\ SameOutcome(pend'[o], pend[o])
      /\ pend'[o].grace # "off" => pend[o].grace # "off"
  BY <1>1, <1>2, StateFacts, StopTimerFields
<1>4. /\ OthersFramed(o) /\ \A g \in 1 .. cur : Grows(g)
      /\ pc'[o[1]] \notin Live /\ pc'[o[1]] \notin Sent /\ pc'[o[1]] \notin {"entered", "sending"}
      /\ o \notin byTag
      /\ pend[o].finish = "no" /\ pend[o].FinalOutcome = "none" /\ pend[o].grace = "off"
      /\ ~pend[o].Confirmed /\ ~pend[o].Nacked /\ ~pend[o].Returned
  BY <1>1, <1>2, OneProcess, Unsent DEF Live, Sent
<1>5. /\ ~pend'[o].Confirmed /\ ~pend'[o].Nacked /\ ~pend'[o].Returned
      /\ pend'[o].finish = "no" /\ pend'[o].FinalOutcome = "none" /\ pend'[o].grace = "off"
      /\ pend'[o].gen = pend[o].gen /\ pend'[o].orphanDeferred = pend[o].orphanDeferred
      /\ pend'[o].CallbackFired = pend[o].CallbackFired
  BY <1>3, <1>4 DEF SameFields, SameOutcome
<1>6. MessageInv(o)'
  <2>1. MessageSound(o)'
    BY <1>2, <1>4, <1>5 DEF MessageSound
  <2>2. Truth(o)'
    BY <1>1, <1>2, <1>4, <1>5 DEF Truth
  <2>3. Stored(o)' /\ Graced(o)' /\ Swept(o)' /\ Deferred(o)'
    BY <1>2, <1>4, <1>5 DEF Stored, Unsettled, Graced, Swept, Deferred
  <2>4. QED
    BY <2>1, <2>2, <2>3 DEF MessageInv
<1>7. Messages'
  BY <1>4, <1>6, OthersKept
<1>8. Index'
  BY <1>1, <1>2 DEF Index, IdOfMsg, CallOf
<1>9. Orphans'
  <2>1. StillClaimed
    BY <1>2, <1>5 DEF StillClaimed
  <2>2. QED
    BY <1>1, <1>4, <2>1, OrphansStay DEF CInv
<1>10. Calls'
  <2>1. \A q \in Proc : q # p => SameSender(q)
    BY <1>1, <1>2, OtherSenders
  <2>2. QED
    BY <1>1, <1>2, <2>1, MovesKeepsCalls DEF Waiting
<1>11. StatsConserved'
  <2>1. Undone' = Undone
    BY <1>1, <1>2, <1>4, StateFacts DEF Undone
  <2>2. QED
    BY <1>1, <1>2, <2>1, StatsSame
<1>12. QED
  BY <1>7, <1>8, <1>9, <1>10, <1>11 DEF Rest

LEMMA RegisterKeepsRest ==
    ASSUME CInv, NEW p \in Proc, Register(p)
    PROVE  Rest'
<1> SUFFICES ASSUME NEW o \in Pending, o = Current(p) PROVE Rest'
  BY StateFacts, CurrentType DEF CInv
<1>1. /\ IInv /\ Positions /\ Index /\ Orphans /\ Calls /\ StatsConserved /\ ChannelsKept
      /\ NoNewOrphans /\ o = Current(o[1]) /\ o[1] = p /\ MessageSound(o) /\ Truth(o)
      /\ SoundGeneration(gens[cur], cur, cur, closed)
  <2>1. IInv /\ Generations /\ TypeInv
    BY DEF CInv, IInv
  <2>2. SoundGeneration(gens[cur], cur, cur, closed)
    BY <2>1, StateFacts DEF Generations
  <2>3. QED
    BY <2>1, <2>2, PublishKeepsChannels, FewerOrphans
       DEF CInv, PublishStep, Current, Messages, MessageInv
<1>2. /\ UNCHANGED <<pend, gens, cur, attempt, callbacks, closed>>
      /\ pc[p] = "entered" /\ pc'[p] = "sending" /\ \A q \in Proc : q # p => pc'[q] = pc[q]
      /\ ~gens[cur].dead /\ byId[IdOf[p[1]]] = None /\ stats' = Counting("published")
      /\ byId' = [byId EXCEPT ![IdOf[p[1]]] = o]
      /\ byTag' = (byTag \ AtKey(KeyOf(o))) \cup {o}
  BY <1>1, StateFacts DEF Register, chanVars, userVars, closeVars
<1>3. pend[o].gen = cur /\ pend[o].tag = gens[cur].published + 1
  BY <1>1, <1>2 DEF IInv, HolderTagged, InPublishMu
<1>4. byTag' = byTag \cup {o} /\ o \notin byTag
  <2>1. AtKey(KeyOf(o)) = {}
    <3> SUFFICES ASSUME NEW x \in byTag, KeyOf(x) = KeyOf(o) PROVE FALSE
      BY DEF AtKey
    <3>1. /\ x = Current(x[1]) /\ pc[x[1]] \in Live /\ x[1] \in Proc
          /\ pend[x].gen = cur /\ pend[x].tag = gens[cur].published + 1
      BY <1>1, <1>3, StateFacts DEF IInv, EntriesCurrent, Live, KeyOf
    <3>2. pc[x[1]] # "nil"
      <4>1. gens[cur].published \in Nat
        BY <1>1, StateFacts, CountFacts
      <4>2. pc[x[1]] = "nil" => pend[x].tag <= gens[cur].published
        BY <1>1, <3>1 DEF IInv, TagsCounted
      <4>3. QED
        BY <3>1, <4>1, <4>2
    <3>3. pc[x[1]] \in InPublishMu /\ x[1] # p
      BY <1>2, <3>1, <3>2 DEF Live, InPublishMu
    <3>4. QED
      BY <1>1, <1>2, <3>1, <3>3, HolderFacts DEF InPublishMu
  <2>2. o \notin byTag
    BY <1>1, <1>2, Unsent DEF Live
  <2>3. QED
    BY <1>2, <2>1, <2>2
<1>5. /\ IdOfMsg(o) = IdOf[p[1]] /\ IdOf[p[1]] \in MsgId /\ byId'[IdOf[p[1]]] = o
      /\ \A i \in MsgId : i # IdOf[p[1]] => byId'[i] = byId[i]
      /\ \A q \in Pending : q # None /\ IdOfMsg(q) \in MsgId
  BY <1>1, <1>2, StateFacts, ConstantsOK, SentinelsOK
     DEF IdOfMsg, CallOf, Proc, TypeOK, Pending, Attempt
<1>6. OthersFramed(o) /\ \A g \in 1 .. cur : Grows(g)
  <2>1. ASSUME NEW q \in Pending, q # o PROVE Frame(q)
    <3>1. q[1] \in Proc /\ attempt'[q[1]] = attempt[q[1]] /\ q # Current(p)
      BY <1>1, <1>2, <2>1, StateFacts
    <3>2. Placed(q)
      BY <1>2, <2>1, <3>1 DEF Placed
    <3>3. q \in byTag /\ byId[IdOfMsg(q)] = q => q \in byTag' /\ byId'[IdOfMsg(q)] = q
      BY <1>2, <1>4, <1>5
    <3>4. QED
      BY <1>2, <1>4, <2>1, <3>2, <3>3, SameMessage
  <2>2. QED
    BY <1>1, <1>2, <2>1, OthersQuiet
<1>7. /\ pc'[o[1]] = "sending" /\ pc'[o[1]] \notin Sent /\ pc[o[1]] \notin Live
      /\ o = Current(o[1])' /\ ~pend[o].CallbackFired /\ pend[o].inFlight
      /\ pend[o].finish = "no" /\ pend[o].FinalOutcome = "none" /\ pend[o].grace = "off"
      /\ ~pend[o].Confirmed /\ ~pend[o].Nacked /\ ~pend[o].Returned
  <2>1. /\ pc'[o[1]] = "sending" /\ pc'[o[1]] \notin Sent /\ pc[o[1]] \notin Live
        /\ o = Current(o[1])' /\ ~pend[o].CallbackFired /\ pend[o].inFlight
    BY <1>1, <1>2 DEF MessageSound, Current, Sent, Live
  <2>2. QED
    BY <1>1, <2>1, Unsent
<1>8. MessageInv(o)'
  <2>1. MessageSound(o)'
    BY <1>2, <1>7 DEF MessageSound
  <2>2. Truth(o)'
    BY <1>1, <1>2, <1>7 DEF Truth
  <2>3. Stored(o)' /\ Graced(o)' /\ Deferred(o)'
    <3>1. o \in byTag' /\ byId'[IdOfMsg(o)] = o
      BY <1>4, <1>5
    <3>2. Stored(o)'
      BY <3>1 DEF Stored, IdOfMsg, CallOf
    <3>3. QED
      BY <1>2, <1>7, <3>2 DEF Graced, Deferred
  <2>4. Swept(o)'
    <3>1. ~(gens[cur].confirmReader = "done" /\ closed = "no")
      BY <1>1, <1>2 DEF SoundGeneration
    <3>2. QED
      BY <1>2, <1>3, <3>1 DEF Swept
  <2>5. QED
    BY <2>1, <2>2, <2>3, <2>4 DEF MessageInv
<1>9. Messages'
  BY <1>6, <1>8, OthersKept
<1>10. Index'
  <2> SUFFICES ASSUME NEW i \in MsgId, byId'[i] # None
               PROVE  byId'[i] \in byTag' /\ IdOfMsg(byId'[i]) = i
    BY DEF Index, IdOfMsg, CallOf
  <2>1. CASE i = IdOf[p[1]]
    BY <1>4, <1>5, <2>1
  <2>2. CASE i # IdOf[p[1]]
    <3>1. byId'[i] = byId[i] /\ byId[i] \in byTag /\ IdOfMsg(byId[i]) = i
      BY <1>1, <1>5, <2>2 DEF Index
    <3>2. QED
      BY <1>4, <3>1
  <2>3. QED
    BY <2>1, <2>2
<1>11. Orphans'
  <2>1. StillClaimed
    BY <1>2, <1>4 DEF StillClaimed
  <2>2. QED
    BY <1>1, <1>6, <2>1, OrphansStay DEF CInv
<1>12. Calls'
  <2>1. \A q \in Proc : q # p => SameSender(q)
    BY <1>1, <1>2, OtherSenders
  <2>2. QED
    BY <1>1, <1>2, <2>1, MovesKeepsCalls DEF Waiting
<1>13. StatsConserved'
  <2>1. o \notin Undone /\ Undone' = Undone \cup {o}
    BY <1>2, <1>4, <1>7 DEF Undone
  <2>2. QED
    BY <1>1, <1>2, <2>1, StatsStored
<1>14. QED
  BY <1>9, <1>10, <1>11, <1>12, <1>13 DEF Rest

LEMMA FailsKeepsRest ==
    ASSUME DistinctIds, CInv, NEW p \in Proc, SendFails(p)
    PROVE  Rest'
<1> SUFFICES ASSUME NEW o \in Pending, o = Current(p) PROVE Rest'
  BY StateFacts, CurrentType DEF CInv
<1>1. /\ IInv /\ Positions /\ Index /\ Orphans /\ Calls /\ StatsConserved /\ ChannelsKept
      /\ NoNewOrphans /\ o = Current(o[1]) /\ o[1] = p /\ MessageSound(o) /\ Truth(o)
  <2>1. IInv /\ Generations /\ TypeInv
    BY DEF CInv, IInv
  <2>2. QED
    BY <2>1, PublishKeepsChannels, FewerOrphans
       DEF CInv, PublishStep, Current, Messages, MessageInv
<1>2. /\ UNCHANGED <<gens, cur, attempt, closed>>
      /\ pc[p] = "sending" /\ \A q \in Proc : q # p => pc'[q] = pc[q]
      /\ (pc'[p] = "delay" /\ callbacks' = callbacks) \/ Fail(p)
      /\ pc'[p] \in {"delay", "error"}
      /\ pend'[o] = [StopTimer(pend[o]) EXCEPT !.inFlight = FALSE, !.CallbackFired = TRUE]
      /\ \A q \in Pending : q # o => pend'[q] = pend[q]
      /\ stats' = [stats EXCEPT !["published"] = @ - 1] /\ Delete(Current(p))
  BY <1>1, StateFacts DEF SendFails, ChannelError, Fail, chanVars, closeVars
<1>3. pc[p] \in Live /\ pc[p] # "idle" /\ ~Spent(p) /\ pc'[o[1]] \notin Live
      /\ pc'[o[1]] \notin Sent /\ pc'[o[1]] \notin {"entered", "sending"}
  BY <1>1, <1>2 DEF Live, Spent, Sent
<1>4. /\ pend[o].finish = "no" /\ pend[o].FinalOutcome = "none" /\ pend[o].grace = "off"
      /\ ~pend[o].Confirmed /\ ~pend[o].Nacked /\ ~pend[o].Returned /\ ~pend[o].CallbackFired
  BY <1>1, <1>2 DEF MessageSound, Truth, Sent
<1>5. /\ ~pend'[o].Confirmed /\ ~pend'[o].Nacked /\ ~pend'[o].Returned
      /\ pend'[o].finish = "no" /\ pend'[o].FinalOutcome = "none" /\ pend'[o].grace = "off"
      /\ pend'[o].gen = pend[o].gen /\ pend'[o].orphanDeferred = pend[o].orphanDeferred
      /\ pend'[o].CallbackFired
  <2>1. /\ StopTimer(pend[o]) \in PendingMessage
        /\ SameFields(StopTimer(pend[o]), pend[o]) /\ SameOutcome(StopTimer(pend[o]), pend[o])
        /\ StopTimer(pend[o]).grace # "off" => pend[o].grace # "off"
    BY <1>1, StateFacts, StopTimerFacts, StopTimerFields
  <2>2. QED
    BY <1>2, <1>4, <2>1 DEF PendingMessage, SameFields, SameOutcome
<1>6. byTag' = byTag \ {o} /\ Index'
  BY <1>1, <1>2, <1>3, DeleteOwn
<1>7. OthersFramed(o) /\ \A g \in 1 .. cur : Grows(g)
  <2>1. ASSUME NEW q \in Pending, q # o PROVE Frame(q)
    <3>1. q[1] \in Proc /\ attempt'[q[1]] = attempt[q[1]] /\ q # Current(p)
      BY <1>1, <1>2, <2>1, StateFacts
    <3>2. Placed(q)
      BY <1>2, <2>1, <3>1 DEF Placed
    <3>3. /\ q \in byTag' <=> q \in byTag
          /\ Unsettled(q) /\ q \in byTag /\ byId[IdOfMsg(q)] = q =>
                 q \in byTag' /\ byId'[IdOfMsg(q)] = q
      BY <1>1, <1>2, <1>3, <3>1, OthersStored DEF Calls
    <3>4. QED
      BY <1>2, <2>1, <3>2, <3>3, SameMessage
  <2>2. QED
    BY <1>1, <1>2, <2>1, OthersQuiet
<1>8. MessageInv(o)'
  <2>1. MessageSound(o)'
    BY <1>3, <1>5, <1>6 DEF MessageSound
  <2>2. Truth(o)'
    BY <1>1, <1>2, <1>3, <1>5 DEF Truth
  <2>3. Stored(o)' /\ Graced(o)' /\ Swept(o)' /\ Deferred(o)'
    BY <1>3, <1>5, <1>6 DEF Stored, Unsettled, Graced, Swept, Deferred
  <2>4. QED
    BY <2>1, <2>2, <2>3 DEF MessageInv
<1>9. Messages'
  BY <1>7, <1>8, OthersKept
<1>10. Orphans'
  <2>1. StillClaimed
    BY <1>2, <1>5, <1>6 DEF StillClaimed
  <2>2. QED
    BY <1>1, <1>7, <2>1, OrphansStay DEF CInv
<1>11. Calls'
  <2>1. \A q \in Proc : q # p => SameSender(q)
    BY <1>1, <1>2, OtherSenders
  <2>2. QED
    BY <1>1, <1>2, <2>1, MovesKeepsCalls DEF Waiting
<1>12. StatsConserved'
  <2>1. o \in Undone
    BY <1>1, <1>3, <1>4, UndecidedStored
  <2>2. Undone' = Undone \ {o}
    BY <1>1, <1>2, <1>6, StateFacts DEF Undone
  <2>3. QED
    BY <1>1, <1>2, <2>1, <2>2, StatsWithdrawn
<1>13. QED
  BY <1>6, <1>9, <1>10, <1>11, <1>12 DEF Rest

LEMMA RetryKeepsRest ==
    ASSUME DistinctIds, CInv, NEW p \in Proc, RetryRepublish(p)
    PROVE  Rest'
<1> SUFFICES ASSUME NEW b \in Proc, b = <<p[1], p[2] - 1>>, p[2] > 0, NEW o \in Pending, o = Current(b)
             PROVE  Rest'
  <2>1. p[2] > 0 /\ <<p[1], p[2] - 1>> \in Proc
    BY ProcFacts DEF RetryRepublish
  <2>2. Current(<<p[1], p[2] - 1>>) \in Pending
    BY <2>1, StateFacts, CurrentType DEF CInv
  <2>3. QED
    BY <2>1, <2>2
<1>1. /\ IInv /\ Positions /\ Generations /\ Messages /\ Index /\ Orphans /\ Calls
      /\ StatsConserved /\ ChannelsKept /\ NoNewOrphans /\ o = Current(o[1]) /\ o[1] = b
  <2>1. IInv /\ Generations /\ TypeInv
    BY DEF CInv, IInv
  <2>2. QED
    BY <2>1, PublishKeepsChannels, FewerOrphans DEF CInv, Current
<1>2. /\ UNCHANGED <<pend, gens, cur, attempt, closed, callbacks, stats>>
      /\ pc[p] = "backoff" /\ pc'[p] = "publish" /\ \A q \in Proc : q # p => pc'[q] = pc[q]
      /\ Delete(Current(b))
  BY <1>1, StateFacts DEF RetryRepublish, chanVars, userVars, closeVars
<1>3. Spent(b) /\ pc[b] \in Live /\ pend[o].CallbackFired /\ pend[o].finish = "no" /\ b # p
      /\ b[1] = p[1]
  <2>1. b[1] = p[1] /\ b[2] < p[2] /\ p[2] \in Nat
    BY ConstantsOK DEF Proc
  <2>2. Spent(b)
    BY <1>1, <1>2, <2>1 DEF Calls, Chain
  <2>3. QED
    BY <1>1, <2>1, <2>2 DEF Spent, Mine, Sent, Live
<1>4. byTag' = byTag \ {o} /\ Index'
  BY <1>1, <1>2, <1>3, DeleteOwn
<1>5. ASSUME NEW q \in Pending PROVE Frame(q)
  <2>1. q[1] \in Proc /\ attempt'[q[1]] = attempt[q[1]]
    BY <1>1, <1>2, StateFacts
  <2>2. Placed(q)
    BY <1>2, <2>1 DEF Placed, Busy, Live
  <2>3. CASE q = o
    <3>1. ~Unsettled(q) /\ q \notin byTag'
      BY <1>3, <1>4, <2>3 DEF Unsettled
    <3>2. QED
      BY <1>2, <2>2, <3>1, SameMessage
  <2>4. CASE q = Current(p)
    <3>1. ~Unsettled(q)
      BY <1>2, <2>4 DEF Unsettled, Live, Current
    <3>2. QED
      BY <1>2, <1>4, <2>2, <3>1, SameMessage
  <2>5. CASE q # o /\ q # Current(p)
    <3>1. pc[p] # "idle" /\ ~Spent(p) /\ Chain
      BY <1>1, <1>2 DEF Spent, Sent, Calls
    <3>2. /\ q \in byTag' <=> q \in byTag
          /\ Unsettled(q) /\ q \in byTag /\ byId[IdOfMsg(q)] = q =>
                 q \in byTag' /\ byId'[IdOfMsg(q)] = q
      BY <1>1, <1>2, <1>3, <2>5, <3>1, OthersStored
    <3>3. QED
      BY <1>2, <2>2, <3>2, SameMessage
  <2>6. QED
    BY <2>3, <2>4, <2>5
<1>6. Messages'
  BY <1>1, <1>2, <1>5, Framed DEF Messages
<1>7. Orphans'
  <2>1. StillClaimed
    BY <1>2, <1>3, <1>4 DEF StillClaimed
  <2>2. \A g \in 1 .. cur : Grows(g)
    BY <1>1 DEF ChannelsKept, Kept
  <2>3. QED
    BY <1>1, <2>1, <2>2, OrphansStay
<1>8. Calls'
  <2>1. \A q \in Proc : q # p => SameSender(q)
    BY <1>1, <1>2, OtherSenders
  <2>2. QED
    BY <1>1, <1>2, <2>1, MovesKeepsCalls DEF Waiting
<1>9. StatsConserved'
  <2>1. Undone' = Undone
    BY <1>2, <1>3, <1>4 DEF Undone
  <2>2. QED
    BY <1>1, <1>2, <2>1, StatsSame
<1>10. QED
  BY <1>4, <1>6, <1>7, <1>8, <1>9 DEF Rest

LEMMA FinishKeepsRest ==
    ASSUME DistinctIds, CInv, NEW o \in Pending, Finish(o)
    PROVE  Rest'
<1>1. /\ IInv /\ Positions /\ Index /\ Orphans /\ Calls /\ StatsConserved /\ ChannelsKept
      /\ NoNewOrphans /\ MessageSound(o) /\ Truth(o) /\ Messages /\ o[1] \in Proc
      /\ pend[o] \in PendingMessage
  <2>1. IInv /\ Generations /\ TypeInv
    BY DEF CInv, IInv
  <2>2. QED
    BY <2>1, OtherKeepsChannels, FewerOrphans, StateFacts
       DEF CInv, MessageStep, Messages, MessageInv
<1>2. /\ UNCHANGED <<pc, gens, cur, attempt, closed, stats>>
      /\ pend[o].finish = "pending"
      /\ pend'[o] = [pend[o] EXCEPT !.finish = "done"]
      /\ \A q \in Pending : q # o => pend'[q] = pend[q]
      /\ callbacks' = [callbacks EXCEPT ![CallOf(o)] = @ + 1]
      /\ Delete(o)
  BY <1>1, StateFacts DEF Finish, chanVars, procVars, closeVars
<1>3. /\ pend[o].CallbackFired /\ o = Current(o[1]) /\ pc[o[1]] \in Sent
      /\ pc[o[1]] \in Live /\ pc[o[1]] # "idle" /\ ~Spent(o[1]) /\ Mine(o[1]) = pend[o]
  BY <1>1, <1>2 DEF MessageSound, Sent, Live, Spent, Mine
<1>4. /\ SameFields(pend'[o], pend[o]) /\ pend'[o].CallbackFired /\ pend'[o].finish = "done"
      /\ pend'[o].FinalOutcome = pend[o].FinalOutcome /\ pend'[o].grace = pend[o].grace
  BY <1>1, <1>2, <1>3 DEF PendingMessage, SameFields
<1>5. byTag' = byTag \ {o} /\ Index'
  BY <1>1, <1>2, <1>3, DeleteOwn
<1>6. OthersFramed(o) /\ \A g \in 1 .. cur : Grows(g)
  <2>1. ASSUME NEW q \in Pending, q # o PROVE Frame(q)
    <3>1. Placed(q)
      BY <1>2 DEF Placed
    <3>2. Delete(Current(o[1])) /\ q # Current(o[1]) /\ Chain
      BY <1>1, <1>2, <1>3, <2>1 DEF Calls
    <3>3. /\ q \in byTag' <=> q \in byTag
          /\ Unsettled(q) /\ q \in byTag /\ byId[IdOfMsg(q)] = q =>
                 q \in byTag' /\ byId'[IdOfMsg(q)] = q
      BY <1>1, <1>3, <3>2, OthersStored
    <3>4. QED
      BY <1>2, <2>1, <3>1, <3>3, SameMessage
  <2>2. QED
    BY <1>1, <1>2, <2>1, OthersQuiet
<1>7. MessageInv(o)'
  <2>1. MessageSound(o)'
    <3>1. o = Current(o[1])' /\ pc'[o[1]] \in Sent /\ pc'[o[1]] \notin {"entered", "sending"}
      BY <1>2, <1>3 DEF Current, Sent
    <3>2. QED
      BY <1>4, <1>5, <3>1 DEF MessageSound
  <2>2. Truth(o)'
    BY <1>1, <1>2, <1>4 DEF Truth, SameFields
  <2>3. Stored(o)' /\ Graced(o)' /\ Swept(o)' /\ Deferred(o)'
    BY <1>4, <1>5 DEF Stored, Unsettled, Graced, Swept, Deferred
  <2>4. QED
    BY <2>1, <2>2, <2>3 DEF MessageInv
<1>8. Messages'
  BY <1>6, <1>7, OthersKept
<1>9. Orphans'
  <2>1. StillClaimed
    BY <1>2, <1>4, <1>5 DEF StillClaimed, SameFields
  <2>2. QED
    BY <1>1, <1>6, <2>1, OrphansStay DEF CInv
<1>10. Calls'
  <2>1. callbacks[o[1][1]] = 0 /\ callbacks \in [Call -> Nat] /\ o[1][1] \in Call /\ CallOf(o) = o[1][1]
    BY <1>1, <1>2, <1>3, StateFacts DEF Calls, Callbacks, CallbackSound, TypeOK, Proc, CallOf
  <2>2. /\ callbacks'[o[1][1]] = 1 /\ \A c \in Call : c # o[1][1] => callbacks'[c] = callbacks[c]
    BY <1>2, <2>1
  <2>3. Mine(o[1])' = pend'[o]
    BY <1>2, <1>3 DEF Mine, Current
  <2>4. CallbackSound(o[1])'
    BY <1>2, <1>3, <1>4, <2>2, <2>3 DEF CallbackSound, Sent, Waiting
  <2>5. \A q \in Proc : q # o[1] => SameSender(q)
    BY <1>1, <1>2, <1>3, <1>6, OthersSend
  <2>6. ~(Mine(o[1])'.finish = "no")
    BY <1>4, <2>3
  <2>7. pc'[o[1]] # "idle"
    BY <1>2, <1>3
  <2>8. QED
    BY <1>1, <1>3, <2>2, <2>4, <2>5, <2>6, <2>7, CallsStep
<1>11. StatsConserved'
  <2>1. Undone' = Undone
    BY <1>1, <1>2, <1>3, <1>4, <1>5, StateFacts DEF Undone
  <2>2. QED
    BY <1>1, <1>2, <2>1, StatsSame
<1>12. QED
  BY <1>5, <1>8, <1>9, <1>10, <1>11 DEF Rest

-------------------------------------------------------------------------------
\* The invariant holds

LEMMA InitContract == Init => CInv
<1> SUFFICES ASSUME Init PROVE CInv
  OBVIOUS
<1>1. IInv /\ Positions /\ Generations
  BY InitMatch, InitPositions, InitGenerations
<1>2. /\ \A o \in Pending : pend[o] = NewPending
      /\ byTag = {} /\ byId = [m \in MsgId |-> None] /\ callbacks = [c \in Call |-> 0]
      /\ stats = [s \in Counted \cup {"published"} |-> 0]
  BY DEF Init
<1>3. \A p \in Proc : pc[p] = IF p[2] = 0 THEN "publish" ELSE "idle"
  BY <1>1, StateFacts DEF Init
<1>4. Messages
  <2> SUFFICES ASSUME NEW o \in Pending PROVE MessageInv(o)
    BY DEF Messages
  <2>1. /\ pend[o].finish = "no" /\ pend[o].FinalOutcome = "none" /\ pend[o].grace = "off"
        /\ ~pend[o].Confirmed /\ ~pend[o].Nacked /\ ~pend[o].Returned /\ ~pend[o].CallbackFired
        /\ ~pend[o].orphanDeferred /\ o \notin byTag
    BY <1>2 DEF NewPending
  <2>2. /\ pc[o[1]] \notin Live /\ pc[o[1]] \notin Sent /\ pc[o[1]] \notin {"entered", "sending"}
    BY <1>1, <1>3, StateFacts DEF Live, Sent
  <2>3. QED
    BY <2>1, <2>2 DEF MessageInv, MessageSound, Truth, Stored, Unsettled, Graced, Swept, Deferred
<1>5. Index
  BY <1>2 DEF Index
<1>6. Orphans
  <2>1. \A g \in Gen : gens[g].orphans = {}
    BY DEF Init, InstalledGeneration, NoGeneration
  <2>2. QED
    BY <2>1 DEF Orphans
<1>7. Calls
  <2>1. Chain
    <3> SUFFICES ASSUME NEW p \in Proc, NEW q \in Proc, p[2] < q[2], pc[q] # "idle" PROVE FALSE
      BY DEF Chain
    <3>1. q[2] = 0 /\ p[2] \in Nat
      BY <1>3, ConstantsOK DEF Proc
    <3>2. QED
      BY <3>1
  <2>2. Relayed
    BY <1>3 DEF Relayed, Sent
  <2>3. Callbacks
    <3> SUFFICES ASSUME NEW p \in Proc PROVE CallbackSound(p)
      BY DEF Callbacks
    <3>1. callbacks[p[1]] = 0 /\ pc[p] \in {"publish", "idle"}
      BY <1>2, <1>3 DEF Proc
    <3>2. QED
      BY <3>1 DEF CallbackSound, Sent
  <2>4. Started
    BY <1>3, UserCalls DEF Started
  <2>5. QED
    BY <2>1, <2>2, <2>3, <2>4 DEF Calls
<1>8. StatsConserved
  <2>1. {o \in byTag : ~pend[o].CallbackFired} = {}
    BY <1>2
  <2>2. Cardinality({}) = 0
    BY FS_EmptySet
  <2>3. QED
    BY <1>2, <2>1, <2>2 DEF StatsConserved, Counted
<1>9. QED
  BY <1>1, <1>4, <1>5, <1>6, <1>7, <1>8 DEF CInv

LEMMA StepGenerations == CInv /\ [Next]_vars => Generations'
<1> SUFFICES ASSUME CInv, [Next]_vars PROVE Generations'
  OBVIOUS
<1>0. TypeInv /\ Generations
  BY DEF CInv, IInv
<1> SUFFICES \A g \in Gen : SoundNext(g)
  BY DEF Generations, SoundNext
<1>1. CASE \E p \in Proc : PublishStep(p) \/ RetryRepublish(p)
  BY <1>0, <1>1, PublishKeepsChannels DEF ChannelsKept
<1>2. CASE \E r \in Refresher : RefreshStep(r)
  BY <1>0, <1>2, RefreshKeepsChannels DEF ChannelsKept
<1>3. ASSUME NEW g \in Gen, ReaderStep(g) \/ BrokerStep(g)
      PROVE  \A h \in Gen : SoundNext(h)
  <2>1. CASE BrokerStep(g)
    BY <1>0, <2>1, BrokerKeepsChannels DEF ChannelsKept
  <2>2. CASE HandleConfirmation(g)
    BY <1>0, <2>2, ConfirmationChannels
  <2>3. CASE HandleReturn(g) \/ ReturnReaderExits(g) \/ ConfirmReaderStops(g) \/ MarkDead(g)
    BY <1>0, <2>3, ReaderKeepsChannels DEF ChannelsKept
  <2>4. CASE CollectOrphans(g) \/ \E o \in Pending : SettleOrphan(g, o)
    BY <1>0, <2>4, SweepChannels
  <2>5. QED
    BY <1>3, <2>1, <2>2, <2>3, <2>4 DEF ReaderStep
<1>4. CASE \/ \E o \in Pending : MessageStep(o)
           \/ KeeperWakes \/ CloseBegin \/ CloseConfirmChannel \/ CloseReturns
           \/ FreshChannelDies \/ (\E c \in Call : ContextEnds(c)) \/ UNCHANGED vars
  BY <1>0, <1>4, OtherKeepsChannels DEF ChannelsKept
<1>5. QED
  BY <1>1, <1>2, <1>3, <1>4 DEF Next

LEMMA StepPositions == CInv /\ [Next]_vars => Positions'
<1> SUFFICES ASSUME CInv, [Next]_vars PROVE Positions'
  OBVIOUS
<1>0. IInv /\ Positions /\ Index
  BY DEF CInv
<1>1. ASSUME NEW p \in Proc, PublishStep(p) \/ RetryRepublish(p)
      PROVE  Positions'
  <2>1. CASE \/ PublishRejected(p) \/ PublishChannelClosed(p) \/ GiveUp(p) \/ NextAttempt(p)
             \/ RetryRepublish(p)
    BY <1>0, <2>1, PublishPositions
  <2>2. CASE PublishEnter(p) \/ RegisterRefused(p) \/ SendFails(p)
    BY <1>0, <2>2, EnterPositions
  <2>3. CASE Register(p)
    BY <1>0, <2>3, RegisterPositions
  <2>4. CASE SendReachesBroker(p)
    BY <1>0, <2>4, ReachPositions
  <2>5. CASE SendSucceeds(p)
    BY <1>0, <2>5, SucceedPositions
  <2>6. QED
    BY <1>1, <2>1, <2>2, <2>3, <2>4, <2>5 DEF PublishStep
<1>2. CASE \E r \in Refresher : RefreshStep(r)
  BY <1>0, <1>2, RefreshPositions
<1>3. CASE \E g \in Gen : ReaderStep(g) \/ BrokerStep(g)
  BY <1>0, <1>3, ReaderPositions
<1>4. CASE \/ \E o \in Pending : MessageStep(o)
           \/ KeeperWakes \/ CloseBegin \/ CloseConfirmChannel \/ CloseReturns
           \/ FreshChannelDies \/ (\E c \in Call : ContextEnds(c)) \/ UNCHANGED vars
  BY <1>0, <1>4, OtherPositions
<1>5. QED
  BY <1>1, <1>2, <1>3, <1>4 DEF Next

LEMMA StepRest == DistinctIds /\ CInv /\ [Next]_vars => Rest'
<1> SUFFICES ASSUME DistinctIds, CInv, [Next]_vars PROVE Rest'
  OBVIOUS
<1>1. ASSUME NEW p \in Proc, PublishStep(p) \/ RetryRepublish(p)
      PROVE  Rest'
  <2>1. CASE \/ PublishRejected(p) \/ PublishChannelClosed(p) \/ GiveUp(p) \/ NextAttempt(p)
    BY <2>1, IdleKeepsRest
  <2>2. CASE PublishEnter(p)
    BY <2>2, EnterKeepsRest
  <2>3. CASE RegisterRefused(p)
    BY <2>3, RefusedKeepsRest
  <2>4. CASE Register(p)
    BY <2>4, RegisterKeepsRest
  <2>5. CASE SendReachesBroker(p)
    BY <2>5, ReachKeepsRest
  <2>6. CASE SendSucceeds(p)
    BY <2>6, SucceedKeepsRest
  <2>7. CASE SendFails(p)
    BY <2>7, FailsKeepsRest
  <2>8. CASE RetryRepublish(p)
    BY <2>8, RetryKeepsRest
  <2>9. QED
    BY <1>1, <2>1, <2>2, <2>3, <2>4, <2>5, <2>6, <2>7, <2>8 DEF PublishStep
<1>2. CASE \E r \in Refresher : RefreshStep(r)
  BY <1>2, RefreshKeepsRest
<1>3. ASSUME NEW g \in Gen, ReaderStep(g) \/ BrokerStep(g)
      PROVE  Rest'
  <2>1. CASE HandleConfirmation(g)
    BY <2>1, ConfirmKeepsRest
  <2>2. CASE HandleReturn(g)
    BY <2>2, ReturnKeepsRest
  <2>3. CASE ReturnReaderExits(g) \/ ConfirmReaderStops(g) \/ MarkDead(g) \/ BrokerStep(g)
    BY <2>3, ReaderKeepsRest
  <2>4. CASE CollectOrphans(g)
    BY <2>4, CollectKeepsRest
  <2>5. CASE \E o \in Pending : SettleOrphan(g, o)
    BY <2>5, SettleKeepsRest
  <2>6. QED
    BY <1>3, <2>1, <2>2, <2>3, <2>4, <2>5 DEF ReaderStep
<1>4. ASSUME NEW o \in Pending, MessageStep(o)
      PROVE  Rest'
  <2>1. CASE Expire(o)
    BY <2>1, OtherKeepsRest
  <2>2. CASE HandleTimeout(o)
    BY <2>2, TimeoutKeepsRest
  <2>3. CASE HandleGraceExpired(o)
    BY <2>3, GraceKeepsRest
  <2>4. CASE Finish(o)
    BY <2>4, FinishKeepsRest
  <2>5. QED
    BY <1>4, <2>1, <2>2, <2>3, <2>4 DEF MessageStep
<1>5. CASE \/ KeeperWakes \/ CloseBegin \/ CloseConfirmChannel \/ CloseReturns
           \/ FreshChannelDies \/ (\E c \in Call : ContextEnds(c)) \/ UNCHANGED vars
  BY <1>5, OtherKeepsRest
<1>6. QED
  BY <1>1, <1>2, <1>3, <1>4, <1>5 DEF Next

LEMMA StepContract == DistinctIds /\ CInv /\ [Next]_vars => CInv'
<1>1. CInv /\ [Next]_vars => IInv'
  BY StepMatch DEF CInv
<1>2. QED
  BY <1>1, StepGenerations, StepPositions, StepRest DEF CInv, Rest
-------------------------------------------------------------------------------
\* What the publisher promises

\* The invariant, for calls with message IDs of their own.
LEMMA ContractInvariant ==
    ASSUME DistinctIds
    PROVE  Spec => []CInv
<1>1. CInv /\ [Next]_vars => CInv'
  BY StepContract
<1>2. QED
  BY <1>1, InitContract, PTL DEF Spec

\* A message with an outcome was sent, and where the broker answered it is this message.
LEMMA TrueOutcomes == CInv => OutcomesTrue
<1> SUFFICES ASSUME CInv, NEW o \in Pending, pend[o].FinalOutcome # "none"
             PROVE  LET g == gens[pend[o].gen]
                        t == pend[o].tag
                        is(outcome) == pend[o].FinalOutcome = outcome
                    IN  /\ is("confirmed") => t <= Len(g.verdicts) /\ g.sent[t] = CallOf(o) /\ g.verdicts[t]
                        /\ is("nacked") => t <= Len(g.verdicts) /\ g.sent[t] = CallOf(o) /\ ~g.verdicts[t]
                        /\ is("returned") => t \in g.bounced /\ g.sent[t] = CallOf(o)
                        /\ is("orphaned") => g.dead /\ t > Len(g.verdicts)
  BY DEF OutcomesTrue
<1>1. o[1] \in Proc /\ IInv /\ MessageSound(o) /\ Truth(o)
  BY StateFacts DEF CInv, Messages, MessageInv
<1>2. o = Current(o[1]) /\ pc[o[1]] \in Sent /\ Mine(o[1]) = pend[o]
  BY <1>1 DEF MessageSound, Mine
<1>3. pend[o].gen \in Gen /\ pend[o].tag \in Nat
  BY <1>1, <1>2, LiveFacts DEF CInv, Positions, Sent, Live
<1>4. /\ pend[o].tag <= Len(gens[pend[o].gen].sent) =>
             gens[pend[o].gen].sent[pend[o].tag] = CallOf(o)
      /\ Len(gens[pend[o].gen].verdicts) <= Len(gens[pend[o].gen].sent)
      /\ SoundGeneration(gens[pend[o].gen], pend[o].gen, cur, closed)
      /\ gens[pend[o].gen].handled \in Nat
      /\ Len(gens[pend[o].gen].verdicts) \in Nat /\ Len(gens[pend[o].gen].sent) \in Nat
  BY <1>1, <1>2, <1>3, StateFacts, GenerationFacts
     DEF CInv, Positions, SentMatch, Generations, GenOf, CallOf, IInv
<1>5. \A t \in gens[pend[o].gen].bounced : t <= Len(gens[pend[o].gen].sent)
  BY <1>4 DEF SoundGeneration
<1>6. gens[pend[o].gen].handled <= Len(gens[pend[o].gen].verdicts)
  BY <1>4 DEF SoundGeneration
<1>7. QED
  BY <1>1, <1>3, <1>4, <1>5, <1>6 DEF Truth

\* What a finished sweep left undecided is claimed, deferred or waits out its grace period.
LEMMA CleanSweep == CInv => SweptClean
<1> SUFFICES ASSUME CInv, NEW o \in byTag, gens[pend[o].gen].confirmReader = "done",
                    closed = "no", ~pend[o].CallbackFired
             PROVE  \/ o \in gens[pend[o].gen].orphans
                    \/ pend[o].inFlight /\ pend[o].orphanDeferred
                    \/ pend[o].Confirmed /\ pend[o].grace # "off"
  BY DEF SweptClean
<1>1. Swept(o) /\ Deferred(o) /\ Graced(o)
  BY StateFacts DEF CInv, Messages, MessageInv
<1>2. QED
  BY <1>1 DEF Swept, Deferred, Graced

\* The last of a call's processes that has begun.
LEMMA LastProcess ==
    ASSUME CInv, NEW c \in Call
    PROVE  \E r \in 0 .. MaxRetryAttempts :
               /\ pc[<<c, r>>] # "idle"
               /\ \A s \in 0 .. MaxRetryAttempts : s > r => pc[<<c, s>>] = "idle"
<1> DEFINE M == MaxRetryAttempts
           T == {k \in 0 .. M : pc[<<c, M - k>>] # "idle"}
           R == OpToRel(<, Nat)
<1>1. M \in Nat
  BY ConstantsOK
<1>2. T \subseteq Nat /\ M \in T
  BY <1>1 DEF CInv, Calls, Started
<1>3. \A x, y \in Nat : y < x => <<y, x>> \in R
  BY DEF OpToRel
<1>4. \E x \in T : \A y \in T : ~(<<y, x>> \in R)
  <2> HIDE DEF R, T
  <2>1. IsWellFoundedOn(R, Nat)
    BY NatLessThanWellFounded DEF R
  <2>2. QED
    BY <1>2, <2>1, WFMin
<1>5. PICK k \in T : \A j \in T : ~(j < k)
  BY <1>2, <1>3, <1>4
<1>6. M - k \in 0 .. M /\ pc[<<c, M - k>>] # "idle"
  BY <1>1, <1>5
<1>7. ASSUME NEW s \in 0 .. M, s > M - k PROVE pc[<<c, s>>] = "idle"
  <2>1. M - s \in 0 .. M /\ M - s < k /\ M - (M - s) = s
    BY <1>1, <1>5, <1>7
  <2>2. QED
    BY <1>5, <2>1
<1>8. QED
  BY <1>6, <1>7

\* A message sent and still without an outcome is watched: by its timers, the sweep, or the
\* reader that will decide it.
LEMMA UndecidedWatched ==
    ASSUME CInv, NEW p \in Proc, pc[p] = "nil", closed = "no", ~Mine(p).CallbackFired
    PROVE  Current(p) \in byTag /\ Watched(Current(p))
<1> SUFFICES ASSUME NEW o \in Pending, o = Current(p)
             PROVE  o \in byTag /\ Watched(o)
  BY CurrentType, StateFacts DEF CInv
<1>1. /\ o[1] = p /\ o = Current(o[1]) /\ Mine(p) = pend[o] /\ ~pend[o].CallbackFired
      /\ pc[o[1]] \in Live
  BY DEF Current, Mine, Live
<1>2. o \in byTag /\ ~pend[o].inFlight
  BY <1>1, UndecidedStored
<1>3. /\ pend[o].gen \in 1 .. cur /\ pend[o].gen \in Gen /\ cur \in Nat
      /\ gens[pend[o].gen] \in Generation
      /\ SoundGeneration(gens[pend[o].gen], pend[o].gen, cur, closed)
  BY <1>1, LiveTruth, StateFacts DEF CInv, Generations
<1>4. gens[pend[o].gen].confirmReader \in {"running", "marked", "done"}
  BY <1>3 DEF Generation, SoundGeneration
<1>5. CASE gens[pend[o].gen].confirmReader = "done"
  BY <1>1, <1>2, <1>5, CleanSweep DEF SweptClean, Watched
<1>6. QED
  BY <1>1, <1>2, <1>4, <1>5 DEF Watched

\* A call that got nil and no callback has one: the last of its processes that has begun is
\* at work, or its message is completed by finishAsync or watched. It cannot have failed:
\* it would have told the call's own callback (retryMessage).
LEMMA CallsAccounted == OwnCallback = Call /\ CInv => Accounted
<1> SUFFICES ASSUME OwnCallback = Call, CInv, NEW c \in Call,
                    pc[<<c, 0>>] = "nil", callbacks[c] = 0, closed = "no",
                    \A r \in 1 .. MaxRetryAttempts : pc[<<c, r>>] \in {"idle", "nil", "error"}
             PROVE  \E o \in byTag : CallOf(o) = c /\ Watched(o)
  BY DEF Accounted
<1>1. PICK r \in 0 .. MaxRetryAttempts :
               /\ pc[<<c, r>>] # "idle"
               /\ \A s \in 0 .. MaxRetryAttempts : s > r => pc[<<c, s>>] = "idle"
  BY LastProcess
<1> DEFINE p == <<c, r>>
<1>2. p \in Proc /\ p[1] = c /\ p[2] = r /\ IInv /\ CallbackSound(p)
  BY DEF Proc, CInv, Calls, Callbacks
<1>3. pc[p] \in {"nil", "error"} /\ (r = 0 => pc[p] = "nil")
  BY <1>1
<1>4. pc[p] = "nil"
  BY <1>2, <1>3 DEF CallbackSound
<1> HIDE DEF p
<1>5. CallOf(Current(p)) = c /\ Current(p) \in Pending /\ Mine(p) \in PendingMessage
  BY <1>2, CurrentType, StateFacts DEF CallOf, Current, Mine
<1>6. Mine(p).finish \in {"no", "pending"}
  BY <1>2, <1>4, <1>5 DEF CallbackSound, Sent, PendingMessage
<1>7. CASE ~Mine(p).CallbackFired
  BY <1>2, <1>4, <1>5, <1>7, UndecidedWatched
<1>8. CASE Mine(p).finish = "pending"
  <2>1. Stored(Current(p)) /\ Current(p)[1] = p
    BY <1>5 DEF CInv, Messages, MessageInv, Current
  <2>2. Current(p) \in byTag
    BY <1>4, <1>8, <2>1 DEF Stored, Unsettled, Live, Mine
  <2>3. QED
    BY <1>5, <1>8, <2>2 DEF Watched, Mine
<1>9. CASE Mine(p).CallbackFired /\ Mine(p).finish = "no"
  <2>1. r < MaxRetryAttempts /\ pc[<<c, r + 1>>] # "idle"
    BY <1>2, <1>4, <1>9 DEF CInv, Calls, Relayed, Sent
  <2>2. QED
    BY <1>1, <2>1, ConstantsOK
<1>10. QED
  BY <1>6, <1>7, <1>8, <1>9

-------------------------------------------------------------------------------
\* What a reader consumes changes only messages of its own channel

\* Nobody but its readers takes the answers of a channel from it.
LEMMA WhoConsumes ==
    ASSUME IInv, Next, pend' # pend, NEW g \in Gen,
           gens'[g].handled # gens[g].handled \/ Len(gens'[g].returns) < Len(gens[g].returns)
    PROVE  HandleConfirmation(g) \/ HandleReturn(g)
<1>0. gens \in [Gen -> Generation] /\ cur \in Gen /\ gens[g] \in Generation /\ gens' # gens
      /\ Len(gens[g].returns) \in Nat
  BY StateFacts, GenerationFacts DEF IInv
<1>1. ASSUME NEW p \in Proc, PublishStep(p) \/ RetryRepublish(p) PROVE FALSE
  <2>1. SendSucceeds(p)
    BY <1>0, <1>1 DEF PublishStep, PublishRejected, PublishChannelClosed, PublishEnter,
       RegisterRefused, Register, SendReachesBroker, SendFails, GiveUp, NextAttempt,
       RetryRepublish, chanVars, msgVars
  <2>2. gens' = [gens EXCEPT ![cur].published = @ + 1]
    BY <2>1 DEF SendSucceeds
  <2>3. gens'[g].handled = gens[g].handled /\ gens'[g].returns = gens[g].returns
    BY <1>0, <2>2 DEF Generation
  <2>4. QED
    BY <1>0, <2>3
<1>2. ASSUME NEW r \in Refresher, RefreshStep(r) PROVE FALSE
  BY <1>2 DEF RefreshStep, RefreshSkip, RefreshLock, RefreshOpen, RefreshFails, RefreshInstall,
     RefreshCloseOld, msgVars
<1>3. ASSUME NEW h \in Gen, ReaderStep(h) PROVE HandleConfirmation(g) \/ HandleReturn(g)
  <2>1. \/ HandleConfirmation(h) \/ HandleReturn(h)
        \/ \E o \in Pending : SettleOrphan(h, o)
    BY <1>3 DEF ReaderStep, ReturnReaderExits, ConfirmReaderStops, MarkDead, CollectOrphans, msgVars
  <2>2. ASSUME NEW o \in Pending, SettleOrphan(h, o) PROVE FALSE
    <3>1. gens' = [gens EXCEPT ![h].orphans = @ \ {o}]
      BY <2>2 DEF SettleOrphan
    <3>2. gens'[g].handled = gens[g].handled /\ gens'[g].returns = gens[g].returns
      BY <1>0, <3>1 DEF Generation
    <3>3. QED
      BY <1>0, <3>2
  <2>3. CASE h # g /\ (HandleConfirmation(h) \/ HandleReturn(h))
    <3>1. gens'[g] = gens[g]
      BY <1>0, <2>3 DEF HandleConfirmation, HandleReturn
    <3>2. QED
      BY <1>0, <3>1
  <2>4. QED
    BY <2>1, <2>2, <2>3
<1>4. ASSUME NEW h \in Gen, BrokerStep(h) PROVE FALSE
  BY <1>4 DEF BrokerStep, ChannelDies, BrokerReturns, BrokerConfirms, msgVars
<1>5. ASSUME NEW o \in Pending, MessageStep(o) PROVE FALSE
  BY <1>0, <1>5 DEF MessageStep, Expire, HandleTimeout, HandleGraceExpired, Finish, chanVars
<1>6. ASSUME \/ KeeperWakes \/ CloseBegin \/ CloseConfirmChannel \/ CloseReturns
             \/ FreshChannelDies \/ \E c \in Call : ContextEnds(c)
      PROVE  FALSE
  BY <1>0, <1>6 DEF KeeperWakes, CloseBegin, CloseConfirmChannel, CloseReturns, FreshChannelDies,
     ContextEnds, msgVars, chanVars
<1>7. QED
  BY <1>1, <1>2, <1>3, <1>4, <1>5, <1>6 DEF Next

\* A confirm finds the message under its key, a return the one under its ID, which is of the
\* same channel when no other call has that ID.
LEMMA ReaderInItsChannel ==
    ASSUME DistinctIds, CInv, NEW g \in Gen, HandleConfirmation(g) \/ HandleReturn(g),
           NEW o \in byTag, pend[o].gen # g
    PROVE  pend'[o] = pend[o]
<1>0. IInv /\ Index /\ byTag \subseteq Pending /\ pend \in [Pending -> PendingMessage]
  BY StateFacts DEF CInv
<1>1. CASE HandleConfirmation(g)
  <2>1. CASE pend' = pend
    BY <2>1
  <2>2. ASSUME NEW t \in AtKey(<<g, gens[g].handled + 1>>), NEW m, TryFinalizeMessage(t, m)
        PROVE  pend'[o] = pend[o]
    <3>1. t # o
      BY <2>2 DEF AtKey, KeyOf
    <3>2. QED
      BY <1>0, <2>2, <3>1 DEF TryFinalizeMessage
  <2>3. QED
    BY <1>1, <2>1, <2>2 DEF HandleConfirmation
<1>2. CASE HandleReturn(g)
  <2>1. CASE pend' = pend
    BY <2>1
  <2>2. ASSUME NEW t \in byTag, IdOfMsg(t) = Head(gens[g].returns), t = Current(t[1]),
               pc[t[1]] \in Live, ~pend[t].CallbackFired, TryFinalizeMessage(t, Bounced(pend[t]))
        PROVE  pend'[o] = pend[o]
    <3>1. t \in Pending /\ Unsettled(t) /\ gens[g].returns # <<>>
      BY <1>0, <1>2, <2>2 DEF Unsettled, HandleReturn
    <3>2. pend[t].gen = g
      BY <2>2, <3>1, ReturnedMessage
    <3>3. QED
      BY <1>0, <2>2, <3>2 DEF TryFinalizeMessage
  <2>3. QED
    BY <1>0, <1>2, <2>1, <2>2, ReturnEffect
<1>3. QED
  BY <1>1, <1>2

LEMMA ReadersStep ==
    ASSUME DistinctIds, CInv, Next, NEW g \in Gen,
           gens'[g].handled # gens[g].handled \/ Len(gens'[g].returns) < Len(gens[g].returns),
           NEW o \in byTag, pend[o].gen # g
    PROVE  pend'[o] = pend[o]
<1>1. CASE pend' = pend
  BY <1>1
<1>2. CASE pend' # pend
  BY <1>2, WhoConsumes, ReaderInItsChannel DEF CInv
<1>3. QED
  BY <1>1, <1>2

-------------------------------------------------------------------------------
\* The publisher implements the contract

\* What the contract sees of a call: that its process <<c, 0>> returned, and its callbacks.
SameAnswer(c) ==
    /\ pc'[<<c, 0>>] = "nil" <=> pc[<<c, 0>>] = "nil"
    /\ pc'[<<c, 0>>] = "error" <=> pc[<<c, 0>>] = "error"
SameShut == closed' # "no" <=> closed # "no"

ContractStep == [Contract!Next]_Contract!contractVars

LEMMA InitAnswers == Init => Contract!Init
<1> SUFFICES ASSUME Init PROVE Contract!Init
  OBVIOUS
<1>1. ASSUME NEW c \in Call PROVE pc[<<c, 0>>] = "publish"
  <2>1. <<c, 0>> \in Refresher /\ <<c, 0>> # Keeper
    BY UserCalls, SentinelsOK DEF Refresher
  <2>2. QED
    BY <2>1 DEF Init
<1>2. QED
  BY <1>1 DEF Init, Contract!Init

\* Nothing the contract sees changes.
LEMMA ContractStutters ==
    ASSUME callbacks' = callbacks, SameShut, \A c \in Call : SameAnswer(c)
    PROVE  ContractStep
<1>1. [c \in Call |-> CASE pc[<<c, 0>>] = "nil" -> "nil"
                        [] pc[<<c, 0>>] = "error" -> "error"
                        [] OTHER -> "running"]'
      = [c \in Call |-> CASE pc[<<c, 0>>] = "nil" -> "nil"
                          [] pc[<<c, 0>>] = "error" -> "error"
                          [] OTHER -> "running"]
  BY DEF SameAnswer
<1>2. QED
  BY <1>1 DEF ContractStep, Contract!contractVars, SameShut

\* A call returns.
LEMMA CallReturns ==
    ASSUME callbacks' = callbacks, SameShut, NEW c \in Call,
           \A d \in Call : d # c => SameAnswer(d),
           pc[<<c, 0>>] \notin {"nil", "error"},
           \/ pc'[<<c, 0>>] = "nil"
           \/ pc'[<<c, 0>>] = "error" /\ callbacks[c] = 0
    PROVE  ContractStep
<1> DEFINE before == [d \in Call |-> CASE pc[<<d, 0>>] = "nil" -> "nil"
                                       [] pc[<<d, 0>>] = "error" -> "error"
                                       [] OTHER -> "running"]
           after == [d \in Call |-> CASE pc'[<<d, 0>>] = "nil" -> "nil"
                                      [] pc'[<<d, 0>>] = "error" -> "error"
                                      [] OTHER -> "running"]
<1>1. before[c] = "running"
  OBVIOUS
<1>2. CASE pc'[<<c, 0>>] = "nil"
  <2>1. after = [before EXCEPT ![c] = "nil"]
    BY <1>2 DEF SameAnswer
  <2>2. Contract!Accept(c)
    BY <1>1, <2>1 DEF Contract!Accept, SameShut
  <2>3. QED
    BY <2>2 DEF ContractStep, Contract!Next
<1>3. CASE pc'[<<c, 0>>] = "error" /\ callbacks[c] = 0
  <2>1. after = [before EXCEPT ![c] = "error"]
    BY <1>3 DEF SameAnswer
  <2>2. Contract!Refuse(c)
    BY <1>1, <1>3, <2>1 DEF Contract!Refuse, SameShut
  <2>3. QED
    BY <2>2 DEF ContractStep, Contract!Next
<1>4. QED
  BY <1>2, <1>3

\* A callback runs.
LEMMA CallbackRuns ==
    ASSUME SameShut, \A d \in Call : SameAnswer(d), NEW c \in Call,
           pc[<<c, 0>>] # "error", callbacks[c] = 0, callbacks' = [callbacks EXCEPT ![c] = 1]
    PROVE  ContractStep
<1> DEFINE before == [d \in Call |-> CASE pc[<<d, 0>>] = "nil" -> "nil"
                                       [] pc[<<d, 0>>] = "error" -> "error"
                                       [] OTHER -> "running"]
           after == [d \in Call |-> CASE pc'[<<d, 0>>] = "nil" -> "nil"
                                      [] pc'[<<d, 0>>] = "error" -> "error"
                                      [] OTHER -> "running"]
<1>1. before[c] # "error" /\ after = before
  BY DEF SameAnswer
<1>2. Contract!Callback(c)
  BY <1>1 DEF Contract!Callback, SameShut
<1>3. QED
  BY <1>2 DEF ContractStep, Contract!Next

\* An error that publishWithDeliveryAssurance returns: to the caller, or from a retry to the
\* call's own callback, once and only for a call that got nil.
LEMMA FailKeepsContract ==
    ASSUME CInv, NEW p \in Proc, Fail(p), SameShut,
           pc[p] \in {"publish", "entered", "sending", "delay", "refreshed"}
    PROVE  ContractStep
<1>1. p \in Call \X (0 .. MaxRetryAttempts) /\ p = <<p[1], p[2]>> /\ p[1] \in Call /\ p[2] \in Nat
  BY ConstantsOK DEF Proc
<1>2. callbacks[p[1]] = 0
  BY DEF CInv, Calls, Callbacks, CallbackSound, Waiting
<1>3. IInv /\ pc' = [pc EXCEPT ![p] = "error"]
  BY DEF CInv, Fail
<1>4. \A q \in Proc : q # p => pc'[q] = pc[q]
  BY <1>3, StateFacts
<1>5. CASE p[2] = 0
  <2>1. \A d \in Call : d # p[1] => SameAnswer(d)
    BY <1>1, <1>4, UserCalls DEF SameAnswer
  <2>2. p = <<p[1], 0>> /\ pc'[p] = "error" /\ callbacks' = callbacks
    BY <1>1, <1>3, <1>5, StateFacts DEF Fail
  <2>3. QED
    BY <1>1, <1>2, <2>1, <2>2, CallReturns
<1>6. CASE p[2] > 0
  <2>1. \A d \in Call : <<d, 0>> # p
    BY <1>6
  <2>2. \A d \in Call : SameAnswer(d)
    BY <1>4, <2>1, UserCalls DEF SameAnswer
  <2>3. CASE p[1] \notin OwnCallback
    BY <2>2, <2>3, ContractStutters DEF Fail
  <2>4. CASE p[1] \in OwnCallback
    <3>1. callbacks' = [callbacks EXCEPT ![p[1]] = 1]
      BY <1>1, <1>2, <1>6, <2>4 DEF Fail
    <3>2. Spent(<<p[1], 0>>)
      BY <1>1, <1>6, UserCalls DEF CInv, Calls, Chain
    <3>3. pc[<<p[1], 0>>] # "error"
      BY <3>2 DEF Spent, Sent
    <3>4. QED
      BY <1>1, <1>2, <2>2, <3>1, <3>3, CallbackRuns
  <2>5. QED
    BY <2>3, <2>4
<1>7. QED
  BY <1>1, <1>5, <1>6

\* One process goes on, and returns nothing yet.
LEMMA OnwardKeepsContract ==
    ASSUME CInv, NEW p \in Refresher, callbacks' = callbacks, SameShut,
           NEW state, pc' = [pc EXCEPT ![p] = state],
           state \notin {"nil", "error"}, pc[p] \notin {"nil", "error"}
    PROVE  ContractStep
<1>1. \A q \in Refresher : pc'[q] = IF q = p THEN state ELSE pc[q]
  BY StateFacts DEF CInv
<1>2. \A d \in Call : SameAnswer(d)
  BY <1>1, UserCalls DEF SameAnswer, Refresher
<1>3. QED
  BY <1>2, ContractStutters

LEMMA PublishKeepsContract ==
    ASSUME CInv, NEW p \in Proc, PublishStep(p) \/ RetryRepublish(p)
    PROVE  ContractStep
<1>0. p \in Refresher /\ SameShut /\ IInv /\ p = <<p[1], p[2]>> /\ p[1] \in Call /\ p[2] \in Nat
  BY ConstantsOK DEF Refresher, CInv, Proc, SameShut, PublishStep, PublishRejected,
     PublishChannelClosed, PublishEnter, RegisterRefused, Register, SendReachesBroker, SendSucceeds,
     SendFails, GiveUp, NextAttempt, RetryRepublish, closeVars
<1>1. CASE Fail(p) /\ ~RetryRepublish(p)
  <2>1. pc'[p] = "error"
    BY <1>0, <1>1, StateFacts DEF Fail
  <2>2. pc[p] \in {"publish", "entered", "sending", "delay", "refreshed"}
    BY <1>0, <1>1, <2>1, StateFacts DEF PublishStep, PublishRejected, PublishChannelClosed,
       PublishEnter, RegisterRefused, Register, SendReachesBroker, SendSucceeds, SendFails, GiveUp,
       NextAttempt
  <2>3. QED
    BY <1>0, <1>1, <2>2, FailKeepsContract
<1>2. CASE SendSucceeds(p)
  <2>1. pc[p] \in {"sending", "sent"} /\ pc' = [pc EXCEPT ![p] = "nil"] /\ callbacks' = callbacks
    BY <1>2 DEF SendSucceeds, userVars
  <2>2. \A q \in Proc : pc'[q] = IF q = p THEN "nil" ELSE pc[q]
    BY <1>0, <2>1, StateFacts
  <2>3. \A d \in Call : <<d, 0>> # p => SameAnswer(d)
    BY <2>2, UserCalls DEF SameAnswer
  <2>4. CASE p[2] = 0
    <3>1. p = <<p[1], 0>> /\ pc'[p] = "nil"
      BY <1>0, <2>2, <2>4
    <3>2. QED
      BY <1>0, <2>1, <2>3, <3>1, CallReturns
  <2>5. CASE p[2] # 0
    BY <1>0, <2>1, <2>3, <2>5, ContractStutters
  <2>6. QED
    BY <2>4, <2>5
<1>3. CASE RetryRepublish(p)
  BY <1>0, <1>3, OnwardKeepsContract DEF RetryRepublish, userVars
<1>4. CASE PublishStep(p) /\ ~Fail(p) /\ ~SendSucceeds(p)
  <2>1. callbacks' = callbacks
    BY <1>4 DEF PublishStep, PublishRejected, PublishChannelClosed, PublishEnter, RegisterRefused,
       Register, SendReachesBroker, SendFails, GiveUp, NextAttempt, ChannelError, userVars
  <2>2. \/ pc' = [pc EXCEPT ![p] = "delay"] \/ pc' = [pc EXCEPT ![p] = "entered"]
        \/ pc' = [pc EXCEPT ![p] = "sending"] \/ pc' = [pc EXCEPT ![p] = "sent"]
        \/ pc' = [pc EXCEPT ![p] = "publish"]
    BY <1>4 DEF PublishStep, PublishRejected, PublishChannelClosed, PublishEnter, RegisterRefused,
       Register, SendReachesBroker, SendFails, GiveUp, NextAttempt, ChannelError
  <2>3. pc[p] \notin {"nil", "error"}
    BY <1>4 DEF PublishStep, PublishRejected, PublishChannelClosed, PublishEnter, RegisterRefused,
       Register, SendReachesBroker, SendFails, GiveUp, NextAttempt
  <2>4. QED
    BY <1>0, <2>1, <2>2, <2>3, OnwardKeepsContract
<1>5. QED
  BY <1>1, <1>2, <1>3, <1>4

LEMMA RefreshKeepsContract ==
    ASSUME CInv, NEW r \in Refresher, RefreshStep(r)
    PROVE  ContractStep
<1>1. callbacks' = callbacks /\ SameShut
  BY DEF RefreshStep, RefreshSkip, RefreshLock, RefreshOpen, RefreshFails, RefreshInstall,
     RefreshCloseOld, userVars, closeVars, SameShut
<1>2. \/ pc' = [pc EXCEPT ![r] = "watch"] \/ pc' = [pc EXCEPT ![r] = "refreshed"]
      \/ pc' = [pc EXCEPT ![r] = "opening"] \/ pc' = [pc EXCEPT ![r] = "installing"]
      \/ pc' = [pc EXCEPT ![r] = "closeOld"]
  BY DEF RefreshStep, RefreshSkip, RefreshLock, RefreshOpen, RefreshFails, RefreshInstall,
     RefreshCloseOld, AfterRefresh
<1>3. pc[r] \notin {"nil", "error"}
  BY DEF RefreshStep, RefreshSkip, RefreshLock, RefreshOpen, RefreshFails, RefreshInstall,
     RefreshCloseOld
<1>4. QED
  BY <1>1, <1>2, <1>3, OnwardKeepsContract

\* What a reader handles may start a retry; no call returns by it.
LEMMA ReaderKeepsContract ==
    ASSUME CInv, NEW g \in Gen, ReaderStep(g) \/ BrokerStep(g)
    PROVE  ContractStep
<1>1. callbacks' = callbacks /\ SameShut
  BY DEF ReaderStep, BrokerStep, HandleConfirmation, HandleReturn, ReturnReaderExits,
     ConfirmReaderStops, MarkDead, CollectOrphans, SettleOrphan, ChannelDies, BrokerReturns,
     BrokerConfirms, userVars, closeVars, SameShut
<1>2. CASE HandleConfirmation(g) /\ pc' # pc
  <2>1. IInv /\ pc = [r \in Refresher |-> pc[r]]
    BY StateFacts DEF CInv
  <2>2. PICK o \in Pending : TryFinalizeMessage(o, Answered(pend[o], gens[g].verdicts[gens[g].handled + 1]))
    BY <1>2, <2>1, ConfirmationEffect
  <2>3. pc' = [pc EXCEPT ![<<CallOf(o), RetryOf(o) + 1>>] = "backoff"]
    BY <1>2, <2>2 DEF TryFinalizeMessage
  <2>4. RetryOf(o) \in Nat
    BY ConstantsOK DEF Pending, Proc, RetryOf
  <2>5. ASSUME NEW d \in Call PROVE pc'[<<d, 0>>] = pc[<<d, 0>>]
    <3>1. <<d, 0>> # <<CallOf(o), RetryOf(o) + 1>>
      BY <2>4
    <3>2. <<d, 0>> \in Refresher
      BY UserCalls DEF Refresher
    <3>3. QED
      BY <2>1, <2>3, <3>1, <3>2
  <2>6. QED
    BY <1>1, <2>5, ContractStutters DEF SameAnswer
<1>3. CASE HandleReturn(g)
  BY <1>1, <1>3, ReturnEffect, UserCalls, ContractStutters DEF SameAnswer, CInv
<1>4. CASE ~(HandleConfirmation(g) /\ pc' # pc) /\ ~HandleReturn(g)
  <2>1. pc' = pc
    BY <1>4 DEF ReaderStep, BrokerStep, ReturnReaderExits, ConfirmReaderStops, MarkDead,
       CollectOrphans, SettleOrphan, ChannelDies, BrokerReturns, BrokerConfirms, procVars
  <2>2. QED
    BY <1>1, <2>1, ContractStutters DEF SameAnswer
<1>5. QED
  BY <1>2, <1>3, <1>4

\* finishAsync calls back once, for a call that did not return an error.
LEMMA FinishKeepsContract ==
    ASSUME CInv, NEW o \in Pending, Finish(o)
    PROVE  ContractStep
<1> DEFINE p == o[1]
           c == CallOf(o)
<1>1. /\ IInv /\ p \in Proc /\ p = <<p[1], p[2]>> /\ p[1] = c /\ c \in Call
      /\ p[2] \in 0 .. MaxRetryAttempts /\ p[2] \in Nat
  BY StateFacts, ConstantsOK DEF CInv, Pending, Proc, CallOf
<1>2. pend[o].finish = "pending" /\ callbacks' = [callbacks EXCEPT ![c] = callbacks[c] + 1]
      /\ pc' = pc /\ SameShut
  BY DEF Finish, procVars, closeVars, SameShut
<1>3. o = Current(p) /\ pc[p] \in Sent /\ Mine(p) = pend[o]
  BY <1>1, <1>2 DEF CInv, Messages, MessageInv, MessageSound, Mine
<1>4. callbacks[c] = 0
  BY <1>1, <1>2, <1>3 DEF CInv, Calls, Callbacks, CallbackSound
<1>5. pc[<<c, 0>>] # "error"
  <2>1. CASE p[2] = 0
    BY <1>1, <1>3, <2>1 DEF Sent
  <2>2. CASE p[2] > 0
    <3>1. Spent(<<c, 0>>)
      BY <1>1, <1>3, <2>2, UserCalls DEF CInv, Calls, Chain, Sent
    <3>2. QED
      BY <3>1 DEF Spent, Sent
  <2>3. QED
    BY <1>1, <2>1, <2>2
<1>6. callbacks' = [callbacks EXCEPT ![c] = 1]
  BY <1>2, <1>4
<1> HIDE DEF c, p
<1>7. QED
  BY <1>1, <1>2, <1>4, <1>5, <1>6, CallbackRuns DEF SameAnswer

LEMMA CloseKeepsContract ==
    ASSUME CloseBegin
    PROVE  ContractStep
BY DEF CloseBegin, procVars, userVars, ContractStep, Contract!Next, Contract!Close

LEMMA OtherKeepsContract ==
    ASSUME CInv,
           \/ \E o \in Pending : Expire(o) \/ HandleTimeout(o) \/ HandleGraceExpired(o)
           \/ KeeperWakes \/ CloseConfirmChannel \/ CloseReturns
           \/ FreshChannelDies \/ (\E c \in Call : ContextEnds(c)) \/ UNCHANGED vars
    PROVE  ContractStep
<1>1. callbacks' = callbacks /\ SameShut
  BY DEF Expire, HandleTimeout, HandleGraceExpired, KeeperWakes, CloseConfirmChannel, CloseReturns,
     FreshChannelDies, ContextEnds, userVars, closeVars, vars, SameShut
<1>2. CASE KeeperWakes
  <2>1. \A q \in Proc : pc'[q] = pc[q]
    BY <1>2, StateFacts DEF CInv, KeeperWakes
  <2>2. QED
    BY <1>1, <2>1, UserCalls, ContractStutters DEF SameAnswer
<1>3. CASE ~KeeperWakes
  <2>1. pc' = pc
    BY <1>3 DEF Expire, HandleTimeout, HandleGraceExpired, CloseConfirmChannel, CloseReturns,
       FreshChannelDies, ContextEnds, procVars, vars
  <2>2. QED
    BY <1>1, <2>1, ContractStutters DEF SameAnswer
<1>4. QED
  BY <1>2, <1>3

LEMMA EveryStepKeepsContract == CInv /\ [Next]_vars => ContractStep
<1> SUFFICES ASSUME CInv, [Next]_vars PROVE ContractStep
  OBVIOUS
<1>1. ASSUME NEW p \in Proc, PublishStep(p) \/ RetryRepublish(p) PROVE ContractStep
  BY <1>1, PublishKeepsContract
<1>2. ASSUME NEW o \in Pending, MessageStep(o) PROVE ContractStep
  BY <1>2, FinishKeepsContract, OtherKeepsContract DEF MessageStep
<1>3. QED
  BY <1>1, <1>2, RefreshKeepsContract, ReaderKeepsContract, CloseKeepsContract, OtherKeepsContract
     DEF Next

-------------------------------------------------------------------------------
\* Theorems

\* Theorem: what a callback reports is what the broker did with this very message: a success
\* was acked, a nack nacked, a return returned, an orphan never answered (tryFinalizeMessage,
\* settleOrphan, handleMandatoryGracePeriodExpired).
THEOREM OutcomesCorrect ==
    ASSUME DistinctIds
    PROVE  Spec => []OutcomesTrue
BY ContractInvariant, TrueOutcomes, PTL

\* Theorem: when failOrphans is done with a dead channel, each message left undecided on it is
\* one it collected, one its sender will settle, or one that waits out its grace period.
THEOREM SweepCorrect ==
    ASSUME DistinctIds
    PROVE  Spec => []SweptClean
BY ContractInvariant, CleanSweep, PTL

\* Theorem: DeliveryStats' totals add up in every state: no outcome is counted twice, none is
\* missed, whoever decides a message (a reader, a timer, the sweep or its sender).
THEOREM StatsCorrect ==
    ASSUME DistinctIds
    PROVE  Spec => []StatsConserved
<1>1. CInv => StatsConserved
  BY DEF CInv
<1>2. QED
  BY <1>1, ContractInvariant, PTL

\* Theorem: when every call brings its own callback, no accepted call is forgotten: while it
\* has had no callback, a goroutine, a retry, a timer or the sweep of its channel is still to
\* act on it (publishTracked, retryMessage).
THEOREM CallsCorrect ==
    ASSUME DistinctIds, OwnCallback = Call
    PROVE  Spec => []Accounted
<1>1. CInv => Accounted
  BY CallsAccounted
<1>2. QED
  BY <1>1, ContractInvariant, PTL

\* Theorem: what the readers of a channel generation consume changes only messages published
\* on it; a return carries no tag, and finds its message by its ID (handleReturn).
THEOREM ReadersCorrect ==
    ASSUME DistinctIds
    PROVE  Spec => ReadersKeepToTheirGeneration
<1>1. CInv /\ [Next]_vars =>
          [\A g \in Gen :
             gens'[g].handled # gens[g].handled \/ Len(gens'[g].returns) < Len(gens[g].returns) =>
                 \A o \in byTag : pend[o].gen # g => pend'[o] = pend[o]]_vars
  BY ReadersStep
<1>2. QED
  BY <1>1, ContractInvariant, PTL DEF Spec, ReadersKeepToTheirGeneration

\* Theorem: the publisher implements DeliveryContract, the promise written above
\* PublishWithDeliveryAssurance: a call that returns an error has no callback, one that returns
\* nil has at most one, whatever the channels, the timers, the retries and Close do.
THEOREM ContractKept ==
    ASSUME DistinctIds
    PROVE  Spec => KeepsContract
<1>1. CInv /\ [Next]_vars => [Contract!Next]_Contract!contractVars
  BY EveryStepKeepsContract DEF ContractStep
<1>2. QED
  BY <1>1, ContractInvariant, InitAnswers, PTL DEF Spec, KeepsContract, Contract!SafeSpec
===============================================================================
