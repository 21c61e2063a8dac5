------------------------ MODULE PlainPublisherProofs ------------------------
(***************************************************************************)
(* SuccessesBacked and SuccessIsOwn for any number of messages, retries,   *)
(* slots and deaths, in every mode and configuration.                      *)
(*                                                                         *)
(* A ticket is a success that was reported or an ack that nobody has read. *)
(* Tickets can be matched with acknowledged messages one to one: the       *)
(* broker answers a message once, and a reader turns an ack into a success *)
(* by taking it away.  That bounds the successes by the acks although      *)
(* nobody knows whose ack a caller took.                                   *)
(*                                                                         *)
(* Calls that follow one another do know.  Only one is at work, so that a  *)
(* channel on which nobody gave up carries at most the message of that     *)
(* call, or its answer, and is the one the call listens to.                *)
(***************************************************************************)
EXTENDS PlainPublisher, FunctionTheorems, FiniteSetTheorems, TLAPS

Places == {"idle", "slot", "prepare", "encode", "publish", "delay", "swap", "sent", "await"} \cup Ended
Waiting == {"sent", "await"}
Channel == [open : BOOLEAN, unanswered : Seq(Messages), answers : Seq(BOOLEAN)]
Channels == 1 .. Len(chans)

Typed ==
    /\ cfg \in Configurations
    /\ pc \in [Messages -> Places] /\ own \in [Messages -> Nat]
    /\ chans \in Seq(Channel) /\ ch \in Channels /\ conf \in Channels
    /\ acked \subseteq Messages
    /\ \A m \in Messages : pc[m] \in {"swap", "await"} => own[m] \in Channels

\* The i-th message on a channel is unanswered.
Holds(g, i, m) == g \in Channels /\ i \in 1 .. Len(chans[g].unanswered) /\ chans[g].unanswered[i] = m

\* A message is sent once and answered once, while the channel is open.
SentOnce ==
    /\ \A g \in Channels : ~ chans[g].open => chans[g].unanswered = <<>>
    /\ \A g, i \in Nat : \A m \in Messages :
         Holds(g, i, m) => /\ pc[m] \in Waiting \cup Ended /\ m \notin acked
                           /\ \A h, j \in Nat : Holds(h, j, m) => h = g /\ j = i
    /\ \A m \in acked : pc[m] \in Waiting \cup Ended

\* Reported successes, and acks to be read.
IsTicket(t) ==
    \/ t[1] = 0 /\ t[2] \in Messages /\ pc[t[2]] = "ok"
    \/ /\ t[1] \in Channels /\ t[2] \in 1 .. Len(chans[t[1]].answers)
       /\ chans[t[1]].answers[t[2]]
Tickets == {t \in Nat \X Nat : IsTicket(t)}
Backed == cfg.confirm => ExistsInjection(Tickets, acked)

-----------------------------------------------------------------------------
\* Calls one after another

InTurn ==
    cfg.mode # "parallel" =>
      \A m \in Messages : pc[m] # "idle" => \A k \in 1 .. m - 1 : pc[k] \in Ended

Fresh(g) == chans[g].unanswered = <<>> /\ chans[g].answers = <<>>
Asks(g, m) == chans[g].unanswered = <<m>> /\ chans[g].answers = <<>>
Told(g, m) ==
    /\ chans[g].unanswered = <<>>
    /\ \E ack \in BOOLEAN : chans[g].answers = <<ack>> /\ (ack => m \in acked)

\* The channel of the call at work, which the listener belongs to.
OneListener ==
    /\ ch = conf \/ \E m \in Messages : pc[m] = "swap" /\ own[m] = conf
    /\ \A m \in Messages : pc[m] = "swap" => own[m] = conf
    /\ \A m \in Messages : pc[m] = "await" => own[m] = ch

\* A channel on which nobody gave up carries what the waiting call expects.
NothingLeftOver ==
    \A g \in Channels \ late :
      Fresh(g) \/ \E m \in Messages : pc[m] \in Waiting /\ g = ch /\ (Asks(g, m) \/ Told(g, m))

Alone == cfg.confirm /\ cfg.mode # "parallel" => OneListener /\ NothingLeftOver

PlainInv == Typed /\ SentOnce /\ Backed /\ InTurn /\ Alone /\ SuccessIsOwn

-----------------------------------------------------------------------------
\* Facts about injections, channels and calls

LEMMA InjectionGrows == ASSUME NEW S, NEW T, NEW U, ExistsInjection(S, T), T \subseteq U
                        PROVE  ExistsInjection(S, U)
<1>1. PICK f \in [S -> T] : \A a, b \in S : f[a] = f[b] => a = b
  BY DEF ExistsInjection, Injection, IsInjective
<1>2. f \in [S -> U]  BY <1>1
<1> QED BY <1>1, <1>2, Fun_IsInj DEF ExistsInjection

LEMMA InjectionExtends ==
  ASSUME NEW S, NEW T, ExistsInjection(S, T), NEW s, NEW t, s \notin S, t \notin T
  PROVE  ExistsInjection(S \cup {s}, T \cup {t})
<1>1. PICK f \in [S -> T] : \A a, b \in S : f[a] = f[b] => a = b
  BY DEF ExistsInjection, Injection, IsInjective
<1> DEFINE g == [x \in S \cup {s} |-> IF x = s THEN t ELSE f[x]]
<1>2. g \in [S \cup {s} -> T \cup {t}]  BY <1>1
<1>3. \A a, b \in S \cup {s} : g[a] = g[b] => a = b  BY <1>1
<1> QED BY <1>2, <1>3, Fun_IsInj DEF ExistsInjection

LEMMA ChannelFacts ==
  ASSUME Typed, NEW g \in Channels
  PROVE  /\ chans[g] \in Channel /\ chans[g].open \in BOOLEAN
         /\ chans[g].unanswered \in Seq(Messages) /\ chans[g].answers \in Seq(BOOLEAN)
         /\ g \in Nat /\ g # 0
<1>1. chans[g] \in Channel /\ g \in Nat /\ g # 0  BY DEF Typed, Channels
<1> QED BY <1>1 DEF Channel

LEMMA SetChannel ==
  ASSUME Typed, NEW g \in Channels, NEW r \in Channel, chans' = [chans EXCEPT ![g] = r]
  PROVE  /\ chans' \in Seq(Channel) /\ Channels' = Channels /\ chans'[g] = r
         /\ \A h \in Channels : h # g => chans'[h] = chans[h]
  BY DEF Typed, Channels

LEMMA TicketsOf ==
  ASSUME Typed, NEW t \in Tickets
  PROVE  /\ t = <<t[1], t[2]>> /\ t[1] \in Nat /\ t[2] \in Nat
         /\ t[1] = 0 => t[2] \in Messages /\ pc[t[2]] = "ok"
         /\ t[1] # 0 => /\ t[1] \in Channels /\ t[2] \in 1 .. Len(chans[t[1]].answers)
                        /\ chans[t[1]].answers[t[2]]
<1>1. 0 \notin Channels  BY DEF Channels, Typed
<1> QED BY <1>1 DEF Tickets, IsTicket

\* In a row, at most one call has begun and not ended.
LEMMA OneAtWork ==
  ASSUME Typed, InTurn, cfg.mode # "parallel", NEW m \in Messages, NEW k \in Messages,
         pc[m] \notin {"idle"} \cup Ended, pc[k] \notin {"idle"} \cup Ended
  PROVE  m = k
<1>1. m \in Nat /\ k \in Nat /\ m >= 1 /\ k >= 1  BY PlainAssumption DEF Messages
<1>2. CASE m < k  BY <1>1, <1>2 DEF InTurn
<1>3. CASE k < m  BY <1>1, <1>3 DEF InTurn
<1> QED BY <1>1, <1>2, <1>3

LEMMA InitInv == PlainInit => PlainInv
<1> SUFFICES ASSUME PlainInit PROVE PlainInv OBVIOUS
<1> USE DEF PlainInit
<1>1. Len(chans) = 1 /\ chans[1] = NewChannel /\ Channels = {1}
  BY DEF Channels
<1>2. NewChannel \in Channel /\ chans \in Seq(Channel)
  BY DEF NewChannel, Channel
<1>3. Typed
  BY <1>1, <1>2 DEF Typed, Places
<1>4. SentOnce
  BY <1>1 DEF SentOnce, Holds, NewChannel
<1>5. Tickets = {}
  BY <1>1 DEF Tickets, IsTicket, NewChannel
<1>6. Backed
  BY <1>5, Fun_ExistsInjReflexive DEF Backed
<1>7. InTurn /\ SuccessIsOwn
  BY DEF InTurn, SuccessIsOwn, Succeeded
<1>8. Alone
  BY <1>1 DEF Alone, OneListener, NothingLeftOver, Fresh, NewChannel
<1> QED BY <1>3, <1>4, <1>6, <1>7, <1>8 DEF PlainInv

LEMMA Bounded == Typed /\ Backed => SuccessesBacked
<1> SUFFICES ASSUME Typed, ExistsInjection(Tickets, acked)
             PROVE  Cardinality(Succeeded) <= Cardinality(acked)
  BY DEF Backed, SuccessesBacked
<1>1. Messages \subseteq Nat /\ IsFiniteSet(Messages)
  BY PlainAssumption, FS_Interval DEF Messages
<1>2. IsFiniteSet(acked)  BY <1>1, FS_Subset DEF Typed
<1> DEFINE f == [m \in Succeeded |-> <<0, m>>]
<1>3. f \in Injection(Succeeded, Tickets)
  <2>1. f \in [Succeeded -> Tickets]  BY <1>1 DEF Succeeded, Tickets, IsTicket
  <2> QED BY <2>1, Fun_IsInj
<1>4. ExistsInjection(Succeeded, acked)
  BY <1>3, Fun_ExistsInjTransitive DEF ExistsInjection
<1> QED BY <1>2, <1>4, FS_Injection DEF ExistsInjection

-----------------------------------------------------------------------------
\* A call goes on, or fails, without touching a channel.
Moves(m, label) ==
    /\ pc' = [pc EXCEPT ![m] = label]
    /\ UNCHANGED <<cfg, own, ch, conf, chans, acked, late>>
    /\ pc[m] \notin Waiting \cup Ended \cup {"swap"}
    /\ label \in {"slot", "prepare", "encode", "publish", "delay", "failed", "ok"}
    /\ label = "ok" => ~cfg.confirm
    /\ pc[m] = "idle" /\ cfg.mode # "parallel" => \A k \in 1 .. m - 1 : pc[k] \in Ended

\* A call begins only when those before it have ended.
LEMMA InTurnGoesOn ==
  ASSUME Typed, InTurn, NEW m \in Messages, NEW label, pc' = [pc EXCEPT ![m] = label],
         UNCHANGED cfg, label # "idle", pc[m] \notin Ended,
         pc[m] = "idle" /\ cfg.mode # "parallel" => \A k \in 1 .. m - 1 : pc[k] \in Ended
  PROVE  InTurn'
<1> SUFFICES ASSUME cfg.mode # "parallel", NEW x \in Messages, pc'[x] # "idle", NEW k \in 1 .. x - 1
             PROVE  pc'[k] \in Ended
  BY DEF InTurn
<1>1. k \in Messages /\ x \in Nat  BY PlainAssumption DEF Messages
<1>2. pc[x] # "idle" => pc[k] \in Ended  BY <1>1 DEF InTurn
<1>3. CASE x = m  BY <1>1, <1>2, <1>3 DEF Typed
<1>4. CASE x # m  BY <1>1, <1>2, <1>4 DEF Typed
<1> QED BY <1>3, <1>4

LEMMA MovesInv == ASSUME PlainInv, NEW m \in Messages, NEW label, Moves(m, label) PROVE PlainInv'
<1> USE DEF PlainInv, Moves
<1>1. Typed'
  BY DEF Typed, Places, Channels, Ended
<1>2. \A x \in Messages : x # m => pc'[x] = pc[x]
  BY DEF Typed
<1>3. pc'[m] = label /\ label \notin Waiting \cup {"idle", "swap"}
  BY DEF Typed, Waiting
<1>4. SentOnce'
  BY <1>2, <1>3 DEF SentOnce, Holds, Channels, Typed
<1>5. cfg.confirm => Tickets' = Tickets /\ Succeeded' = Succeeded
  BY <1>2, <1>3 DEF Tickets, IsTicket, Succeeded, Channels, Ended
<1>6. Backed'
  BY <1>5 DEF Backed
<1>7. InTurn'
  BY <1>3, InTurnGoesOn DEF Waiting
<1>8. Alone'
  BY <1>2, <1>3 DEF Alone, OneListener, NothingLeftOver, Fresh, Asks, Told, Channels, Waiting
<1>9. SuccessIsOwn'
  BY <1>5 DEF SuccessIsOwn
<1> QED BY <1>1, <1>4, <1>6, <1>7, <1>8, <1>9

\* The waiting call fails, and leaves at most a channel on which it gave up.
LEMMA GivesUpInv ==
  ASSUME PlainInv, NEW m \in Messages, ConfirmationsClosed(m) \/ WaitEnds(m)
  PROVE  PlainInv'
<1> USE DEF PlainInv
<1>1. /\ pc[m] = "await" /\ pc' = [pc EXCEPT ![m] = "failed"]
      /\ UNCHANGED <<cfg, own, ch, conf, chans, acked>> /\ late \subseteq late'
  BY DEF ConfirmationsClosed, WaitEnds, Finish, publisher, history
<1>2. pc'[m] = "failed" /\ \A x \in Messages : x # m => pc'[x] = pc[x]
  BY <1>1 DEF Typed
<1>3. Typed'
  BY <1>1 DEF Typed, Places, Channels, Ended
<1>4. SentOnce'
  BY <1>1, <1>2 DEF SentOnce, Holds, Channels, Typed, Waiting, Ended
<1>5. Tickets' = Tickets /\ Succeeded' = Succeeded
  BY <1>1, <1>2 DEF Tickets, IsTicket, Succeeded, Channels
<1>6. Backed'
  BY <1>1, <1>5 DEF Backed
<1>7. InTurn'
  BY <1>1, InTurnGoesOn DEF Ended
<1>8. SuccessIsOwn'
  BY <1>1, <1>5 DEF SuccessIsOwn
<1>9. Alone'
  <2> SUFFICES ASSUME cfg.confirm, cfg.mode # "parallel" PROVE OneListener' /\ NothingLeftOver'
    BY <1>1 DEF Alone
  <2>1. OneListener'
    BY <1>1, <1>2 DEF Alone, OneListener
  <2>2. ASSUME NEW x \in Messages, pc[x] \in Waiting PROVE x = m
    BY <1>1, <2>2, OneAtWork DEF Waiting, Ended
  <2>3. own[m] \in Channels /\ own[m] = ch  BY <1>1 DEF Alone, OneListener, Typed
  <2>4. ASSUME NEW g \in Channels, g \notin late' PROVE Fresh(g)
    <3>1. g \notin late  BY <1>1, <2>4
    <3>2. CASE g # ch  BY <3>1, <3>2 DEF Alone, NothingLeftOver
    <3>3. CASE g = ch
      <4>1. chans[g].answers = <<>> /\ ~chans[g].open
        BY <2>3, <2>4, <3>3 DEF ConfirmationsClosed, WaitEnds
      <4> QED BY <4>1 DEF SentOnce, Fresh
    <3> QED BY <3>2, <3>3
  <2>5. NothingLeftOver'
    BY <1>1, <2>4 DEF NothingLeftOver, Fresh, Channels
  <2> QED BY <2>1, <2>5
<1> QED BY <1>3, <1>4, <1>6, <1>7, <1>8, <1>9

-----------------------------------------------------------------------------
\* A publish with confirmations: the message is on the channel of the listener.
LEMMA SendInv == ASSUME PlainInv, NEW m \in Messages, Send(m), cfg.confirm PROVE PlainInv'
<1> USE DEF PlainInv
<1> DEFINE r == [chans[ch] EXCEPT !.unanswered = Append(@, m)]
<1>1. /\ pc[m] = "publish" /\ pc' = [pc EXCEPT ![m] = "sent"] /\ chans[ch].open
      /\ chans' = [chans EXCEPT ![ch] = r] /\ UNCHANGED <<cfg, own, ch, conf, acked, late>>
  BY DEF Send, GoTo, publisher, history
<1>2. pc'[m] = "sent" /\ \A x \in Messages : x # m => pc'[x] = pc[x]
  BY <1>1 DEF Typed
<1>3. ch \in Channels /\ ch \in Nat  BY DEF Typed, Channels
<1>4. /\ r \in Channel /\ r.open = chans[ch].open /\ r.answers = chans[ch].answers
      /\ r.unanswered = Append(chans[ch].unanswered, m)
  <2>1. chans[ch] \in Channel /\ chans[ch].unanswered \in Seq(Messages)
    BY <1>3, ChannelFacts
  <2>2. Append(chans[ch].unanswered, m) \in Seq(Messages)  BY <2>1
  <2> QED BY <2>1, <2>2 DEF Channel
<1>5. /\ chans' \in Seq(Channel) /\ Channels' = Channels /\ chans'[ch] = r
      /\ \A h \in Channels : h # ch => chans'[h] = chans[h]
  BY <1>1, <1>3, <1>4, SetChannel
<1> HIDE DEF r
<1>6. Typed'
  BY <1>1, <1>5 DEF Typed, Places
<1>7. \A h, j \in Nat, x \in Messages :
        Holds(h, j, x)' => Holds(h, j, x) \/ (h = ch /\ j = Len(chans[ch].unanswered) + 1 /\ x = m)
  <2> SUFFICES ASSUME NEW h \in Nat, NEW j \in Nat, NEW x \in Messages, Holds(h, j, x)'
               PROVE  Holds(h, j, x) \/ (h = ch /\ j = Len(chans[ch].unanswered) + 1 /\ x = m)
    OBVIOUS
  <2>1. CASE h = ch
    <3> DEFINE q == chans[ch].unanswered
    <3>1. q \in Seq(Messages)  BY <1>3, ChannelFacts
    <3>2. j \in 1 .. Len(Append(q, m)) /\ Append(q, m)[j] = x  BY <1>4, <1>5, <2>1 DEF Holds
    <3> HIDE DEF q
    <3>3. (j \in 1 .. Len(q) /\ q[j] = x) \/ (j = Len(q) + 1 /\ x = m)  BY <3>1, <3>2
    <3> QED BY <1>3, <2>1, <3>3 DEF Holds, q
  <2>2. CASE h # ch
    BY <1>5, <2>2 DEF Holds
  <2> QED BY <2>1, <2>2
<1>8. \A h, j \in Nat : ~Holds(h, j, m)
  BY <1>1 DEF SentOnce, Waiting, Ended
<1>9. m \notin acked
  BY <1>1 DEF SentOnce, Waiting, Ended
<1>10. SentOnce'
  <2>1. \A g \in Channels' : ~chans'[g].open => chans'[g].unanswered = <<>>
    BY <1>1, <1>4, <1>5 DEF SentOnce
  <2>2. ASSUME NEW g \in Nat, NEW i \in Nat, NEW x \in Messages, Holds(g, i, x)'
        PROVE  /\ pc'[x] \in Waiting \cup Ended /\ x \notin acked'
               /\ \A h, j \in Nat : Holds(h, j, x)' => h = g /\ j = i
    <3>1. CASE x = m
      BY <1>1, <1>2, <1>7, <1>8, <1>9, <2>2, <3>1 DEF Waiting
    <3>2. CASE x # m
      <4>1. Holds(g, i, x)  BY <1>7, <2>2, <3>2
      <4>2. \A h, j \in Nat : Holds(h, j, x)' => Holds(h, j, x)  BY <1>7, <3>2
      <4> QED BY <1>1, <1>2, <3>2, <4>1, <4>2 DEF SentOnce
    <3> QED BY <3>1, <3>2
  <2>3. \A x \in acked' : pc'[x] \in Waiting \cup Ended
    BY <1>1, <1>2 DEF SentOnce, Typed, Waiting
  <2> QED BY <2>1, <2>2, <2>3 DEF SentOnce
<1>11. Tickets' = Tickets /\ Succeeded' = Succeeded
  <2>1. \A t \in Nat \X Nat : IsTicket(t)' <=> IsTicket(t)
    BY <1>1, <1>2, <1>4, <1>5 DEF IsTicket
  <2>2. Succeeded' = Succeeded
    BY <1>1, <1>2 DEF Succeeded
  <2> QED BY <2>1, <2>2 DEF Tickets
<1>12. Backed' /\ SuccessIsOwn'
  BY <1>1, <1>11 DEF Backed, SuccessIsOwn
<1>13. InTurn'
  BY <1>1, InTurnGoesOn DEF Ended
<1>14. Alone'
  <2> SUFFICES ASSUME cfg.mode # "parallel" PROVE OneListener' /\ NothingLeftOver'
    BY <1>1 DEF Alone
  <2>1. ASSUME NEW x \in Messages, pc[x] \in Waiting \cup {"swap"} PROVE FALSE
    BY <1>1, <2>1, OneAtWork DEF Waiting, Ended
  <2>2. OneListener'
    BY <1>1, <1>2, <2>1 DEF Alone, OneListener, Waiting
  <2>3. \A g \in Channels \ late : Fresh(g)
    BY <2>1 DEF Alone, NothingLeftOver
  <2>4. ASSUME NEW g \in Channels, g \notin late, g # ch PROVE Fresh(g)'
    BY <1>5, <2>3, <2>4 DEF Fresh
  <2>5. ASSUME ch \notin late PROVE Asks(ch, m)'
    BY <1>1, <1>3, <1>4, <1>5, <2>3, <2>5 DEF Fresh, Asks
  <2>6. NothingLeftOver'
    BY <1>1, <1>2, <1>5, <2>4, <2>5 DEF NothingLeftOver, Waiting
  <2> QED BY <2>2, <2>6
<1> QED BY <1>6, <1>10, <1>12, <1>13, <1>14

-----------------------------------------------------------------------------
\* A new channel: nothing is on it yet, and the listener belongs to it.
LEMMA OpenChannelInv == ASSUME PlainInv, NEW m \in Messages, OpenReplacement(m) PROVE PlainInv'
<1> USE DEF PlainInv
<1> DEFINE n == Len(chans) + 1
<1>1. /\ pc[m] = "delay" /\ pc' = [pc EXCEPT ![m] = "swap"] /\ chans' = Append(chans, NewChannel)
      /\ own' = [own EXCEPT ![m] = Len(chans')] /\ conf' = IF cfg.confirm THEN Len(chans') ELSE conf
      /\ UNCHANGED <<cfg, ch, acked, late>>
  BY DEF OpenReplacement, GoTo, history
<1>2. pc'[m] = "swap" /\ \A x \in Messages : x # m => pc'[x] = pc[x] /\ own'[x] = own[x]
  BY <1>1 DEF Typed
<1>3. /\ NewChannel \in Channel /\ NewChannel.open /\ NewChannel.unanswered = <<>>
      /\ NewChannel.answers = <<>>
  BY DEF NewChannel, Channel
<1>4. /\ chans' \in Seq(Channel) /\ Len(chans') = n /\ n \in Nat /\ chans'[n] = NewChannel
      /\ Channels' = Channels \cup {n} /\ \A h \in Channels : chans'[h] = chans[h]
      /\ n \notin Channels
  <2>1. chans \in Seq(Channel) /\ Len(chans) \in Nat  BY DEF Typed
  <2>2. Append(chans, NewChannel) \in Seq(Channel)  BY <1>3, <2>1
  <2>3. Len(chans') = n /\ chans'[n] = NewChannel /\ \A h \in 1 .. Len(chans) : chans'[h] = chans[h]
    BY <1>1, <1>3, <2>1
  <2>4. 1 .. n = (1 .. Len(chans)) \cup {n} /\ n \notin 1 .. Len(chans) /\ n \in Nat  BY <2>1
  <2> QED BY <1>1, <2>2, <2>3, <2>4 DEF Channels
<1> HIDE DEF n
<1>5. own'[m] = n
  BY <1>1, <1>4 DEF Typed
<1>6. Typed'
  BY <1>1, <1>2, <1>4, <1>5 DEF Typed, Places
<1>7. \A h, j \in Nat, x \in Messages : Holds(h, j, x)' <=> Holds(h, j, x)
  <2> SUFFICES ASSUME NEW h \in Nat, NEW j \in Nat, NEW x \in Messages
               PROVE  Holds(h, j, x)' <=> Holds(h, j, x)
    OBVIOUS
  <2>1. CASE h \in Channels  BY <1>4, <2>1 DEF Holds
  <2>2. CASE h = n  BY <1>3, <1>4, <2>2 DEF Holds
  <2>3. CASE h \notin Channels \cup {n}  BY <1>4, <2>3 DEF Holds
  <2> QED BY <2>1, <2>2, <2>3
<1>8. SentOnce'
  <2>1. \A g \in Channels' : ~chans'[g].open => chans'[g].unanswered = <<>>
    BY <1>3, <1>4 DEF SentOnce
  <2>2. \A x \in Messages : pc[x] \in Waiting \cup Ended => pc'[x] \in Waiting \cup Ended
    BY <1>1, <1>2 DEF Waiting, Ended
  <2>3. ASSUME NEW g \in Nat, NEW i \in Nat, NEW x \in Messages, Holds(g, i, x)'
        PROVE  /\ pc'[x] \in Waiting \cup Ended /\ x \notin acked'
               /\ \A h, j \in Nat : Holds(h, j, x)' => h = g /\ j = i
    BY <1>1, <1>7, <2>2, <2>3 DEF SentOnce
  <2>4. \A x \in acked' : pc'[x] \in Waiting \cup Ended
    BY <1>1, <2>2 DEF SentOnce, Typed
  <2> QED BY <2>1, <2>3, <2>4 DEF SentOnce
<1>9. Tickets' = Tickets /\ Succeeded' = Succeeded
  <2>1. ASSUME NEW t \in Nat \X Nat PROVE IsTicket(t)' <=> IsTicket(t)
    <3>1. CASE t[1] = n  BY <1>1, <1>2, <1>3, <1>4, <3>1 DEF IsTicket
    <3>2. CASE t[1] # n  BY <1>1, <1>2, <1>4, <3>2 DEF IsTicket
    <3> QED BY <3>1, <3>2
  <2>2. Succeeded' = Succeeded
    BY <1>1, <1>2 DEF Succeeded
  <2> QED BY <2>1, <2>2 DEF Tickets
<1>10. Backed'
  BY <1>1, <1>9 DEF Backed
<1>11. SuccessIsOwn'
  BY <1>1, <1>2, <1>9 DEF SuccessIsOwn, Succeeded
<1>12. InTurn'
  BY <1>1, InTurnGoesOn DEF Ended
<1>13. Alone'
  <2> SUFFICES ASSUME cfg.confirm, cfg.mode # "parallel" PROVE OneListener' /\ NothingLeftOver'
    BY <1>1 DEF Alone
  <2>1. ASSUME NEW x \in Messages, pc[x] \in Waiting \cup {"swap"} PROVE FALSE
    BY <1>1, <2>1, OneAtWork DEF Waiting, Ended
  <2>2. conf' = n  BY <1>1, <1>4
  <2>3. OneListener'
    BY <1>2, <1>5, <2>1, <2>2 DEF OneListener, Waiting
  <2>4. \A g \in Channels \ late : Fresh(g)
    BY <2>1 DEF Alone, NothingLeftOver
  <2>5. NothingLeftOver'
    BY <1>1, <1>3, <1>4, <2>4 DEF NothingLeftOver, Fresh
  <2> QED BY <2>3, <2>5
<1> QED BY <1>6, <1>8, <1>10, <1>11, <1>12, <1>13

\* p.ch is replaced, and the call goes on or fails.
LEMMA SwapChannelInv == ASSUME PlainInv, NEW m \in Messages, SwapChannel(m) PROVE PlainInv'
<1> USE DEF PlainInv
<1>1. PICK label \in {"publish", "failed"} : pc' = [pc EXCEPT ![m] = label]
  BY DEF SwapChannel, Retry, GoTo, Finish
<1>2. pc[m] = "swap" /\ ch' = own[m] /\ UNCHANGED <<cfg, own, conf, chans, acked, late>>
  BY DEF SwapChannel, history
<1>3. pc'[m] = label /\ \A x \in Messages : x # m => pc'[x] = pc[x]
  BY <1>1 DEF Typed
<1>4. Typed'
  BY <1>1, <1>2 DEF Typed, Places, Channels, Ended
<1>5. SentOnce'
  BY <1>1, <1>2, <1>3 DEF SentOnce, Holds, Channels, Typed, Waiting, Ended
<1>6. Tickets' = Tickets /\ Succeeded' = Succeeded
  BY <1>1, <1>2, <1>3 DEF Tickets, IsTicket, Succeeded, Channels
<1>7. Backed' /\ SuccessIsOwn'
  BY <1>2, <1>6 DEF Backed, SuccessIsOwn
<1>8. InTurn'
  BY <1>1, <1>2, InTurnGoesOn DEF Ended
<1>9. Alone'
  <2> SUFFICES ASSUME cfg.confirm, cfg.mode # "parallel" PROVE OneListener' /\ NothingLeftOver'
    BY <1>2 DEF Alone
  <2>1. ASSUME NEW x \in Messages, pc[x] \in Waiting \cup {"swap"} PROVE x = m
    BY <1>2, <2>1, OneAtWork DEF Waiting, Ended
  <2>2. OneListener'
    BY <1>2, <1>3, <2>1 DEF Alone, OneListener, Waiting
  <2>3. \A g \in Channels \ late : Fresh(g)
    BY <1>2, <2>1 DEF Alone, NothingLeftOver, Waiting
  <2>4. NothingLeftOver'
    BY <1>2, <2>3 DEF NothingLeftOver, Fresh, Channels
  <2> QED BY <2>2, <2>4
<1> QED BY <1>4, <1>5, <1>7, <1>8, <1>9

\* The call begins to listen.
LEMMA AwaitInv == ASSUME PlainInv, NEW m \in Messages, AwaitConfirmation(m) PROVE PlainInv'
<1> USE DEF PlainInv
<1>1. /\ pc[m] = "sent" /\ pc' = [pc EXCEPT ![m] = "await"] /\ own' = [own EXCEPT ![m] = conf]
      /\ UNCHANGED <<cfg, ch, conf, chans, acked, late>>
  BY DEF AwaitConfirmation, GoTo, publisher, history
<1>2. /\ pc'[m] = "await" /\ own'[m] = conf
      /\ \A x \in Messages : x # m => pc'[x] = pc[x] /\ own'[x] = own[x]
  BY <1>1 DEF Typed
<1>3. Typed'
  BY <1>1, <1>2 DEF Typed, Places, Channels
<1>4. SentOnce'
  BY <1>1, <1>2 DEF SentOnce, Holds, Channels, Typed, Waiting
<1>5. Tickets' = Tickets /\ Succeeded' = Succeeded
  BY <1>1, <1>2 DEF Tickets, IsTicket, Succeeded, Channels
<1>6. Backed'
  BY <1>1, <1>5 DEF Backed
<1>7. SuccessIsOwn'
  BY <1>1, <1>2, <1>5 DEF SuccessIsOwn, Succeeded
<1>8. InTurn'
  BY <1>1, InTurnGoesOn DEF Ended
<1>9. Alone'
  <2> SUFFICES ASSUME cfg.confirm, cfg.mode # "parallel" PROVE OneListener' /\ NothingLeftOver'
    BY <1>1 DEF Alone
  <2>1. ASSUME NEW x \in Messages, pc[x] \in Waiting \cup {"swap"} PROVE x = m
    BY <1>1, <2>1, OneAtWork DEF Waiting, Ended
  <2>2. ch = conf
    BY <1>1, <2>1 DEF Alone, OneListener
  <2>3. OneListener'
    BY <1>1, <1>2, <2>1, <2>2 DEF Alone, OneListener, Waiting
  <2>4. \A x \in Messages : pc[x] \in Waiting => pc'[x] \in Waiting
    BY <1>2 DEF Waiting
  <2>5. NothingLeftOver'
    BY <1>1, <2>4 DEF Alone, NothingLeftOver, Fresh, Asks, Told, Channels
  <2> QED BY <2>3, <2>5
<1> QED BY <1>3, <1>4, <1>6, <1>7, <1>8, <1>9

-----------------------------------------------------------------------------
LEMMA TailFacts == ASSUME NEW a \in Seq(BOOLEAN), a # <<>>
                   PROVE  /\ Len(a) \in Nat /\ Len(a) > 0 /\ Head(a) = a[1] /\ Head(a) \in BOOLEAN
                          /\ Tail(a) \in Seq(BOOLEAN) /\ Len(Tail(a)) = Len(a) - 1
                          /\ \A i \in 1 .. Len(a) - 1 : Tail(a)[i] = a[i + 1]
  OBVIOUS

\* The first answer is taken from the channel.
LEMMA TakesAnswer ==
  ASSUME Typed, NEW g \in Channels, chans[g].answers # <<>>,
         chans' = [chans EXCEPT ![g].answers = Tail(@)]
  PROVE  /\ chans' \in Seq(Channel) /\ Channels' = Channels
         /\ \A h \in Channels : h # g => chans'[h] = chans[h]
         /\ chans'[g].answers = Tail(chans[g].answers)
         /\ chans'[g].unanswered = chans[g].unanswered /\ chans'[g].open = chans[g].open
<1> DEFINE r == [chans[g] EXCEPT !.answers = Tail(@)]
<1>1. chans[g] \in Channel /\ chans[g].answers \in Seq(BOOLEAN)  BY ChannelFacts
<1>2. Tail(chans[g].answers) \in Seq(BOOLEAN)  BY <1>1, TailFacts
<1>3. /\ r \in Channel /\ r.answers = Tail(chans[g].answers)
      /\ r.unanswered = chans[g].unanswered /\ r.open = chans[g].open
  BY <1>1, <1>2 DEF Channel
<1>4. chans' = [chans EXCEPT ![g] = r]  OBVIOUS
<1> HIDE DEF r
<1> QED BY <1>3, <1>4, SetChannel

\* An ack that is read is a ticket that changes hands.
LEMMA TicketsPassOn ==
  ASSUME PlainInv, NEW m \in Messages, TakeConfirmation(m) PROVE ExistsInjection(Tickets', Tickets)
<1> USE DEF PlainInv
<1> DEFINE g == own[m]
           a == chans[g].answers
           f == [t \in Tickets' |-> IF t[1] = g THEN <<g, t[2] + 1>>
                                    ELSE IF t = <<0, m>> THEN <<g, 1>> ELSE t]
<1>1. /\ pc[m] = "await" /\ a # <<>>
      /\ pc' = [pc EXCEPT ![m] = IF Head(a) THEN "ok" ELSE "failed"]
      /\ chans' = [chans EXCEPT ![g].answers = Tail(@)]
  BY DEF TakeConfirmation, Finish
<1>2. g \in Channels /\ g \in Nat /\ g # 0 /\ a \in Seq(BOOLEAN)
  BY <1>1, ChannelFacts DEF Typed
<1>3. /\ Len(a) \in Nat /\ Len(a) > 0 /\ Len(Tail(a)) = Len(a) - 1 /\ Head(a) = a[1]
      /\ \A i \in 1 .. Len(a) - 1 : Tail(a)[i] = a[i + 1]
  BY <1>1, <1>2, TailFacts
<1>4. /\ Channels' = Channels /\ chans'[g].answers = Tail(a)
      /\ \A h \in Channels : h # g => chans'[h] = chans[h]
  BY <1>1, <1>2, TakesAnswer
<1>5. /\ pc'[m] = IF Head(a) THEN "ok" ELSE "failed"
      /\ \A x \in Messages : x # m => pc'[x] = pc[x]
  BY <1>1 DEF Typed
<1> HIDE DEF g, a
<1>6. ASSUME NEW t \in Tickets'
      PROVE  /\ t = <<t[1], t[2]>> /\ t[1] \in Nat /\ t[2] \in Nat
             /\ t[1] = g => t[2] \in 1 .. Len(a) - 1 /\ a[t[2] + 1]
             /\ t = <<0, m>> => a[1]
             /\ t[1] # g /\ t # <<0, m>> => t \in Tickets
             /\ t[1] # g \/ t # <<0, m>>
  <2>1. t = <<t[1], t[2]>> /\ t[1] \in Nat /\ t[2] \in Nat /\ IsTicket(t)'
    BY DEF Tickets
  <2>2. 0 \notin Channels  BY DEF Channels, Typed
  <2>3. CASE t[1] = g
    BY <1>2, <1>3, <1>4, <2>1, <2>2, <2>3 DEF IsTicket
  <2>4. CASE t = <<0, m>>
    BY <1>2, <1>3, <1>4, <1>5, <2>1, <2>2, <2>4 DEF IsTicket
  <2>5. CASE t[1] # g /\ t # <<0, m>>
    <3>1. CASE t[1] = 0  BY <1>4, <1>5, <2>1, <2>2, <2>5, <3>1 DEF IsTicket, Tickets
    <3>2. CASE t[1] # 0  BY <1>4, <2>1, <2>5, <3>2 DEF IsTicket, Tickets
    <3> QED BY <2>1, <2>5, <3>1, <3>2
  <2> QED BY <1>2, <2>1, <2>3, <2>4, <2>5
<1>7. \A i \in 1 .. Len(a) : a[i] => <<g, i>> \in Tickets
  BY <1>2, <1>3 DEF Tickets, IsTicket, a
<1>8. f \in [Tickets' -> Tickets]
  BY <1>3, <1>6, <1>7
<1>9. ASSUME NEW s \in Tickets', NEW t \in Tickets', f[s] = f[t] PROVE s = t
  <2>1. \A u \in Tickets' : u[1] = g => f[u] = <<g, u[2] + 1>> /\ u = <<g, u[2]>> /\ u[2] \in Nat \ {0}
    BY <1>3, <1>6
  <2>2. \A u \in Tickets' : u = <<0, m>> => f[u] = <<g, 1>>
    BY <1>6
  <2>3. \A u \in Tickets' : u[1] # g /\ u # <<0, m>> => f[u] = u
    OBVIOUS
  <2> HIDE DEF f
  <2>4. CASE s[1] = g
    <3>1. CASE t[1] = g  BY <1>9, <2>1, <2>4, <3>1
    <3>2. CASE t = <<0, m>>  BY <1>9, <2>1, <2>2, <2>4, <3>2
    <3>3. CASE t[1] # g /\ t # <<0, m>>  BY <1>9, <2>1, <2>3, <2>4, <3>3
    <3> QED BY <3>1, <3>2, <3>3
  <2>5. CASE s = <<0, m>>
    <3>1. CASE t[1] = g  BY <1>9, <2>1, <2>2, <2>5, <3>1
    <3>2. CASE t = <<0, m>>  BY <2>5, <3>2
    <3>3. CASE t[1] # g /\ t # <<0, m>>  BY <1>9, <2>2, <2>3, <2>5, <3>3
    <3> QED BY <3>1, <3>2, <3>3
  <2>6. CASE s[1] # g /\ s # <<0, m>>
    <3>1. CASE t[1] = g  BY <1>9, <2>1, <2>3, <2>6, <3>1
    <3>2. CASE t = <<0, m>>  BY <1>9, <2>2, <2>3, <2>6, <3>2
    <3>3. CASE t[1] # g /\ t # <<0, m>>  BY <1>9, <2>3, <2>6, <3>3
    <3> QED BY <3>1, <3>2, <3>3
  <2> QED BY <2>4, <2>5, <2>6
<1> QED BY <1>8, <1>9, Fun_IsInj DEF ExistsInjection

LEMMA TakeConfirmationInv ==
  ASSUME PlainInv, NEW m \in Messages, TakeConfirmation(m) PROVE PlainInv'
<1> USE DEF PlainInv
<1>0. PICK g : g = own[m]  OBVIOUS
<1>1. /\ pc[m] = "await" /\ chans[g].answers # <<>>
      /\ pc' = [pc EXCEPT ![m] = IF Head(chans[g].answers) THEN "ok" ELSE "failed"]
      /\ chans' = [chans EXCEPT ![g].answers = Tail(@)]
      /\ UNCHANGED <<cfg, own, ch, conf, acked, late>>
  BY <1>0 DEF TakeConfirmation, Finish, publisher, history
<1>2. g \in Channels /\ chans[g].answers \in Seq(BOOLEAN)
  BY <1>0, <1>1, ChannelFacts DEF Typed
<1>3. /\ chans' \in Seq(Channel) /\ Channels' = Channels
      /\ \A h \in Channels : h # g => chans'[h] = chans[h]
      /\ chans'[g].answers = Tail(chans[g].answers)
      /\ \A h \in Channels : /\ chans'[h].unanswered = chans[h].unanswered
                             /\ chans'[h].open = chans[h].open
  BY <1>1, <1>2, TakesAnswer
<1>4. /\ pc'[m] \in Ended /\ (pc'[m] = "ok" => Head(chans[g].answers))
      /\ \A x \in Messages : x # m => pc'[x] = pc[x]
  BY <1>1 DEF Typed, Ended
<1>5. Typed'
  BY <1>1, <1>3, <1>4 DEF Typed, Places, Ended
<1>6. SentOnce'
  <2>1. \A h, j \in Nat, x \in Messages : Holds(h, j, x)' <=> Holds(h, j, x)
    BY <1>3 DEF Holds
  <2>2. \A x \in Messages : pc[x] \in Waiting \cup Ended => pc'[x] \in Waiting \cup Ended
    BY <1>4
  <2>3. ASSUME NEW h \in Nat, NEW i \in Nat, NEW x \in Messages, Holds(h, i, x)'
        PROVE  /\ pc'[x] \in Waiting \cup Ended /\ x \notin acked'
               /\ \A k, j \in Nat : Holds(k, j, x)' => k = h /\ j = i
    <3>1. acked' = acked /\ Holds(h, i, x)  BY <1>1, <2>1, <2>3
    <3>2. \A k, j \in Nat : Holds(k, j, x)' => Holds(k, j, x)  BY <2>1
    <3>3. /\ pc[x] \in Waiting \cup Ended /\ x \notin acked
          /\ \A k, j \in Nat : Holds(k, j, x) => k = h /\ j = i
      BY <3>1 DEF SentOnce
    <3> QED BY <2>2, <3>1, <3>2, <3>3
  <2>4. \A x \in acked' : pc'[x] \in Waiting \cup Ended
    BY <1>1, <2>2 DEF SentOnce, Typed
  <2> QED BY <1>3, <2>3, <2>4 DEF SentOnce
<1>7. Backed'
  BY <1>1, TicketsPassOn, Fun_ExistsInjTransitive DEF Backed
<1>8. InTurn'
  <2>1. \E label \in Ended : pc' = [pc EXCEPT ![m] = label]  BY <1>1 DEF Ended
  <2> QED BY <1>1, <2>1, InTurnGoesOn DEF Ended
<1>9. ASSUME cfg.confirm, cfg.mode # "parallel"
      PROVE  /\ g = ch /\ \A x \in Messages : pc[x] \in Waiting \cup {"swap"} => x = m
             /\ g \notin late => Told(g, m)
  <2>1. ASSUME NEW x \in Messages, pc[x] \in Waiting \cup {"swap"} PROVE x = m
    BY <1>1, <1>9, <2>1, OneAtWork DEF Waiting, Ended
  <2>2. g = ch
    BY <1>0, <1>1, <1>9 DEF Alone, OneListener
  <2> QED BY <1>1, <1>2, <1>9, <2>1, <2>2 DEF Alone, NothingLeftOver, Fresh, Asks
<1>10. Alone'
  <2> SUFFICES ASSUME cfg.confirm, cfg.mode # "parallel" PROVE OneListener' /\ NothingLeftOver'
    BY <1>1 DEF Alone
  <2>1. OneListener'
    BY <1>1, <1>4, <1>9 DEF Alone, OneListener, Waiting, Ended
  <2>2. ASSUME g \notin late PROVE Fresh(g)'
    <3>1. PICK ack \in BOOLEAN : chans[g].answers = <<ack>>  BY <1>9, <2>2 DEF Told
    <3>2. Tail(<<ack>>) = <<>>  OBVIOUS
    <3> QED BY <1>2, <1>3, <1>9, <2>2, <3>1, <3>2 DEF Told, Fresh
  <2>3. ASSUME NEW h \in Channels, h \notin late, h # g PROVE Fresh(h)'
    <3>1. Fresh(h)  BY <1>9, <2>3 DEF Alone, NothingLeftOver
    <3> QED BY <1>3, <2>3, <3>1 DEF Fresh
  <2>4. NothingLeftOver'
    BY <1>1, <1>3, <2>2, <2>3 DEF NothingLeftOver
  <2> QED BY <2>1, <2>4
<1>11. SuccessIsOwn'
  <2> SUFFICES ASSUME cfg.confirm, cfg.mode # "parallel", NEW x \in Succeeded', own[x] \notin late
               PROVE  x \in acked
    BY <1>1 DEF SuccessIsOwn
  <2>1. CASE x = m
    <3>1. Told(g, m) /\ Head(chans[g].answers)
      BY <1>0, <1>1, <1>4, <1>9, <2>1 DEF Succeeded
    <3>2. PICK ack \in BOOLEAN : chans[g].answers = <<ack>> /\ (ack => m \in acked)
      BY <3>1 DEF Told
    <3>3. Head(<<ack>>) = ack  OBVIOUS
    <3> QED BY <2>1, <3>1, <3>2, <3>3
  <2>2. CASE x # m
    BY <1>4, <2>2 DEF SuccessIsOwn, Succeeded
  <2> QED BY <2>1, <2>2
<1> QED BY <1>5, <1>6, <1>7, <1>8, <1>10, <1>11

-----------------------------------------------------------------------------
\* Channels that close lose what is unanswered, and keep the answers.
LEMMA ClosesInv ==
  ASSUME PlainInv, UNCHANGED <<cfg, pc, own, ch, conf, acked, late>>, chans' \in Seq(Channel),
         Channels' = Channels,
         \A g \in Channels : \/ chans'[g] = chans[g]
                             \/ /\ chans'[g].unanswered = <<>>
                                /\ chans'[g].answers = chans[g].answers
  PROVE  PlainInv'
<1> USE DEF PlainInv
<1>1. Typed'
  BY DEF Typed
<1>2. \A g \in Channels : chans'[g].answers = chans[g].answers
  OBVIOUS
<1>3. SentOnce'
  <2>1. \A h, j \in Nat, x \in Messages : Holds(h, j, x)' => Holds(h, j, x)
    <3> SUFFICES ASSUME NEW h \in Nat, NEW j \in Nat, NEW x \in Messages, Holds(h, j, x)'
                 PROVE  Holds(h, j, x)
      OBVIOUS
    <3>1. h \in Channels /\ j \in 1 .. Len(chans'[h].unanswered) /\ chans'[h].unanswered[j] = x
      BY DEF Holds
    <3>2. chans'[h].unanswered # <<>>  BY <3>1
    <3> QED BY <3>1, <3>2 DEF Holds
  <2>2. \A g \in Channels : ~chans'[g].open => chans'[g].unanswered = <<>>
    BY DEF SentOnce
  <2>3. ASSUME NEW h \in Nat, NEW i \in Nat, NEW x \in Messages, Holds(h, i, x)'
        PROVE  /\ pc[x] \in Waiting \cup Ended /\ x \notin acked
               /\ \A k, j \in Nat : Holds(k, j, x)' => k = h /\ j = i
    <3>1. Holds(h, i, x)  BY <2>1, <2>3
    <3>2. \A k, j \in Nat : Holds(k, j, x)' => Holds(k, j, x)  BY <2>1
    <3> QED BY <3>1, <3>2 DEF SentOnce
  <2>4. \A x \in acked : pc[x] \in Waiting \cup Ended
    BY DEF SentOnce
  <2> QED BY <2>2, <2>3, <2>4 DEF SentOnce
<1>4. Tickets' = Tickets
  BY <1>2 DEF Tickets, IsTicket
<1>5. Backed' /\ InTurn' /\ SuccessIsOwn'
  BY <1>4 DEF Backed, InTurn, SuccessIsOwn, Succeeded
<1>6. Alone'
  <2> SUFFICES ASSUME cfg.confirm, cfg.mode # "parallel" PROVE OneListener' /\ NothingLeftOver'
    BY DEF Alone
  <2>1. OneListener'  BY DEF Alone, OneListener
  <2>2. ASSUME NEW g \in Channels \ late
        PROVE  Fresh(g)' \/ \E m \in Messages : pc[m] \in Waiting /\ g = ch /\ (Asks(g, m) \/ Told(g, m))'
    <3>1. CASE Fresh(g)  BY <1>2, <3>1 DEF Fresh
    <3>2. ASSUME NEW m \in Messages, pc[m] \in Waiting, g = ch, Asks(g, m)
          PROVE  Fresh(g)' \/ Asks(g, m)'
      BY <1>2, <3>2 DEF Asks, Fresh
    <3>3. ASSUME NEW m \in Messages, pc[m] \in Waiting, g = ch, Told(g, m) PROVE Told(g, m)'
      BY <1>2, <3>3 DEF Told
    <3> QED BY <3>1, <3>2, <3>3 DEF Alone, NothingLeftOver
  <2>3. NothingLeftOver'  BY <2>2 DEF NothingLeftOver
  <2> QED BY <2>1, <2>3
<1> QED BY <1>1, <1>3, <1>5, <1>6

LEMMA DiesInv == ASSUME PlainInv, (\E g \in Channels : ChannelDies(g)) \/ LinkDies
                 PROVE  PlainInv'
<1> USE DEF PlainInv
<1>1. \A g \in Channels : /\ Closed(g) \in Channel /\ Closed(g).unanswered = <<>>
                          /\ Closed(g).answers = chans[g].answers
  <2> SUFFICES ASSUME NEW g \in Channels
               PROVE  /\ Closed(g) \in Channel /\ Closed(g).unanswered = <<>>
                      /\ Closed(g).answers = chans[g].answers
    OBVIOUS
  <2>1. chans[g] \in Channel /\ <<>> \in Seq(Messages)  BY ChannelFacts
  <2>2. Closed(g).unanswered = <<>> /\ Closed(g).answers = chans[g].answers
    BY <2>1 DEF Closed, Channel
  <2>3. Closed(g) \in Channel
    BY <2>1 DEF Closed, Channel
  <2> QED BY <2>2, <2>3
<1>2. CASE \E g \in Channels : ChannelDies(g)
  <2>1. PICK g \in Channels : ChannelDies(g)  BY <1>2
  <2>2. chans' = [chans EXCEPT ![g] = Closed(g)]  BY <2>1 DEF ChannelDies
  <2>3. /\ chans' \in Seq(Channel) /\ Channels' = Channels /\ chans'[g] = Closed(g)
        /\ \A h \in Channels : h # g => chans'[h] = chans[h]
    BY <1>1, <2>2, SetChannel
  <2> QED BY <1>1, <2>1, <2>3, ClosesInv DEF ChannelDies, calls, publisher, history
<1>3. CASE LinkDies
  <2>1. DOMAIN chans = Channels /\ chans \in Seq(Channel)  BY DEF Typed, Channels
  <2>2. chans' = [g \in Channels |-> Closed(g)]  BY <1>3, <2>1 DEF LinkDies
  <2>3. chans' \in Seq(Channel) /\ Channels' = Channels
    <3>1. Len(chans) \in Nat  BY <2>1
    <3>2. chans' \in [1 .. Len(chans) -> Channel]  BY <1>1, <2>2 DEF Channels
    <3>3. chans' \in Seq(Channel) /\ Len(chans') = Len(chans)  BY <3>1, <3>2
    <3> QED BY <3>3 DEF Channels
  <2>4. \A g \in Channels : chans'[g] = Closed(g)  BY <2>2
  <2> QED BY <1>1, <1>3, <2>3, <2>4, ClosesInv DEF LinkDies, calls, publisher, history
<1> QED BY <1>2, <1>3

-----------------------------------------------------------------------------
LEMMA QueueFacts == ASSUME NEW q \in Seq(Messages), q # <<>>
                    PROVE  /\ Len(q) \in Nat /\ Len(q) > 0 /\ Head(q) = q[1] /\ Head(q) \in Messages
                           /\ Tail(q) \in Seq(Messages) /\ Len(Tail(q)) = Len(q) - 1
                           /\ \A i \in 1 .. Len(q) - 1 : Tail(q)[i] = q[i + 1]
  OBVIOUS

\* The broker answers the oldest message of an open channel.
LEMMA BrokerAnswersInv == ASSUME PlainInv, NEW g \in Channels, BrokerAnswers(g) PROVE PlainInv'
<1> USE DEF PlainInv
<1> DEFINE q == chans[g].unanswered
           n == Len(chans[g].answers)
           x == Head(q)
<1>1. PICK ack \in BOOLEAN :
        /\ chans' = [chans EXCEPT ![g].unanswered = Tail(@), ![g].answers = Append(@, ack)]
        /\ acked' = IF ack THEN acked \cup {x} ELSE acked
  BY DEF BrokerAnswers
<1>2. UNCHANGED <<cfg, pc, own, ch, conf, late>> /\ q # <<>> /\ chans[g].open
  BY DEF BrokerAnswers, calls, publisher
<1> DEFINE r == [chans[g] EXCEPT !.unanswered = Tail(@), !.answers = Append(@, ack)]
<1>3. /\ chans[g] \in Channel /\ q \in Seq(Messages) /\ chans[g].answers \in Seq(BOOLEAN)
      /\ g \in Nat /\ g # 0
  BY ChannelFacts
<1>4. /\ Tail(q) \in Seq(Messages) /\ Len(q) \in Nat /\ Len(q) > 0 /\ x = q[1] /\ x \in Messages
      /\ Len(Tail(q)) = Len(q) - 1 /\ \A i \in 1 .. Len(q) - 1 : Tail(q)[i] = q[i + 1]
  BY <1>2, <1>3, QueueFacts
<1>5. /\ n \in Nat /\ Append(chans[g].answers, ack) \in Seq(BOOLEAN)
      /\ Len(Append(chans[g].answers, ack)) = n + 1
      /\ Append(chans[g].answers, ack)[n + 1] = ack
      /\ \A i \in 1 .. n : Append(chans[g].answers, ack)[i] = chans[g].answers[i]
  BY <1>3
<1>6. /\ r \in Channel /\ r.open /\ r.unanswered = Tail(q)
      /\ r.answers = Append(chans[g].answers, ack)
  BY <1>2, <1>3, <1>4, <1>5 DEF Channel
<1>7. chans' = [chans EXCEPT ![g] = r]  BY <1>1, <1>3
<1> HIDE DEF r
<1>8. /\ chans' \in Seq(Channel) /\ Channels' = Channels /\ chans'[g] = r
      /\ \A h \in Channels : h # g => chans'[h] = chans[h]
  BY <1>6, <1>7, SetChannel
<1>9. Holds(g, 1, x)
  BY <1>4 DEF Holds
<1> HIDE DEF q, x, n
<1>10. x \notin acked /\ pc[x] \in Waiting \cup Ended /\ \A h, j \in Nat : Holds(h, j, x) => h = g /\ j = 1
  BY <1>3, <1>4, <1>9 DEF SentOnce
<1>11. acked \subseteq acked' /\ acked' \subseteq acked \cup {x}
  BY <1>1
<1>12. Typed'
  BY <1>2, <1>4, <1>8, <1>11 DEF Typed
<1>13. ASSUME NEW h \in Nat, NEW j \in Nat, NEW y \in Messages, Holds(h, j, y)'
       PROVE  Holds(h, IF h = g THEN j + 1 ELSE j, y) /\ (h = g => j # 0)
  <2>1. CASE h = g
    <3>1. j \in 1 .. Len(Tail(q)) /\ Tail(q)[j] = y  BY <1>6, <1>8, <1>13, <2>1 DEF Holds
    <3>2. j # 0 /\ j + 1 \in 1 .. Len(q) /\ q[j + 1] = y  BY <1>4, <3>1
    <3> QED BY <2>1, <3>2 DEF Holds, q
  <2>2. CASE h # g  BY <1>8, <1>13, <2>2 DEF Holds
  <2> QED BY <2>1, <2>2
<1>14. SentOnce'
  <2>1. \A h \in Channels' : ~chans'[h].open => chans'[h].unanswered = <<>>
    BY <1>6, <1>8 DEF SentOnce
  <2>2. ASSUME NEW h \in Nat, NEW i \in Nat, NEW y \in Messages, Holds(h, i, y)'
        PROVE  /\ pc'[y] \in Waiting \cup Ended /\ y \notin acked'
               /\ \A k, j \in Nat : Holds(k, j, y)' => k = h /\ j = i
    <3>1. Holds(h, IF h = g THEN i + 1 ELSE i, y) /\ (h = g => i # 0)  BY <1>13, <2>2
    <3>2. y # x  BY <1>3, <1>10, <3>1
    <3>3. /\ pc[y] \in Waiting \cup Ended /\ y \notin acked
          /\ \A k, j \in Nat : Holds(k, j, y) => k = h /\ j = IF h = g THEN i + 1 ELSE i
      BY <3>1 DEF SentOnce
    <3>4. ASSUME NEW k \in Nat, NEW j \in Nat, Holds(k, j, y)' PROVE k = h /\ j = i
      <4>1. Holds(k, IF k = g THEN j + 1 ELSE j, y)  BY <1>13, <3>4
      <4>2. k = h /\ (IF k = g THEN j + 1 ELSE j) = IF h = g THEN i + 1 ELSE i  BY <3>3, <4>1
      <4> QED BY <4>2
    <3> QED BY <1>2, <1>11, <3>2, <3>3, <3>4
  <2>3. \A y \in acked' : pc'[y] \in Waiting \cup Ended
    BY <1>2, <1>10, <1>11 DEF SentOnce
  <2> QED BY <2>1, <2>2, <2>3 DEF SentOnce
<1>15. Tickets' = IF ack THEN Tickets \cup {<<g, n + 1>>} ELSE Tickets
  <2>1. 0 \notin Channels  BY DEF Channels, Typed
  <2>2. ASSUME NEW t \in Nat \X Nat
        PROVE  IsTicket(t)' <=> IsTicket(t) \/ (ack /\ t = <<g, n + 1>>)
    <3>1. CASE t[1] = g
      <4>1. IsTicket(t)' <=> t[2] \in 1 .. n + 1 /\ Append(chans[g].answers, ack)[t[2]]
        BY <1>3, <1>5, <1>6, <1>8, <2>1, <3>1 DEF IsTicket
      <4>2. IsTicket(t) <=> t[2] \in 1 .. n /\ chans[g].answers[t[2]]
        BY <1>3, <2>1, <3>1 DEF IsTicket, n
      <4>3. t[2] \in Nat /\ (t = <<g, n + 1>> <=> t[2] = n + 1)  BY <3>1
      <4> QED BY <1>5, <4>1, <4>2, <4>3
    <3>2. CASE t[1] # g
      BY <1>2, <1>8, <3>2 DEF IsTicket
    <3> QED BY <3>1, <3>2
  <2>3. <<g, n + 1>> \in Nat \X Nat  BY <1>3, <1>5
  <2> QED BY <2>2, <2>3 DEF Tickets
<1>16. <<g, n + 1>> \notin Tickets
  <2>1. 0 \notin Channels  BY DEF Channels, Typed
  <2> QED BY <1>3, <1>5, <2>1 DEF Tickets, IsTicket, n
<1>17. Backed'
  BY <1>1, <1>2, <1>10, <1>15, <1>16, InjectionExtends DEF Backed
<1>18. InTurn' /\ SuccessIsOwn'
  BY <1>2, <1>11 DEF InTurn, SuccessIsOwn, Succeeded
<1>19. Alone'
  <2> SUFFICES ASSUME cfg.confirm, cfg.mode # "parallel" PROVE OneListener' /\ NothingLeftOver'
    BY <1>2 DEF Alone
  <2>1. OneListener'
    BY <1>2 DEF Alone, OneListener
  <2>2. ASSUME NEW h \in Channels, h \notin late, h # g
        PROVE  Fresh(h)' \/ \E m \in Messages : pc[m] \in Waiting /\ h = ch /\ (Asks(h, m) \/ Told(h, m))'
    BY <1>8, <1>11, <2>2 DEF Alone, NothingLeftOver, Fresh, Asks, Told
  <2>3. ASSUME g \notin late PROVE \E m \in Messages : pc[m] \in Waiting /\ g = ch /\ Told(g, m)'
    <3>1. PICK m \in Messages : pc[m] \in Waiting /\ g = ch /\ Asks(g, m)
      BY <1>2, <2>3 DEF Alone, NothingLeftOver, Fresh, Told, q
    <3>2. q = <<m>> /\ chans[g].answers = <<>>  BY <3>1 DEF Asks, q
    <3>3. Tail(q) = <<>> /\ x = m  BY <3>2 DEF x
    <3>4. Append(chans[g].answers, ack) = <<ack>>  BY <3>2
    <3>5. Told(g, m)'  BY <1>1, <1>6, <1>8, <3>3, <3>4 DEF Told
    <3> QED BY <3>1, <3>5
  <2>4. NothingLeftOver'
    BY <1>2, <1>8, <2>2, <2>3 DEF NothingLeftOver
  <2> QED BY <2>1, <2>4
<1> QED BY <1>12, <1>14, <1>17, <1>18, <1>19

-----------------------------------------------------------------------------
LEMMA CallSteps == ASSUME PlainInv, NEW m \in Messages, CallStep(m) PROVE PlainInv'
<1> USE DEF history, publisher, GoTo, Finish
<1>1. CASE StartNext(m)
  <2>1. \A k \in 1 .. m - 1 : pc[k] \in Ended  BY <1>1 DEF StartNext, Ended
  <2>2. Moves(m, "prepare")  BY <1>1, <2>1 DEF StartNext, Moves, Waiting, Ended
  <2> QED BY <2>2, MovesInv
<1>2. CASE AcquireSlot(m) \/ CancelledWaiting(m) \/ StartParallel(m) \/ CancelledBeforePublish(m)
  <2>1. Moves(m, "slot") \/ Moves(m, "prepare") \/ Moves(m, "failed")
    BY <1>2 DEF AcquireSlot, CancelledWaiting, StartParallel, CancelledBeforePublish, Moves, Waiting, Ended
  <2> QED BY <2>1, MovesInv
<1>3. CASE Prepare(m) \/ Encode(m)
  <2>1. Moves(m, "encode") \/ Moves(m, "publish") \/ Moves(m, "failed")
    BY <1>3 DEF Prepare, Encode, Moves, Waiting, Ended
  <2> QED BY <2>1, MovesInv
<1>4. CASE Send(m) /\ ~cfg.confirm
  <2>1. Moves(m, "ok")  BY <1>4 DEF Send, Moves, Waiting, Ended
  <2> QED BY <2>1, MovesInv
<1>5. CASE SendFails(m) \/ ChannelError(m) \/ DelayCancelled(m)
  <2>1. Moves(m, "failed") \/ Moves(m, "delay")
    BY <1>5 DEF SendFails, ChannelError, DelayCancelled, Moves, Waiting, Ended
  <2> QED BY <2>1, MovesInv
<1>6. CASE RefreshFails(m)
  <2>1. Moves(m, "publish") \/ Moves(m, "failed")
    BY <1>6 DEF RefreshFails, Retry, Moves, Waiting, Ended
  <2> QED BY <2>1, MovesInv
<1>7. CASE Send(m) /\ cfg.confirm  BY <1>7, SendInv
<1>8. CASE OpenReplacement(m)  BY <1>8, OpenChannelInv
<1>9. CASE SwapChannel(m)  BY <1>9, SwapChannelInv
<1>10. CASE AwaitConfirmation(m)  BY <1>10, AwaitInv
<1>11. CASE TakeConfirmation(m)  BY <1>11, TakeConfirmationInv
<1>12. CASE ConfirmationsClosed(m) \/ WaitEnds(m)  BY <1>12, GivesUpInv
<1> QED BY <1>1, <1>2, <1>3, <1>4, <1>5, <1>6, <1>7, <1>8, <1>9, <1>10, <1>11, <1>12 DEF CallStep

LEMMA NextInv == PlainInv /\ [PlainNext]_plainVars => PlainInv'
<1> SUFFICES ASSUME PlainInv, [PlainNext]_plainVars PROVE PlainInv' OBVIOUS
<1>1. CASE \E m \in Messages : CallStep(m)  BY <1>1, CallSteps
<1>2. CASE \E g \in 1 .. Len(chans) : BrokerAnswers(g)  BY <1>2, BrokerAnswersInv DEF Channels
<1>3. CASE (\E g \in 1 .. Len(chans) : ChannelDies(g)) \/ LinkDies
  BY <1>3, DiesInv DEF Channels
<1>4. CASE ContextDone \/ Reconnects \/ UNCHANGED plainVars
  <2>1. UNCHANGED <<cfg, pc, own, ch, conf, chans, acked, late>>
    BY <1>4 DEF ContextDone, Reconnects, plainVars, calls, publisher, history
  <2>2. Channels' = Channels  BY <2>1 DEF Channels
  <2> QED BY <2>1, <2>2, ClosesInv DEF PlainInv, Typed
<1> QED BY <1>1, <1>2, <1>3, <1>4 DEF PlainNext

-----------------------------------------------------------------------------
\* Tickets and acknowledgements can be matched in every reachable state, and
\* calls that follow one another leave nothing behind but on channels they gave up on.
THEOREM PlainInvariant == PlainSpec => []PlainInv
  BY InitInv, NextInv, PTL DEF PlainSpec

\* Publish and PublishBatchParallel with confirmations never return nil more often
\* than the broker acknowledged a message, whoever takes whose confirmation.
THEOREM SuccessesAreBacked == PlainSpec => []SuccessesBacked
<1>1. PlainInv => SuccessesBacked  BY Bounded DEF PlainInv
<1> QED BY <1>1, PlainInvariant, PTL

\* A nil from Publish, in a row or from PublishBatch, is about the caller's own
\* message as long as no wait was given up on its channel.
THEOREM SuccessesAreOwn == PlainSpec => []SuccessIsOwn
<1>1. PlainInv => SuccessIsOwn  BY DEF PlainInv
<1> QED BY <1>1, PlainInvariant, PTL
=============================================================================
