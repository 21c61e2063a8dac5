--------------------------- MODULE PlainPublisher ---------------------------
(***************************************************************************)
(* Publishing without delivery assurance (publisher.go): Publish with its  *)
(* retry loop, refreshChannel and waitForConfirmation, called one message  *)
(* after another, by PublishBatch, or by PublishBatchParallel's            *)
(* goroutines.  p.ch and p.config.confirmations are two fields that no     *)
(* lock protects, and a confirmation is taken by whoever reads it first:   *)
(* its delivery tag is not looked at.                                      *)
(***************************************************************************)
EXTENDS Naturals, Sequences, FiniteSets

CONSTANTS NumMessages,   \* messages of the batch, or calls in a row
          Retries,       \* values of maxConnectionRetries; 0 is "unlimited"
          Limits,        \* values of maxConcurrency; 0 is "unlimited"
          MaxDeaths      \* bound on the deaths of channels and connections

ASSUME PlainAssumption ==
  /\ NumMessages \in Nat \ {0} /\ MaxDeaths \in Nat
  /\ Retries \subseteq Nat /\ Limits \subseteq Nat

Messages == 1 .. NumMessages

VARIABLES
  cfg,          \* how the messages are published, and the publisher's configuration
  pc, attempt,  \* each message's call: where it is, and its rounds of the retry loop
  own,          \* the channel a call opened, or the one whose confirmation it awaits
  slots,        \* semaphore slots held
  ctxDone,      \* the context of the calls is cancelled
  ch, conf,     \* p.ch, and the channel p.config.confirmations listens to
  chans,        \* every channel opened, in order
  up,           \* the client has a connection
  deaths,
  acked,        \* history: messages the broker acknowledged
  late          \* history: channels on which a wait was given up

calls == <<pc, attempt, own, slots>>
publisher == <<ch, conf>>
history == <<acked, late>>
plainVars == <<cfg, calls, ctxDone, publisher, chans, up, deaths, history>>

Modes == {"calls", "batch", "parallel"}
Configurations ==
  {c \in [mode : Modes, confirm : BOOLEAN, autoReconnect : BOOLEAN,
          retries : Retries, limit : Limits] :
     c.mode # "parallel" => c.limit = 0}

\* A channel in confirm mode: messages the broker has yet to answer, and the
\* answers in the listener's buffer, which outlive the channel.
NewChannel == [open |-> TRUE, unanswered |-> <<>>, answers |-> <<>>]

Ended == {"ok", "failed"}

PlainInit ==
  /\ cfg \in Configurations
  /\ pc = [m \in Messages |-> "idle"] /\ attempt = [m \in Messages |-> 0]
  /\ own = [m \in Messages |-> 0] /\ slots = 0
  /\ ctxDone = FALSE /\ up = TRUE /\ deaths = 0
  /\ chans = <<NewChannel>> /\ ch = 1 /\ conf = 1
  /\ acked = {} /\ late = {}

-----------------------------------------------------------------------------
\* The calls

\* A call leaves Publish; a goroutine of PublishBatchParallel frees its slot.
FinishKeepingSlotOnError(m, outcome) ==
  /\ pc' = [pc EXCEPT ![m] = outcome]
  /\ slots' = IF cfg.mode = "parallel" /\ outcome = "ok" THEN slots - 1 ELSE slots

Finish(m, outcome) ==
  /\ pc' = [pc EXCEPT ![m] = outcome]
  /\ slots' = IF cfg.mode = "parallel" THEN slots - 1 ELSE slots

GoTo(m, label) == pc' = [pc EXCEPT ![m] = label] /\ UNCHANGED slots

\* The next call: of PublishBatch if every one before it succeeded, of a program
\* that publishes one message after another if they have all returned.
StartNext(m) ==
  /\ pc[m] = "idle" /\ cfg.mode # "parallel"
  /\ \A k \in 1 .. m - 1 : pc[k] \in IF cfg.mode = "batch" THEN {"ok"} ELSE Ended
  /\ GoTo(m, "prepare")
  /\ UNCHANGED <<cfg, attempt, own, ctxDone, publisher, chans, up, deaths, history>>

\* A goroutine of PublishBatchParallel acquires a slot, be the context alive or not ...
AcquireSlot(m) ==
  /\ pc[m] = "idle" /\ cfg.mode = "parallel"
  /\ cfg.limit # 0 => slots < cfg.limit
  /\ pc' = [pc EXCEPT ![m] = "slot"] /\ slots' = slots + 1
  /\ UNCHANGED <<cfg, attempt, own, ctxDone, publisher, chans, up, deaths, history>>

\* ... or the context ends while it waits for one.
CancelledWaiting(m) ==
  /\ pc[m] = "idle" /\ cfg.mode = "parallel" /\ cfg.limit # 0 /\ ctxDone
  /\ GoTo(m, "failed")
  /\ UNCHANGED <<cfg, attempt, own, ctxDone, publisher, chans, up, deaths, history>>

\* With its slot it looks at the context once more.
StartParallel(m) ==
  /\ pc[m] = "slot" /\ ~ctxDone
  /\ GoTo(m, "prepare")
  /\ UNCHANGED <<cfg, attempt, own, ctxDone, publisher, chans, up, deaths, history>>

CancelledBeforePublish(m) ==
  /\ pc[m] = "slot" /\ ctxDone
  /\ Finish(m, "failed")
  /\ UNCHANGED <<cfg, attempt, own, ctxDone, publisher, chans, up, deaths, history>>

\* Publish validates the exchange and applies the defaults.
Prepare(m) ==
  /\ pc[m] = "prepare"
  /\ GoTo(m, "encode") \/ Finish(m, "failed")
  /\ UNCHANGED <<cfg, attempt, own, ctxDone, publisher, chans, up, deaths, history>>

\* It compresses and encrypts the body, each of which may fail.
Encode(m) ==
  /\ pc[m] = "encode"
  /\ GoTo(m, "publish") \/ Finish(m, "failed")
  /\ UNCHANGED <<cfg, attempt, own, ctxDone, publisher, chans, up, deaths, history>>

\* PublishWithContext returns nil.
Send(m) ==
  /\ pc[m] = "publish" /\ chans[ch].open
  /\ IF cfg.confirm
     THEN /\ GoTo(m, "sent")
          /\ chans' = [chans EXCEPT ![ch].unanswered = Append(@, m)]
     ELSE Finish(m, "ok") /\ UNCHANGED chans
  /\ UNCHANGED <<cfg, attempt, own, ctxDone, publisher, up, deaths, history>>

\* It returns an error that is not the channel's, or that nobody may retry:
\* AutoReconnect is off, or the ReconnectPolicy says so.
SendFails(m) ==
  /\ pc[m] = "publish"
  /\ Finish(m, "failed")
  /\ UNCHANGED <<cfg, attempt, own, ctxDone, publisher, chans, up, deaths, history>>

\* It returns a channel error; the call waits before it replaces the channel.
ChannelError(m) ==
  /\ pc[m] = "publish" /\ ~chans[ch].open /\ cfg.autoReconnect
  /\ GoTo(m, "delay")
  /\ UNCHANGED <<cfg, attempt, own, ctxDone, publisher, chans, up, deaths, history>>

\* The context ends, before or during the wait: the loop ends with its error.
DelayCancelled(m) ==
  /\ pc[m] = "delay" /\ ctxDone
  /\ Finish(m, "failed")
  /\ UNCHANGED <<cfg, attempt, own, ctxDone, publisher, chans, up, deaths, history>>

\* The next round of the loop, if there is one. An unlimited loop counts nothing.
Retry(m) ==
  IF cfg.retries = 0 THEN GoTo(m, "publish") /\ UNCHANGED attempt
  ELSE /\ attempt' = [attempt EXCEPT ![m] = @ + 1]
       /\ IF attempt[m] + 1 > cfg.retries THEN Finish(m, "failed") ELSE GoTo(m, "publish")

\* refreshChannel: no connection, or the new channel dies before Confirm.
RefreshFails(m) ==
  /\ pc[m] = "delay"
  /\ \/ ~up /\ UNCHANGED deaths
     \/ up /\ deaths < MaxDeaths /\ deaths' = deaths + 1
  /\ Retry(m)
  /\ UNCHANGED <<cfg, own, ctxDone, publisher, chans, up, history>>

\* refreshChannel: a new channel, whose confirmations replace the old ones' ...
OpenReplacement(m) ==
  /\ pc[m] = "delay" /\ up
  /\ chans' = Append(chans, NewChannel)
  /\ own' = [own EXCEPT ![m] = Len(chans')]
  /\ conf' = IF cfg.confirm THEN Len(chans') ELSE conf
  /\ GoTo(m, "swap")
  /\ UNCHANGED <<cfg, attempt, ctxDone, ch, up, deaths, history>>

\* ... before p.ch is replaced, whatever another call has put there meanwhile.
SwapChannel(m) ==
  /\ pc[m] = "swap"
  /\ ch' = own[m] /\ Retry(m)
  /\ UNCHANGED <<cfg, own, ctxDone, conf, chans, up, deaths, history>>

-----------------------------------------------------------------------------
\* waitForConfirmation

\* The call reads p.config.confirmations and begins to wait.
AwaitConfirmation(m) ==
  /\ pc[m] = "sent"
  /\ own' = [own EXCEPT ![m] = conf] /\ GoTo(m, "await")
  /\ UNCHANGED <<cfg, attempt, ctxDone, publisher, chans, up, deaths, history>>

\* It takes the next confirmation, whichever message that is for.
TakeConfirmationAckOnly(m) ==
  /\ pc[m] = "await" /\ chans[own[m]].answers # <<>>
  /\ Finish(m, "ok")
  /\ chans' = [chans EXCEPT ![own[m]].answers = Tail(@)]
  /\ UNCHANGED <<cfg, attempt, own, ctxDone, publisher, up, deaths, history>>

TakeConfirmation(m) ==
  /\ pc[m] = "await" /\ chans[own[m]].answers # <<>>
  /\ Finish(m, IF Head(chans[own[m]].answers) THEN "ok" ELSE "failed")
  /\ chans' = [chans EXCEPT ![own[m]].answers = Tail(@)]
  /\ UNCHANGED <<cfg, attempt, own, ctxDone, publisher, up, deaths, history>>

\* The listener is closed and drained: a zero Confirmation, and ok is FALSE.
ConfirmationsClosedIgnored(m) ==
  /\ pc[m] = "await" /\ chans[own[m]].answers = <<>> /\ ~chans[own[m]].open
  /\ Finish(m, "ok")
  /\ UNCHANGED <<cfg, attempt, own, ctxDone, publisher, chans, up, deaths, history>>

ConfirmationsClosed(m) ==
  /\ pc[m] = "await" /\ chans[own[m]].answers = <<>> /\ ~chans[own[m]].open
  /\ Finish(m, "failed")
  /\ UNCHANGED <<cfg, attempt, own, ctxDone, publisher, chans, up, deaths, history>>

\* ConfirmationTimeout passes, or the context ends; the confirmation may follow.
WaitEnds(m) ==
  /\ pc[m] = "await"
  /\ Finish(m, "failed") /\ late' = late \cup {own[m]}
  /\ UNCHANGED <<cfg, attempt, own, ctxDone, publisher, chans, up, deaths, acked>>

-----------------------------------------------------------------------------
\* The context, the broker and the connection

ContextDone ==
  /\ ~ctxDone /\ ctxDone' = TRUE
  /\ UNCHANGED <<cfg, calls, publisher, chans, up, deaths, history>>

\* The broker acks or nacks the oldest publish; the library delivers in order.
BrokerAnswers(g) ==
  /\ chans[g].open /\ chans[g].unanswered # <<>>
  /\ \E ack \in BOOLEAN :
       /\ chans' = [chans EXCEPT ![g].unanswered = Tail(@), ![g].answers = Append(@, ack)]
       /\ acked' = IF ack THEN acked \cup {Head(chans[g].unanswered)} ELSE acked
  /\ UNCHANGED <<cfg, calls, ctxDone, publisher, up, deaths, late>>

Closed(g) == [chans[g] EXCEPT !.open = FALSE, !.unanswered = <<>>]

ChannelDies(g) ==
  /\ chans[g].open /\ deaths < MaxDeaths /\ deaths' = deaths + 1
  /\ chans' = [chans EXCEPT ![g] = Closed(g)]
  /\ UNCHANGED <<cfg, calls, ctxDone, publisher, up, history>>

LinkDies ==
  /\ up /\ deaths < MaxDeaths /\ deaths' = deaths + 1
  /\ up' = FALSE /\ chans' = [g \in DOMAIN chans |-> Closed(g)]
  /\ UNCHANGED <<cfg, calls, ctxDone, publisher, history>>

\* The client reconnects.
Reconnects ==
  /\ ~up /\ cfg.autoReconnect /\ up' = TRUE
  /\ UNCHANGED <<cfg, calls, ctxDone, publisher, chans, deaths, history>>

CallStep(m) ==
  \/ StartNext(m) \/ AcquireSlot(m) \/ CancelledWaiting(m) \/ StartParallel(m)
  \/ CancelledBeforePublish(m) \/ Prepare(m) \/ Encode(m)
  \/ Send(m) \/ SendFails(m) \/ ChannelError(m) \/ DelayCancelled(m)
  \/ RefreshFails(m) \/ OpenReplacement(m) \/ SwapChannel(m)
  \/ AwaitConfirmation(m) \/ TakeConfirmation(m) \/ ConfirmationsClosed(m) \/ WaitEnds(m)

PlainNext ==
  \/ \E m \in Messages : CallStep(m)
  \/ \E g \in 1 .. Len(chans) : BrokerAnswers(g) \/ ChannelDies(g)
  \/ ContextDone \/ LinkDies \/ Reconnects

PlainSpec == PlainInit /\ [][PlainNext]_plainVars

-----------------------------------------------------------------------------
\* Properties

Succeeded == {m \in Messages : pc[m] = "ok"}

\* However the calls share the channel, however often it is replaced under
\* them and whatever they give up waiting for, a publisher with confirmations
\* never reports more successes than the broker acknowledged messages: a
\* confirmation answers one call, a nack and a closed listener none.
SuccessesBacked ==
  cfg.confirm => Cardinality(Succeeded) <= Cardinality(acked)

\* A program that publishes one message after another, with PublishBatch or
\* without, can believe the success of each message as long as it never gave up
\* waiting on the channel that answered, although tags are not compared and
\* the channel may have been replaced in between.
SuccessIsOwn ==
  cfg.confirm /\ cfg.mode # "parallel" =>
    \A m \in Succeeded : own[m] \notin late => m \in acked

Returned ==
  \/ \A m \in Messages : pc[m] \in Ended
  \/ cfg.mode = "batch" /\ \E m \in Messages : pc[m] = "failed"

\* Once a program has begun to publish every call ends, of PublishBatchParallel
\* with all its goroutines and slots, even when retries are unlimited: a channel
\* error is waited out, and a confirmation that never comes is given up.
Publishing == \E m \in Messages : pc[m] # "idle"
CallsReturn == Publishing ~> Returned
=============================================================================
