---------------------------- MODULE StreamHandler ----------------------------
(***************************************************************************)
(* streams/streams.go over streams/native/native.go, for one stream: a     *)
(* cached producer, a map entry for the consumer, and Close.  h.mu is held *)
(* by Close until the environment is closed too; closed is read under a    *)
(* lock that is released before anything is made of the answer.  What the  *)
(* stream client library does is external: closing its environment closes  *)
(* what was made from it.                                                  *)
(***************************************************************************)
EXTENDS Naturals

CONSTANTS
    Publisher,      \* callers of PublishToStream
    Reader,         \* callers of ConsumeFromStream
    MaxProducers    \* bound: producers ever made

VARIABLES
    handler,      \* "open", "closing" (h.mu held), "closed"
    envClosed,
    producer,     \* the map's producer, 0 if none
    made,         \* producers ever made
    producing,    \* producers that are not closed
    publish,      \* [Publisher -> pc], with the producer taken
    consumer,     \* the map's consumer: the Reader whose consumer it is, or "none"
    consuming,    \* Readers whose native consumer is not closed
    read          \* [Reader -> pc]

streamVars == <<handler, envClosed, producer, made, producing, publish, consumer, consuming, read>>
producerVars == <<producer, made, producing>>
consumerVars == <<consumer, consuming>>

StreamInit ==
    /\ handler = "open" /\ envClosed = FALSE
    /\ producer = 0 /\ made = 0 /\ producing = {}
    /\ publish = [p \in Publisher |-> [pc |-> "idle", with |-> 0]]
    /\ consumer = "none" /\ consuming = {}
    /\ read = [r \in Reader |-> "idle"]

------------------------------------------------------------------------------
\* PublishToStream reads closed and lets go of the lock.
PublishToStream(p) ==
    /\ publish[p].pc = "idle" /\ handler # "closing"
    /\ publish' = [publish EXCEPT ![p].pc = IF handler = "closed" THEN "failed" ELSE "lookup"]
    /\ UNCHANGED <<handler, envClosed, producerVars, consumerVars, read>>

\* getOrCreateProducer, under the read lock.
FindProducer(p) ==
    /\ publish[p].pc = "lookup" /\ handler # "closing"
    /\ publish' = [publish EXCEPT ![p] = IF producer # 0 THEN [pc |-> "send", with |-> producer]
                                                         ELSE [pc |-> "create", with |-> 0]]
    /\ UNCHANGED <<handler, envClosed, producerVars, consumerVars, read>>

\* getOrCreateProducer, under the write lock: another caller may have made it since.
CreateProducer(p) ==
    /\ publish[p].pc = "create" /\ handler # "closing"
    /\ \/ /\ producer # 0
          /\ publish' = [publish EXCEPT ![p] = [pc |-> "send", with |-> producer]]
          /\ UNCHANGED producerVars
       \/ /\ producer = 0 /\ ~envClosed /\ made < MaxProducers
          /\ made' = made + 1 /\ producer' = made' /\ producing' = producing \cup {made'}
          /\ publish' = [publish EXCEPT ![p] = [pc |-> "send", with |-> made']]
       \/ /\ producer = 0
          /\ publish' = [publish EXCEPT ![p].pc = "failed"] /\ UNCHANGED producerVars
    /\ UNCHANGED <<handler, envClosed, consumerVars, read>>

\* SendMessage fails on a closed producer. A caller publishes as often as it likes.
SendMessage(p) ==
    /\ publish[p].pc = "send"
    /\ publish' = [publish EXCEPT ![p] =
           [pc |-> IF publish[p].with \in producing THEN "idle" ELSE "failed", with |-> 0]]
    /\ UNCHANGED <<handler, envClosed, producerVars, consumerVars, read>>

ConsumeFromStream(r) ==
    /\ read[r] = "idle" /\ handler # "closing"
    /\ read' = [read EXCEPT ![r] = IF handler = "closed" THEN "failed" ELSE "create"]
    /\ UNCHANGED <<handler, envClosed, producerVars, publish, consumerVars>>

\* NewConsumer takes the environment's lock only.
CreateConsumer(r) ==
    /\ read[r] = "create"
    /\ \/ ~envClosed /\ consuming' = consuming \cup {r} /\ read' = [read EXCEPT ![r] = "store"]
       \/ read' = [read EXCEPT ![r] = "failed"] /\ UNCHANGED consuming
    /\ UNCHANGED <<handler, envClosed, producerVars, publish, consumer>>

\* The entry of another consumer of the stream is overwritten.
StoreConsumer(r) ==
    /\ read[r] = "store" /\ handler # "closing"
    /\ consumer' = r
    /\ read' = [read EXCEPT ![r] = "wait"]
    /\ UNCHANGED <<handler, envClosed, producerVars, publish, consuming>>

\* The context ends: nothing else wakes the call. The entry goes, whosever it is ...
ContextDone(r) ==
    /\ read[r] = "wait" /\ handler # "closing"
    /\ consumer' = "none"
    /\ read' = [read EXCEPT ![r] = "ended"]
    /\ UNCHANGED <<handler, envClosed, producerVars, publish, consuming>>

\* ... and then, without the lock, the caller's own consumer.
CloseConsumer(r) ==
    /\ read[r] = "ended"
    /\ consuming' = consuming \ {r}
    /\ read' = [read EXCEPT ![r] = "returned"]
    /\ UNCHANGED <<handler, envClosed, producerVars, publish, consumer>>

\* DeleteStream closes what the maps hold, at any time after it saw an open handler, which
\* every handler once was; a later publish makes a new producer.
DeleteStream ==
    /\ handler # "closing"
    /\ producing' = producing \ {producer} /\ producer' = 0
    /\ consuming' = consuming \ {consumer} /\ consumer' = "none"
    /\ UNCHANGED <<handler, envClosed, made, publish, read>>

CloseHandler ==
    /\ handler = "open"
    /\ handler' = "closing"
    /\ producing' = producing \ {producer} /\ consuming' = consuming \ {consumer}
    /\ UNCHANGED <<envClosed, producer, made, publish, consumer, read>>

\* env.Close, and h.mu is released.
CloseEnvironment ==
    /\ handler = "closing"
    /\ handler' = "closed" /\ envClosed' = TRUE
    /\ producing' = {} /\ consuming' = {}
    /\ UNCHANGED <<producer, made, publish, consumer, read>>

StreamNext ==
    \/ \E p \in Publisher : PublishToStream(p) \/ FindProducer(p) \/ CreateProducer(p) \/ SendMessage(p)
    \/ \E r \in Reader : ConsumeFromStream(r) \/ CreateConsumer(r) \/ StoreConsumer(r) \/ ContextDone(r)
                       \/ CloseConsumer(r)
    \/ DeleteStream \/ CloseHandler \/ CloseEnvironment
==============================================================================
