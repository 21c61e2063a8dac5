------------------------ MODULE MCClientAndPublisher ------------------------
(***************************************************************************)
(* The client's connection, and the plain publisher, to which a connection *)
(* is only up or down: explored one at a time.  part says which, and the   *)
(* other stays where it starts (where the client has no step it must take).*)
(***************************************************************************)
EXTENDS ClientConnection, PlainPublisher

CONSTANTS x1, x2, u1

VARIABLE part

IdleConfiguration ==
    [mode |-> "calls", confirm |-> FALSE, autoReconnect |-> FALSE, retries |-> 0, limit |-> 0]

MCInit ==
    /\ part \in {"client", "publisher"}
    /\ Init /\ PlainInit
    /\ part = "client" => cfg = IdleConfiguration

MCNext ==
    \/ part = "client" /\ Next /\ UNCHANGED <<part, plainVars>>
    \/ part = "publisher" /\ PlainNext /\ UNCHANGED <<part, vars>>

\* A call's goroutine runs, its ConfirmationTimeout passes, and the client reconnects.
PublisherFairness ==
    /\ \A m \in Messages : WF_plainVars(part = "publisher" /\ CallStep(m))
    /\ WF_plainVars(part = "publisher" /\ Reconnects)

MCSpec ==
    /\ MCInit /\ [][MCNext]_<<part, vars, plainVars>>
    /\ ClientFairness /\ PublisherFairness
=============================================================================
