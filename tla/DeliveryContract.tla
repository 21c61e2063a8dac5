--------------------------- MODULE DeliveryContract ---------------------------
(***************************************************************************)
(* What PublishWithDeliveryAssurance promises its callers, with nothing of *)
(* how it keeps the promise: "if the call returns an error, nothing was    *)
(* handed to the broker on its behalf and its callback is NOT invoked; if  *)
(* it returns nil, its callback is invoked exactly once"                   *)
(* (publisher.go, the contract of PublishWithDeliveryAssurance).  Close    *)
(* drops the callbacks still owed.                                         *)
(*                                                                         *)
(* A callback runs in a goroutine of its own, so it may run before the     *)
(* call that it belongs to has returned nil.                               *)
(***************************************************************************)
EXTENDS Integers

CONSTANT Call

VARIABLES
    returned,  \* returned[c]: "running", then "nil" or "error"
    called,    \* called[c]: how often c's callback was invoked
    shut       \* whether the publisher was closed

contractVars == <<returned, called, shut>>

Init ==
    /\ returned = [c \in Call |-> "running"]
    /\ called = [c \in Call |-> 0]
    /\ shut = FALSE

Accept(c) ==
    /\ returned[c] = "running"
    /\ returned' = [returned EXCEPT ![c] = "nil"]
    /\ UNCHANGED <<called, shut>>

Refuse(c) ==
    /\ returned[c] = "running"
    /\ called[c] = 0
    /\ returned' = [returned EXCEPT ![c] = "error"]
    /\ UNCHANGED <<called, shut>>

Callback(c) ==
    /\ returned[c] # "error"
    /\ called[c] = 0
    /\ called' = [called EXCEPT ![c] = 1]
    /\ UNCHANGED <<returned, shut>>

Close ==
    /\ ~shut
    /\ shut' = TRUE
    /\ UNCHANGED <<returned, called>>

Next ==
    \/ \E c \in Call : Accept(c) \/ Refuse(c) \/ Callback(c)
    \/ Close

SafeSpec == Init /\ [][Next]_contractVars

\* An accepted call is owed its callback, unless the publisher is closed first.
Owed(c) == returned[c] = "nil" /\ called[c] = 0 /\ ~shut

Spec == SafeSpec /\ \A c \in Call : WF_contractVars(Owed(c) /\ Callback(c))
===============================================================================
