----------------------------- MODULE MCServices -----------------------------
(***************************************************************************)
(* Two systems that share nothing, the managed shutdown of a pool and of a *)
(* stream handler, and the topology validator, explored one at a time:     *)
(* part says which, and the other stays where it starts.                   *)
(***************************************************************************)
EXTENDS GracefulShutdown, TopologyValidator

VARIABLE part

vars == <<part, shutdownVars, topologyVars>>

MCShape == [type |-> "classic", transient |-> FALSE, deadLetter |-> TRUE]
MCShapes == {MCShape, [type |-> "classic", transient |-> TRUE, deadLetter |-> FALSE]}

\* A program with no component, where signals race, or with one, closed by a direct call.
OneComponent == Cardinality(deployed) <= 1

Init ==
    /\ part \in {"shutdown", "topology"}
    /\ ShutdownInit /\ TopologyInit
    /\ IF part = "topology" THEN deployed = {} /\ ~autoRepair
                            ELSE OneComponent /\ ~background /\ ~autoRecreate /\ shape = MCShape

Next ==
    \/ /\ part = "shutdown" /\ ShutdownNext /\ UNCHANGED <<part, topologyVars>>
       /\ deployed = {} \/ UNCHANGED signals
    \/ part = "topology" /\ TopologyNext /\ UNCHANGED <<part, shutdownVars>>

Spec == Init /\ [][Next]_vars /\ TopologyFairness
=============================================================================
