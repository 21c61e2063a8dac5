--------------------------- MODULE ConsumerHealth ---------------------------
(***************************************************************************)
(* The health record a Consumer keeps (consumer_health.go): which of its   *)
(* subscriptions are live, which the broker cancelled, how often each has  *)
(* failed to come back, and the verdict Assess gives on it.  Every         *)
(* operator is one method, run under consumerHealth.mu, so it is one step. *)
(*                                                                         *)
(* NotConsumingSince and SubscribedAt are clocks: "since" is non-zero      *)
(* exactly while a begun consumer has no live subscription                 *)
(* (refreshSinceLocked), so it is derived here from begun and the          *)
(* subscriptions; how long it has lasted, and the failure streaks that only *)
(* tell "ok" from "degraded", are inputs of the verdict.                   *)
(***************************************************************************)
EXTENDS Naturals

CONSTANTS Subs,             \* subscription ids: 0 (shared, batch), or one per worker
          NoChan            \* a subscription that never had a channel

NoSub == [ch |-> NoChan, active |-> FALSE, cancelled |-> FALSE]

InitHealth == [begun |-> FALSE, stopped |-> FALSE, subs |-> [s \in Subs |-> NoSub]]

HealthBegin(h) == [begun |-> TRUE, stopped |-> FALSE, subs |-> [s \in Subs |-> NoSub]]

HealthEnd(h, clean) ==
  [h EXCEPT !.stopped = clean,
            !.subs = [s \in Subs |-> [h.subs[s] EXCEPT !.active = FALSE]]]

HealthSubscribed(h, s, c) ==
  [h EXCEPT !.subs[s] = [ch |-> c, active |-> TRUE, cancelled |-> FALSE]]

HealthClosed(h, s) == [h EXCEPT !.subs[s].active = FALSE]

HealthFailed(h, s) == [h EXCEPT !.subs[s].active = FALSE]

\* Mutant: the notice is believed whatever channel it came from.
HealthCancelledAnyChannel(h, s, c) ==
  [h EXCEPT !.subs[s].active = FALSE, !.subs[s].cancelled = TRUE]

\* A notice from a channel that is no longer the subscription's is stale.
HealthCancelled(h, s, c) ==
  IF h.subs[s].ch # c
  THEN h
  ELSE [h EXCEPT !.subs[s].active = FALSE, !.subs[s].cancelled = TRUE]

Consuming(h) == \E s \in Subs : h.subs[s].active
CancelledByBroker(h) == \E s \in Subs : h.subs[s].cancelled

\* What Assess is told besides the snapshot: the client gave up on a bounded
\* reconnect, the broker refuses the subscription (403, 404, 406), the
\* connection can be trusted (up, old enough, not reconnecting or blocked), and
\* the consumer has been unable to consume for StallAfter; and some
\* subscription has failed consumerResubscribeFailureLimit times in a row.
Circumstances ==
  [gaveUp : BOOLEAN, refused : BOOLEAN, trusted : BOOLEAN, heldLong : BOOLEAN, failing : BOOLEAN]

HealthAssess(h, w) ==
  IF w.gaveUp \/ h.stopped \/ ~h.begun
    THEN "degraded"
  ELSE IF Consuming(h)
    THEN IF CancelledByBroker(h) \/ w.failing THEN "degraded" ELSE "ok"
  ELSE IF w.refused \/ ~w.trusted \/ ~w.heldLong
    THEN "degraded"
  ELSE "stalled"
=============================================================================
