-------------------------- MODULE MCEventDelivery --------------------------
(* An instance of EventDelivery for TLC: a consumer of each kind, bound to *)
(* the same event, so that each sees the retries of the other.             *)
EXTENDS EventDelivery

CONSTANTS notification, monitor

MCBound == Consumer \X Event

MCPrefetch == [c \in Consumer |-> IF c = monitor THEN 1 ELSE 2]
=============================================================================
